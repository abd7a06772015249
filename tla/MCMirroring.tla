------------------------------ MODULE MCMirroring ------------------------------
(* An instance of Mirroring for TLC: three reports of one PC, in the order of  *)
(* their times a, b, c; two threads of the server and the replay command.      *)
EXTENDS Mirroring, TLC

CONSTANTS a, b, c, pc, s1, s2, k, server, command

TwoReports == {a, b}
OnePc == {pc}
ThreeWorkers == {s1, s2, k}
Processes == {server, command}
Home == s1 :> server @@ s2 :> server @@ k :> command
FromOnePc == [r \in {a, b, c} |-> pc]
InOrder == a :> 1 @@ b :> 2 @@ c :> 3
Symmetry == Permutations({s1, s2})
===============================================================================
