------------------------------- MODULE MCOutbox -------------------------------
(* An instance of Outbox for TLC: one worker of the server, one of the replay  *)
(* command.                                                                    *)
EXTENDS Outbox, TLC

CONSTANTS a, b, s1, k, server, command

TwoReports == {a, b}
TwoWorkers == {s1, k}
Processes == {server, command}
Home == s1 :> server @@ k :> command
===============================================================================
