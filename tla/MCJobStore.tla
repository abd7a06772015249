------------------------------ MODULE MCJobStore ------------------------------
(* Instances of JobStore for TLC. *)
EXTENDS JobStore, TLC

CONSTANTS d1, d2, c1, r1, r2, p1, p2

TwoDevices == {d1, d2}
OneDevice == {d1}
NoCode == {}
OneCode == {c1}
TwoRequests == {r1, r2}
OneRequest == {r1}
NoPayload == {}
TwoPayloads == {p1, p2}
Exits == {0, 1, 2}
ExitsBinary == {0, 1}

Symmetry == Permutations({d1, d2}) \cup Permutations({r1, r2})
            \cup Permutations({p1, p2})
===============================================================================
