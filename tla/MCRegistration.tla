---------------------------- MODULE MCRegistration ----------------------------
(* An instance of Registration for TLC: one PC. *)
EXTENDS Registration

CONSTANTS d1, r1

OnePc == {d1}
None == {}
OneRequest == {r1}
Exits == {0, 1}
===============================================================================
