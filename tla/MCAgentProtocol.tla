---------------------------- MODULE MCAgentProtocol ----------------------------
(* Instances of AgentProtocol for TLC. *)
EXTENDS AgentProtocol

CONSTANTS d1, r1, r2

OneDevice == {d1}
None == {}
TwoRequests == {r1, r2}
Exits == {0, 1}
===============================================================================
