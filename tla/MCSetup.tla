------------------------------- MODULE MCSetup -------------------------------
(* An instance of Setup for TLC: one old Hancom and one orphaned entry. *)
EXTENDS Setup

CONSTANTS a1, a2

OldApps == {a1, a2}
Orphans == {a2}
===============================================================================
