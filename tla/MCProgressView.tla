---------------------------- MODULE MCProgressView ----------------------------
(* Instances of ProgressView for TLC. *)
EXTENDS ProgressView

TwoJobs == {1, 2}
OneJob == {1}
\* The logs of the jobs: the second one goes from the request to the outcome.
LongAndShort == <<1, 0>>
Short == <<1>>
===============================================================================
