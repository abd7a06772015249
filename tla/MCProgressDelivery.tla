-------------------------- MODULE MCProgressDelivery --------------------------
(* Instances of ProgressDelivery for TLC. *)
EXTENDS ProgressDelivery

\* The files of the jobs.
LongThenShort == <<3, 1>>
===============================================================================
