---------------------------- MODULE ReportDelivery ----------------------------
(***************************************************************************)
(* What the outbox promises of a report, whatever its workers, leases,     *)
(* sweeps, faults and replays do: it waits until it is sent or given up,   *)
(* is only called sent once the receiver has it, is tried at most          *)
(* MaxTries times per replay, and is only forgotten after it was sent.     *)
(* One step may move several reports: a claim sweeps the whole table.      *)
(***************************************************************************)
EXTENDS Naturals

CONSTANTS Report, MaxTries

VARIABLES status,     \* what has become of each report
          accepted,   \* reports the receiver has
          tries       \* attempts since a report was queued or replayed

deliveryVars == <<status, accepted, tries>>

Status == {"absent", "waiting", "given up", "sent"}

DeliveryInit ==
  /\ status = [r \in Report |-> "absent"]
  /\ accepted = {}
  /\ tries = [r \in Report |-> 0]

\* Only a report that was queued gets to the receiver.
Accept(r) ==
  /\ status[r] # "absent"
  /\ accepted' = accepted \cup {r}
  /\ UNCHANGED <<status, tries>>

Try(r) ==
  /\ status[r] = "waiting" /\ tries[r] < MaxTries
  /\ tries' = [tries EXCEPT ![r] = @ + 1]
  /\ UNCHANGED <<status, accepted>>

\* The one way round: what may become of a report in a step.
Move(r) ==
  \/ status'[r] = status[r] /\ tries'[r] = tries[r]
  \/ status[r] \in {"absent", "given up"} /\ status'[r] = "waiting" /\ tries'[r] = 0
  \/ status[r] = "waiting" /\ status'[r] = "given up" /\ tries'[r] = tries[r]
  \/ status[r] = "waiting" /\ r \in accepted /\ status'[r] = "sent" /\ tries'[r] = tries[r]
  \/ status[r] = "sent" /\ status'[r] = "absent" /\ tries'[r] = tries[r]

Moves ==
  /\ status' \in [Report -> Status]
  /\ tries' \in [Report -> 0..MaxTries]
  /\ \A r \in Report : Move(r)
  /\ UNCHANGED accepted

DeliveryNext == Moves \/ \E r \in Report : Accept(r) \/ Try(r)

DeliverySpec == DeliveryInit /\ [][DeliveryNext]_deliveryVars

===============================================================================
