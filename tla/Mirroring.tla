------------------------------- MODULE Mirroring -------------------------------
(***************************************************************************)
(* A report on its way from a PC to its school's sheet.  POST /api/report  *)
(* stores it in the table devices and, in the same transaction, in the     *)
(* outbox; a worker of the outbox posts it to the Google Apps Script       *)
(* receiver, which keeps one row per device.                               *)
(*                                                                         *)
(* Reports arrive in any order, more than once, and again after the outbox *)
(* has forgotten them; workers send them in any order, at the same time,   *)
(* and again when an answer was lost.  Reports of a PC that belongs to no  *)
(* school are not mirrored.  Two reports of a PC have different times.     *)
(***************************************************************************)
EXTENDS Outbox

CONSTANTS Pc,           \* device ids
          Local,        \* reports that name no school
          Of,           \* Of[r]: the PC a report is from
          Observed,     \* Observed[r]: observed_at
          Nothing       \* a row that does not exist

All == Report \cup Local

ASSUME MirroringAssumption ==
  /\ Report \cap Local = {}
  /\ Nothing \notin All
  /\ Of \in [All -> Pc]
  /\ Observed \in [All -> Nat]
  /\ \A q, r \in All : Of[q] = Of[r] /\ Observed[q] = Observed[r] => q = r

VARIABLES devices,      \* devices[s][d]: the report in the table devices
          sheet,        \* sheet[d]: the report in the receiver's row of d
          received      \* reports that were accepted at least once

mirrorVars == <<vars, devices, sheet, received>>

Scope == {"school", "none"}      \* the first part of the key of devices
ScopeOf(r) == IF r \in Report THEN "school" ELSE "none"

Newer(r, current) == current = Nothing \/ Observed[r] > Observed[current]

MirrorTypeOK ==
  /\ TypeOK
  /\ devices \in [Scope -> [Pc -> All \cup {Nothing}]]
  /\ sheet \in [Pc -> Report \cup {Nothing}]
  /\ received \subseteq All

MirrorInit ==
  /\ Init
  /\ devices = [s \in Scope |-> [d \in Pc |-> Nothing]]
  /\ sheet = [d \in Pc |-> Nothing]
  /\ received = {}

-------------------------------------------------------------------------------

\* Mutant: the row of devices is replaced without a look at the times.
UpsertAlways(r) ==
  devices' = [devices EXCEPT ![ScopeOf(r)][Of[r]] = r]

Upsert(r) ==
  devices' = IF Newer(r, devices[ScopeOf(r)][Of[r]])
             THEN [devices EXCEPT ![ScopeOf(r)][Of[r]] = r] ELSE devices

ReceiveNew(r) ==
  /\ Enqueue(r)
  /\ Upsert(r)
  /\ received' = received \cup {r}
  /\ UNCHANGED sheet

ReceiveLocal(r) ==
  /\ Upsert(r)
  /\ received' = received \cup {r}
  /\ UNCHANGED <<vars, sheet>>

\* A report that still has a row in the outbox is accepted and changes nothing.

\* Mutant: a newer row of the sheet is overwritten.
WriteAnyway(r) == sheet' = [sheet EXCEPT ![Of[r]] = r]

\* The receiver, under the script lock: "updated", else "duplicate" or "stale".
WriteSheet(r) ==
  sheet' = IF Newer(r, sheet[Of[r]]) THEN [sheet EXCEPT ![Of[r]] = r] ELSE sheet

\* "ok" is only answered by a receiver that went through; a retryable answer is a
\* busy lock, an error of the sheet service or an answer that was lost on its way.
Post(w) ==
  \E said \in Outcome \ {"none"}, accepted \in BOOLEAN :
    /\ Transmit(w, said, accepted)
    /\ IF accepted THEN WriteSheet(job[w]) ELSE UNCHANGED sheet
    /\ UNCHANGED <<devices, received>>

MirrorNext ==
  \/ \E r \in Report : ReceiveNew(r)
  \/ \E r \in Local : ReceiveLocal(r)
  \/ \E w \in Worker : Post(w)
  \/ QueueStep /\ UNCHANGED <<devices, sheet, received>>

MirrorSpec == MirrorInit /\ [][MirrorNext]_mirrorVars

-------------------------------------------------------------------------------
(* Properties *)

\* Neither the table nor the sheet ever goes back to an older report of a PC, in
\* whatever order reports are received, sent, repeated and replayed
\* (docs/PHASE4_DESIGN.md).
NeverGoesBack ==
  [][\A d \in Pc :
       /\ sheet'[d] # sheet[d] => sheet[d] = Nothing \/ Observed[sheet'[d]] > Observed[sheet[d]]
       /\ \A s \in Scope :
            devices'[s][d] # devices[s][d] =>
              devices[s][d] = Nothing \/ Observed[devices'[s][d]] > Observed[devices[s][d]]]_mirrorVars

\* A report the outbox calls sent is in the sheet or a newer one of its PC is.
SentIsMirrored ==
  \A r \in Report :
    rows[r].state = "sent" => /\ sheet[Of[r]] # Nothing
                              /\ Observed[sheet[Of[r]]] >= Observed[r]

\* Once everything received is sent, every PC shows the same report on the
\* dashboard and in its school's sheet, and it is the newest one received.
Converged ==
  (\A r \in Report : r \in received => rows[r].state \in {"sent", "absent"}) =>
    \A d \in Pc :
      /\ sheet[d] = devices["school"][d]
      /\ \A r \in Report \cap received : Of[r] = d => Observed[r] <= Observed[sheet[d]]

===============================================================================
