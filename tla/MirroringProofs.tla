---------------------------- MODULE MirroringProofs ----------------------------
(***************************************************************************)
(* Proofs about Mirroring: what a school's sheet shows, for any reports,   *)
(* PCs and times of observation, on top of what OutboxProofs shows of the  *)
(* queue between the table and the sheet.                                  *)
(***************************************************************************)
EXTENDS Mirroring, OutboxProofs

USE OutboxAssumption, MirroringAssumption

-------------------------------------------------------------------------------
(* The composed system implements the queue *)

LEMMA MirrorStepIsQueueStep ==
  ASSUME [MirrorNext]_mirrorVars
  PROVE  [Next]_vars
BY DEF MirrorNext, ReceiveNew, ReceiveLocal, Post, Next, AnyTransmit, mirrorVars

\* With reports that come from PCs and a receiver that answers, the queue is still
\* the one of Outbox: what is proved of it holds of the whole.
THEOREM MirrorKeepsPromise == MirrorSpec => Safety /\ []LeasesLimited /\ ImplementsDelivery
<1>1. MirrorInit => Init
  BY DEF MirrorInit
<1>2. MirrorSpec => Safety
  BY <1>1, MirrorStepIsQueueStep, PTL DEF MirrorSpec, Safety
<1>. QED
  BY <1>2, LeasesAreLimited, QueueKeepsPromise, PTL

-------------------------------------------------------------------------------
(* The inductive invariant *)

\* The report of a place is one that was received, and no older than report r.
AsNew(place, r) == place # Nothing /\ Observed[place] >= Observed[r]

\* A report in the queue was received; one that is received is in the queue or was
\* delivered; what was delivered has reached the sheet.
WayInv ==
  /\ \A r \in Report : rows[r].state # "absent" => r \in received
  /\ delivered \subseteq received
  /\ \A r \in Report \cap received : rows[r].state # "absent" \/ r \in delivered

SheetInv ==
  /\ \A d \in Pc : sheet[d] # Nothing => sheet[d] \in received /\ Of[sheet[d]] = d
  /\ \A r \in delivered : AsNew(sheet[Of[r]], r)

TableInv ==
  /\ \A d \in Pc : LET r == devices["school"][d]
                   IN  r # Nothing => r \in Report \cap received /\ Of[r] = d
  /\ \A r \in Report \cap received : AsNew(devices["school"][Of[r]], r)

MirrorInv == MirrorTypeOK /\ QueueInv /\ WayInv /\ SheetInv /\ TableInv

-------------------------------------------------------------------------------
(* What a step does to the rows, the sheet and the table *)

\* Only the arrival of a report gives it a row.
LEMMA QueueAddsNoRow ==
  ASSUME QueueInv, QueueStep, NEW r \in Report, rows[r].state = "absent"
  PROVE  rows'[r].state = "absent"
<1>1. CASE \E w \in Worker : ClaimNothing(w)
  BY <1>1 DEF ClaimNothing, Swept
<1>2. CASE \E w \in Worker, q \in Report : Claim(w, q)
  <2>1. PICK w \in Worker, q \in Report : Claim(w, q)
    BY <1>2
  <2>2. Swept[r] = rows[r]
    BY DEF Swept
  <2>3. r # q /\ Swept \in [Report -> Row]
    BY <2>1, <2>2, SweptType DEF Claim, InState, QueueInv, TypeOK
  <2>. QED
    BY <2>1, <2>2, <2>3 DEF Claim
<1>3. CASE \E w \in Worker : Renew(w)
  BY <1>3 DEF Renew, Owns, QueueInv, TypeOK
<1>4. CASE \E w \in Worker : Settle(w)
  <2>1. PICK w \in Worker : Settle(w)
    BY <1>4
  <2>2. job[w] \in Report /\ RowInv(job[w])
    BY <2>1 DEF Settle, QueueInv, WorkerInv, Busy
  <2>. QED
    BY <2>1, <2>2 DEF Settle, RowInv, QueueInv, TypeOK
<1>5. CASE ReplayFailed
  BY <1>5 DEF ReplayFailed
<1>6. CASE Tick
  BY <1>6 DEF Tick, QueueInv, TypeOK, Row
<1>7. CASE \E q \in Report : GrowOld(q)
  BY <1>7 DEF GrowOld, QueueInv, TypeOK, Row
<1>8. CASE Fault \/ \E w \in Worker : StartDrain(w) \/ LoseRow(w) \/ LeaveDrain(w)
  BY <1>8 DEF Fault, StorageError, Crash, Vanish, StartDrain, LoseRow, LeaveDrain
<1>. QED
  BY <1>1, <1>2, <1>3, <1>4, <1>5, <1>6, <1>7, <1>8 DEF QueueStep, WorkerStep

\* A row only goes away after its report was delivered.
LEMMA RowsGoDelivered ==
  ASSUME QueueInv, QueueInv', [Next]_vars, NEW r \in Report, rows[r].state # "absent"
  PROVE  rows'[r].state # "absent" \/ r \in delivered'
<1>1. CASE Promise!Moves
  <2>1. Promise!Move(r)
    BY <1>1 DEF Promise!Moves
  <2>2. RowInv(r) /\ delivered' = delivered
    BY <1>1 DEF QueueInv, Promise!Moves
  <2>. QED
    BY <2>1, <2>2 DEF Promise!Move, StatusOf, RowInv
<1>2. CASE [r_1 \in Report |-> StatusOf(r_1)]' = [r_1 \in Report |-> StatusOf(r_1)]
  <2>1. StatusOf(r)' = StatusOf(r)
    BY <1>2
  <2>. QED
    BY <2>1 DEF StatusOf, QueueInv, TypeOK, Row, RowState
<1>. QED
  BY <1>1, <1>2, PromiseStep
     DEF Promise!DeliveryNext, Promise!Try, Promise!Accept, Promise!deliveryVars

\* Upserts and the receiver keep the newer report.
LEMMA NewerWins ==
  ASSUME NEW r \in All, NEW q \in All, NEW current \in All \cup {Nothing},
         AsNew(current, q)
  PROVE  AsNew(IF Newer(r, current) THEN r ELSE current, q)
BY DEF AsNew, Newer, All

LEMMA NewIsIn ==
  ASSUME NEW r \in All, NEW current \in All \cup {Nothing}
  PROVE  AsNew(IF Newer(r, current) THEN r ELSE current, r)
BY DEF AsNew, Newer, All

-------------------------------------------------------------------------------
(* The invariant is kept *)

LEMMA ArrivalKeeps ==
  ASSUME MirrorInv, NEW r \in All, Upsert(r), received' = received \cup {r},
         UNCHANGED <<sheet, delivered>>,
         r \in Report => rows'[r].state # "absent",
         \A q \in Report \ {r} : rows'[q] = rows[q]
  PROVE  /\ (WayInv /\ SheetInv /\ TableInv)'
         /\ devices' \in [Scope -> [Pc -> All \cup {Nothing}]]
<1>1. /\ devices \in [Scope -> [Pc -> All \cup {Nothing}]]
      /\ ScopeOf(r) \in Scope /\ Of[r] \in Pc /\ received \subseteq All
      /\ delivered \subseteq Report /\ sheet \in [Pc -> Report \cup {Nothing}]
  BY DEF MirrorInv, MirrorTypeOK, QueueInv, TypeOK, ScopeOf, Scope
<1>2. devices' \in [Scope -> [Pc -> All \cup {Nothing}]]
  BY <1>1 DEF Upsert
<1>3. WayInv'
  BY <1>1 DEF MirrorInv, WayInv
<1>4. SheetInv'
  BY <1>1 DEF MirrorInv, SheetInv
<1>5. CASE r \in Report
  <2>1. ASSUME NEW d \in Pc
        PROVE  devices'["school"][d] =
                 IF d = Of[r] /\ Newer(r, devices["school"][d]) THEN r
                 ELSE devices["school"][d]
    BY <1>1, <1>5 DEF Upsert, ScopeOf, Scope
  <2>2. ASSUME NEW d \in Pc, devices'["school"][d] # Nothing
        PROVE  devices'["school"][d] \in Report \cap received' /\ Of[devices'["school"][d]] = d
    BY <1>5, <2>1, <2>2 DEF MirrorInv, TableInv
  <2>3. ASSUME NEW q \in Report \cap received'
        PROVE  AsNew(devices'["school"][Of[q]], q)
    <3>1. Of[q] \in Pc /\ q \in All /\ devices["school"][Of[q]] \in All \cup {Nothing}
      BY <1>1 DEF All, Scope
    <3>2. CASE q = r
      BY <2>1, <3>1, <3>2, NewIsIn
    <3>3. CASE q # r
      <4>1. AsNew(devices["school"][Of[q]], q)
        BY <3>3 DEF MirrorInv, TableInv
      <4>. QED
        BY <2>1, <3>1, <4>1, NewerWins
    <3>. QED
      BY <3>2, <3>3
  <2>. QED
    BY <1>2, <1>3, <1>4, <2>2, <2>3 DEF TableInv
<1>6. CASE r \notin Report
  <2>1. devices'["school"] = devices["school"]
    BY <1>1, <1>6 DEF Upsert, ScopeOf, Scope
  <2>2. TableInv'
    BY <1>6, <2>1 DEF MirrorInv, TableInv
  <2>. QED
    BY <1>2, <1>3, <1>4, <2>2
<1>. QED
  BY <1>5, <1>6

LEMMA ReceiveKeeps ==
  ASSUME MirrorInv, QueueInv', \/ \E r \in Report : ReceiveNew(r)
                               \/ \E r \in Local : ReceiveLocal(r)
  PROVE  MirrorInv'
<1>1. PICK r \in All : /\ Upsert(r) /\ received' = received \cup {r}
                       /\ UNCHANGED <<sheet, delivered>>
                       /\ r \in Report => rows'[r].state # "absent"
                       /\ \A q \in Report \ {r} : rows'[q] = rows[q]
  <2>1. CASE \E r \in Report : ReceiveNew(r)
    BY <2>1, FreshRows DEF ReceiveNew, Enqueue, All, MirrorInv, QueueInv, TypeOK
  <2>2. CASE \E r \in Local : ReceiveLocal(r)
    BY <2>2 DEF ReceiveLocal, vars, All
  <2>. QED
    BY <2>1, <2>2
<1>2. /\ (WayInv /\ SheetInv /\ TableInv)'
      /\ devices' \in [Scope -> [Pc -> All \cup {Nothing}]]
  BY <1>1, ArrivalKeeps
<1>3. MirrorTypeOK'
  BY <1>1, <1>2 DEF MirrorInv, MirrorTypeOK, QueueInv
<1>. QED
  BY <1>2, <1>3 DEF MirrorInv

LEMMA PostKeeps ==
  ASSUME MirrorInv, QueueInv', NEW w \in Worker, Post(w)
  PROVE  MirrorInv'
<1>1. PICK said \in Outcome \ {"none"}, accepted \in BOOLEAN :
        /\ Transmit(w, said, accepted)
        /\ IF accepted THEN WriteSheet(job[w]) ELSE UNCHANGED sheet
        /\ UNCHANGED <<devices, received>>
  BY DEF Post
<1>2. /\ job[w] \in Report /\ job[w] \in All /\ Of[job[w]] \in Pc
      /\ rows[job[w]].state # "absent" \/ job[w] \in delivered
      /\ rows' = rows
  BY <1>1 DEF Transmit, MirrorInv, QueueInv, WorkerInv, Busy, All
<1>3. job[w] \in received
  BY <1>2 DEF MirrorInv, WayInv
<1>4. /\ sheet \in [Pc -> Report \cup {Nothing}] /\ delivered \subseteq Report
      /\ received \subseteq All
  BY DEF MirrorInv, MirrorTypeOK, QueueInv, TypeOK
<1>5. WayInv'
  BY <1>1, <1>2, <1>3 DEF Transmit, MirrorInv, WayInv
<1>6. SheetInv' /\ sheet' \in [Pc -> Report \cup {Nothing}]
  <2>1. CASE accepted
    <3>1. ASSUME NEW d \in Pc
          PROVE  sheet'[d] = IF d = Of[job[w]] /\ Newer(job[w], sheet[d]) THEN job[w]
                             ELSE sheet[d]
      BY <1>1, <1>4, <2>1 DEF WriteSheet
    <3>2. ASSUME NEW d \in Pc, sheet'[d] # Nothing
          PROVE  sheet'[d] \in received' /\ Of[sheet'[d]] = d
      BY <1>1, <1>3, <3>1, <3>2 DEF MirrorInv, SheetInv
    <3>3. ASSUME NEW q \in delivered'
          PROVE  AsNew(sheet'[Of[q]], q)
      <4>1. q \in All /\ Of[q] \in Pc /\ sheet[Of[q]] \in All \cup {Nothing}
        BY <1>1, <1>2, <1>4 DEF Transmit, All
      <4>2. CASE q = job[w]
        BY <1>2, <3>1, <4>1, <4>2, NewIsIn
      <4>3. CASE q # job[w]
        <5>1. AsNew(sheet[Of[q]], q)
          BY <1>1, <4>3 DEF Transmit, MirrorInv, SheetInv
        <5>. QED
          BY <1>2, <3>1, <4>1, <5>1, NewerWins
      <4>. QED
        BY <4>2, <4>3
    <3>4. sheet' \in [Pc -> Report \cup {Nothing}]
      BY <1>1, <1>2, <1>4, <2>1 DEF WriteSheet
    <3>. QED
      BY <3>2, <3>3, <3>4 DEF SheetInv
  <2>2. CASE ~accepted
    BY <1>1, <1>4, <2>2 DEF Transmit, MirrorInv, SheetInv
  <2>. QED
    BY <2>1, <2>2
<1>7. TableInv'
  BY <1>1 DEF MirrorInv, TableInv
<1>8. MirrorTypeOK'
  BY <1>1, <1>6 DEF MirrorInv, MirrorTypeOK, QueueInv
<1>. QED
  BY <1>5, <1>6, <1>7, <1>8 DEF MirrorInv

LEMMA QueueStepKeeps ==
  ASSUME MirrorInv, QueueInv', [Next]_vars, UNCHANGED <<devices, sheet, received>>,
         delivered' = delivered,
         \A r \in Report : rows[r].state = "absent" => rows'[r].state = "absent"
  PROVE  MirrorInv'
<1>1. WayInv'
  <2>1. ASSUME NEW r \in Report \cap received
        PROVE  rows'[r].state # "absent" \/ r \in delivered'
    BY RowsGoDelivered DEF MirrorInv, WayInv
  <2>. QED
    BY <2>1 DEF MirrorInv, WayInv
<1>2. SheetInv' /\ TableInv'
  BY DEF MirrorInv, SheetInv, TableInv
<1>3. MirrorTypeOK'
  BY DEF MirrorInv, MirrorTypeOK, QueueInv
<1>. QED
  BY <1>1, <1>2, <1>3 DEF MirrorInv

LEMMA MirrorInvStep ==
  ASSUME MirrorInv, [MirrorNext]_mirrorVars
  PROVE  MirrorInv'
<1>1. [Next]_vars /\ QueueInv'
  BY MirrorStepIsQueueStep, QueueInvStep DEF MirrorInv
<1>2. CASE \/ \E r \in Report : ReceiveNew(r)
           \/ \E r \in Local : ReceiveLocal(r)
  BY <1>1, <1>2, ReceiveKeeps
<1>3. CASE \E w \in Worker : Post(w)
  BY <1>1, <1>3, PostKeeps
<1>4. CASE QueueStep /\ UNCHANGED <<devices, sheet, received>>
  <2>1. delivered' = delivered
    BY <1>4 DEF QueueStep, StartDrain, WorkerStep, ClaimNothing, Claim, Renew, LoseRow,
                Settle, LeaveDrain, ReplayFailed, Fault, StorageError, Crash, Vanish,
                Tick, GrowOld
  <2>2. \A r \in Report : rows[r].state = "absent" => rows'[r].state = "absent"
    BY <1>4, QueueAddsNoRow DEF MirrorInv
  <2>. QED
    BY <1>1, <1>4, <2>1, <2>2, QueueStepKeeps
<1>5. CASE UNCHANGED mirrorVars
  <2>1. UNCHANGED <<vars, devices, sheet, received>>
    BY <1>5 DEF mirrorVars
  <2>2. rows' = rows /\ delivered' = delivered
    BY <2>1 DEF vars
  <2>. QED
    BY <1>1, <2>1, <2>2, QueueStepKeeps
<1>. QED
  BY <1>2, <1>3, <1>4, <1>5 DEF MirrorNext

LEMMA MirrorInvHolds == MirrorSpec => []MirrorInv
<1>1. MirrorInit => MirrorInv
  <2>. SUFFICES ASSUME MirrorInit
                PROVE  MirrorInv
    OBVIOUS
  <2>1. QueueInv
    BY QueueInvInit DEF MirrorInit
  <2>2. MirrorTypeOK
    BY <2>1 DEF MirrorInit, MirrorTypeOK, QueueInv
  <2>3. WayInv /\ SheetInv /\ TableInv
    BY FreshRows DEF MirrorInit, Init, WayInv, SheetInv, TableInv, Scope
  <2>. QED
    BY <2>1, <2>2, <2>3 DEF MirrorInv
<1>2. MirrorInv /\ [MirrorNext]_mirrorVars => MirrorInv'
  BY MirrorInvStep
<1>. QED
  BY <1>1, <1>2, PTL DEF MirrorSpec

-------------------------------------------------------------------------------
(* What the sheet and the table show *)

\* The variables keep their types, whatever arrives and whatever is lost.
THEOREM MirrorTypeCorrect == MirrorSpec => []MirrorTypeOK
<1>1. MirrorInv => MirrorTypeOK
  BY DEF MirrorInv
<1>. QED
  BY <1>1, MirrorInvHolds, PTL

\* A report the outbox calls sent is in its school's sheet, or a newer one of its PC
\* is, although answers are lost and workers late.
THEOREM SentIsInSheet == MirrorSpec => []SentIsMirrored
<1>1. MirrorInv => SentIsMirrored
  BY DEF MirrorInv, QueueInv, RowInv, SheetInv, AsNew, SentIsMirrored
<1>. QED
  BY <1>1, MirrorInvHolds, PTL

\* Once everything received is sent, sheet and dashboard agree on the newest report of
\* every PC, in whatever order the reports arrived and were sent.
THEOREM SheetConverges == MirrorSpec => []Converged
<1>1. ASSUME MirrorInv
      PROVE  Converged
  <2>. SUFFICES ASSUME \A r \in Report : r \in received => rows[r].state \in {"sent", "absent"},
                       NEW d \in Pc
                PROVE  /\ sheet[d] = devices["school"][d]
                       /\ \A r \in Report \cap received :
                            Of[r] = d => Observed[r] <= Observed[sheet[d]]
    BY DEF Converged
  <2>. DEFINE shown == devices["school"][d]
  <2>1. /\ sheet[d] \in Report \cup {Nothing} /\ shown \in All \cup {Nothing}
        /\ Nothing \notin Report
    BY <1>1 DEF MirrorInv, MirrorTypeOK, Scope, All
  <2>2. ASSUME NEW r \in Report \cap received, Of[r] = d
        PROVE  AsNew(sheet[d], r) /\ AsNew(shown, r)
    <3>1. r \in delivered
      BY <1>1 DEF MirrorInv, WayInv, QueueInv, RowInv
    <3>. QED
      BY <1>1, <2>2, <3>1 DEF MirrorInv, SheetInv, TableInv
  <2>3. sheet[d] # Nothing => sheet[d] \in Report \cap received /\ Of[sheet[d]] = d
    BY <1>1, <2>1 DEF MirrorInv, SheetInv
  <2>4. shown # Nothing => shown \in Report \cap received /\ Of[shown] = d
    BY <1>1 DEF MirrorInv, TableInv
  <2>5. sheet[d] = shown
    <3>1. CASE sheet[d] = Nothing
      BY <2>2, <2>4, <3>1 DEF AsNew
    <3>2. CASE shown = Nothing
      BY <2>2, <2>3, <3>2 DEF AsNew
    <3>3. CASE sheet[d] # Nothing /\ shown # Nothing
      <4>1. Observed[sheet[d]] = Observed[shown]
        <5>1. Observed[sheet[d]] \in Nat /\ Observed[shown] \in Nat
          BY <2>3, <2>4, <3>3 DEF All
        <5>2. Observed[sheet[d]] >= Observed[shown] /\ Observed[shown] >= Observed[sheet[d]]
          BY <2>2, <2>3, <2>4, <3>3 DEF AsNew
        <5>. QED
          BY <5>1, <5>2
      <4>. QED
        BY <2>3, <2>4, <3>3, <4>1 DEF All
    <3>. QED
      BY <3>1, <3>2, <3>3
  <2>6. ASSUME NEW r \in Report \cap received, Of[r] = d
        PROVE  Observed[r] <= Observed[sheet[d]]
    BY <2>2, <2>6, <2>3 DEF AsNew, All
  <2>. QED
    BY <2>5, <2>6
<1>2. MirrorInv => Converged
  BY <1>1
<1>. QED
  BY <1>2, MirrorInvHolds, PTL

\* The step of NeverGoesBack.
Forward ==
  \A d \in Pc :
    /\ sheet'[d] # sheet[d] => sheet[d] = Nothing \/ Observed[sheet'[d]] > Observed[sheet[d]]
    /\ \A s \in Scope :
         devices'[s][d] # devices[s][d] =>
           devices[s][d] = Nothing \/ Observed[devices'[s][d]] > Observed[devices[s][d]]

LEMMA StepForward ==
  ASSUME MirrorInv, [MirrorNext]_mirrorVars
  PROVE  Forward
<1>1. /\ devices \in [Scope -> [Pc -> All \cup {Nothing}]]
      /\ sheet \in [Pc -> Report \cup {Nothing}]
  BY DEF MirrorInv, MirrorTypeOK
<1>2. CASE \E r \in All : Upsert(r) /\ UNCHANGED sheet
  BY <1>1, <1>2 DEF Upsert, Newer, Forward, ScopeOf, Scope
<1>3. CASE \E w \in Worker : Post(w)
  BY <1>1, <1>3 DEF Post, WriteSheet, Newer, Forward
<1>4. CASE UNCHANGED <<devices, sheet>>
  BY <1>4 DEF Forward
<1>. QED
  BY <1>2, <1>3, <1>4 DEF MirrorNext, ReceiveNew, ReceiveLocal, All, mirrorVars

\* Neither the table nor the sheet ever goes back to an older report of a PC.
THEOREM NeverOlder == MirrorSpec => NeverGoesBack
<1>1. MirrorInv /\ [MirrorNext]_mirrorVars => [Forward]_mirrorVars
  BY StepForward
<1>. QED
  BY <1>1, MirrorInvHolds, PTL DEF MirrorSpec, NeverGoesBack, Forward
===============================================================================
