----------------------------- MODULE OutboxProofs -----------------------------
(***************************************************************************)
(* Proofs about Outbox, for any reports, workers, processes and limits.    *)
(* They need no fairness: the theorems are about Safety, which Spec        *)
(* strengthens.                                                            *)
(***************************************************************************)
EXTENDS Outbox, FiniteSetTheorems, TLAPS

USE OutboxAssumption

-------------------------------------------------------------------------------
(* The inductive invariant *)

\* A row that waits has tries left, and its attempts are the ones begun since it was
\* queued; what is called sent has been delivered.
RowInv(r) ==
  /\ rows[r].owner # Nobody <=> rows[r].state = "sending"
  /\ rows[r].state = "pending" => rows[r].attempts < MaxAttempts
  /\ rows[r].state \in {"pending", "sending"} => sends[r] = rows[r].attempts
  /\ sends[r] <= MaxAttempts
  /\ rows[r].state = "sent" => r \in delivered

Busy == {"renew", "send", "settle"}

\* A worker that owns its row counts its attempts as the row does; one that has lost
\* it may be anywhere, and the row may be forgotten, but then it was delivered.
WorkerInv(w) ==
  at[w] \in Busy =>
    /\ job[w] \in Report
    /\ attempt[w] >= 1
    /\ rows[job[w]].owner = w =>
         rows[job[w]].attempts = IF at[w] = "renew" THEN attempt[w] - 1 ELSE attempt[w]
    /\ rows[job[w]].state # "absent" \/ job[w] \in delivered
    /\ at[w] = "settle" /\ outcome[w] = "ok" => job[w] \in delivered

QueueInv ==
  /\ TypeOK
  /\ \A r \in Report : RowInv(r)
  /\ \A w \in Worker : WorkerInv(w)

-------------------------------------------------------------------------------
(* What the steps do to a row *)

\* The sweep of a claim leaves a row alone, takes it from a lost owner or forgets it.
Sweeps(r) ==
  \/ Swept[r] = rows[r]
  \/ /\ rows[r].state = "sending"
     /\ Swept[r] = [rows[r] EXCEPT !.owner = Nobody,
                      !.state = IF rows[r].attempts >= MaxAttempts THEN "failed" ELSE "pending"]
  \/ rows[r].state = "sent" /\ Swept[r] = NoRow

LEMMA FreshRows ==
  /\ NoRow \in Row /\ NoRow.owner = Nobody /\ NoRow.state = "absent"
  /\ NewRow \in Row /\ NewRow.owner = Nobody /\ NewRow.state = "pending"
  /\ NewRow.attempts = 0
<1>1. NoRow \in Row /\ NoRow.owner = Nobody /\ NoRow.state = "absent" /\ NoRow.attempts = 0
  BY DEF NoRow, Row, RowState
<1>2. NewRow \in Row
  BY <1>1 DEF NewRow, Row, RowState
<1>3. NewRow.owner = Nobody /\ NewRow.state = "pending" /\ NewRow.attempts = 0
  BY <1>1 DEF NewRow, Row
<1>. QED
  BY <1>1, <1>2, <1>3

\* The ways in which a transaction writes a row, from the table's or the swept rows.
LEMMA ClaimedRow ==
  ASSUME NEW row \in Row, NEW w \in Worker
  PROVE  LET claimed == [row EXCEPT !.state = "sending", !.owner = w, !.lease = Lease]
         IN  /\ claimed \in Row /\ claimed.state = "sending" /\ claimed.owner = w
             /\ claimed.attempts = row.attempts
<1>1. Lease \in 0..Lease /\ Lease \in Nat
  OBVIOUS
<1>2. [row EXCEPT !.state = "sending", !.owner = w, !.lease = Lease] \in Row
  BY <1>1 DEF Row, RowState
<1>. QED
  BY <1>2 DEF Row

LEMMA RenewedRow ==
  ASSUME NEW row \in Row, NEW n \in 0..MaxAttempts
  PROVE  LET renewed == [row EXCEPT !.attempts = n, !.lease = Lease]
         IN  /\ renewed \in Row /\ renewed.state = row.state
             /\ renewed.owner = row.owner /\ renewed.attempts = n
<1>1. Lease \in 0..Lease /\ Lease \in Nat
  OBVIOUS
<1>2. [row EXCEPT !.attempts = n, !.lease = Lease] \in Row
  BY <1>1 DEF Row, RowState
<1>. QED
  BY <1>2 DEF Row

LEMMA SettledRows ==
  ASSUME NEW row \in Row
  PROVE  LET again == [row EXCEPT !.state = "sending", !.lease = Lease]
             sent == [row EXCEPT !.state = "sent", !.lease = 0, !.owner = Nobody, !.old = FALSE]
             failed == [row EXCEPT !.state = "failed", !.lease = 0, !.owner = Nobody]
         IN  /\ again \in Row /\ again.state = "sending" /\ again.owner = row.owner
             /\ again.attempts = row.attempts
             /\ sent \in Row /\ sent.state = "sent" /\ sent.owner = Nobody
             /\ sent.attempts = row.attempts
             /\ failed \in Row /\ failed.state = "failed" /\ failed.owner = Nobody
             /\ failed.attempts = row.attempts
<1>1. Lease \in 0..Lease /\ 0 \in 0..Lease /\ Lease \in Nat
  OBVIOUS
<1>2. [row EXCEPT !.state = "sending", !.lease = Lease] \in Row
  BY <1>1 DEF Row, RowState
<1>3. [row EXCEPT !.state = "sent", !.lease = 0, !.owner = Nobody, !.old = FALSE] \in Row
  BY <1>1 DEF Row, RowState
<1>4. [row EXCEPT !.state = "failed", !.lease = 0, !.owner = Nobody] \in Row
  BY <1>1 DEF Row, RowState
<1>5. [row EXCEPT !.state = "sent", !.lease = 0, !.owner = Nobody, !.old = FALSE].attempts
        = row.attempts
  BY DEF Row
<1>. QED
  BY <1>2, <1>3, <1>4, <1>5 DEF Row

LEMMA SweptType ==
  ASSUME rows \in [Report -> Row]
  PROVE  Swept \in [Report -> Row]
<1>1. ASSUME NEW q \in Report
      PROVE  Swept[q] \in Row
  <2>1. rows[q] \in Row
    OBVIOUS
  <2>2. [rows[q] EXCEPT !.owner = Nobody, !.state = "failed"] \in Row
    BY <2>1 DEF Row, RowState
  <2>3. [rows[q] EXCEPT !.owner = Nobody, !.state = "pending"] \in Row
    BY <2>1 DEF Row, RowState
  <2>. QED
    BY <2>1, <2>2, <2>3, FreshRows DEF Swept
<1>. QED
  BY <1>1 DEF Swept

LEMMA SweptRow ==
  ASSUME NEW r \in Report
  PROVE  Sweeps(r)
BY DEF Swept, Sweeps

-------------------------------------------------------------------------------
(* The invariant is kept *)

\* What each transaction keeps of a row that worker v is busy with and does not write.
Keeps(r, v) ==
  /\ rows'[r].owner = v => rows[r].owner = v /\ rows'[r].attempts = rows[r].attempts
  /\ rows[r].state # "absent" => rows'[r].state # "absent" \/ r \in delivered'

LEMMA OthersStay ==
  ASSUME NEW v \in Worker, WorkerInv(v), delivered \subseteq delivered',
         \A r \in Report : Keeps(r, v),
         at'[v] = at[v], job'[v] = job[v], attempt'[v] = attempt[v], outcome'[v] = outcome[v]
  PROVE  WorkerInv(v)'
BY DEF WorkerInv, Keeps

LEMMA SweepKeeps ==
  ASSUME QueueInv, NEW r \in Report, NEW v \in Worker,
         rows'[r] = Swept[r], sends'[r] = sends[r], delivered' = delivered
  PROVE  RowInv(r)' /\ Keeps(r, v)
<1>1. Sweeps(r) /\ RowInv(r) /\ rows[r] \in Row /\ sends[r] \in Nat
  BY SweptRow DEF QueueInv, TypeOK
<1>2. CASE Swept[r] = rows[r]
  BY <1>1, <1>2 DEF RowInv, Keeps
<1>3. CASE /\ rows[r].state = "sending"
           /\ Swept[r] = [rows[r] EXCEPT !.owner = Nobody,
                            !.state = IF rows[r].attempts >= MaxAttempts
                                      THEN "failed" ELSE "pending"]
  <2>1. /\ rows'[r].owner = Nobody
        /\ rows'[r].attempts = rows[r].attempts
        /\ rows'[r].state = IF rows[r].attempts >= MaxAttempts THEN "failed" ELSE "pending"
    BY <1>1, <1>3 DEF Row
  <2>2. rows[r].attempts \in 0..MaxAttempts
    BY <1>1 DEF Row
  <2>. QED
    BY <1>1, <1>3, <2>1, <2>2 DEF RowInv, Keeps
<1>4. CASE rows[r].state = "sent" /\ Swept[r] = NoRow
  <2>1. rows'[r].owner = Nobody /\ rows'[r].state = "absent"
    BY <1>4 DEF NoRow
  <2>. QED
    BY <1>1, <1>4, <2>1 DEF RowInv, Keeps
<1>. QED
  BY <1>1, <1>2, <1>3, <1>4 DEF Sweeps

LEMMA EnqueueKeeps ==
  ASSUME QueueInv, NEW r \in Report, Enqueue(r)
  PROVE  QueueInv'
<1>. USE DEF Enqueue
<1>2. TypeOK'
  BY FreshRows DEF QueueInv, TypeOK, worker
<1>3. ASSUME NEW q \in Report
      PROVE  RowInv(q)' /\ \A v \in Worker : Keeps(q, v)
  BY FreshRows DEF QueueInv, TypeOK, RowInv, Keeps
<1>4. ASSUME NEW v \in Worker
      PROVE  WorkerInv(v)'
  BY <1>3, OthersStay DEF QueueInv, worker
<1>. QED
  BY <1>2, <1>3, <1>4 DEF QueueInv

LEMMA ClaimNothingKeeps ==
  ASSUME QueueInv, NEW w \in Worker, ClaimNothing(w)
  PROVE  QueueInv'
<1>. USE DEF ClaimNothing
<1>1. TypeOK'
  BY SweptType DEF QueueInv, TypeOK, Place
<1>2. ASSUME NEW q \in Report
      PROVE  RowInv(q)' /\ (\A v \in Worker : Keeps(q, v))
  <2>1. rows'[q] = Swept[q] /\ sends'[q] = sends[q] /\ delivered' = delivered
    OBVIOUS
  <2>2. RowInv(q)'
    BY <2>1, SweepKeeps
  <2>. QED
    BY <2>1, <2>2, SweepKeeps
<1>3. ASSUME NEW v \in Worker
      PROVE  WorkerInv(v)'
  <2>1. CASE v = w
    BY <2>1 DEF QueueInv, TypeOK, WorkerInv, Busy
  <2>2. CASE v # w
    BY <1>2, <2>2, OthersStay DEF QueueInv, TypeOK
  <2>. QED
    BY <2>1, <2>2
<1>. QED
  BY <1>1, <1>2, <1>3 DEF QueueInv

LEMMA ClaimKeeps ==
  ASSUME QueueInv, NEW w \in Worker, NEW r \in Report, Claim(w, r)
  PROVE  QueueInv'
<1>. USE DEF Claim
<1>. DEFINE claimed == [Swept[r] EXCEPT !.state = "sending", !.owner = w, !.lease = Lease]
<1>1. /\ Swept \in [Report -> Row] /\ Swept[r].state = "pending"
      /\ rows' = [Swept EXCEPT ![r] = claimed]
  BY SweptType DEF QueueInv, TypeOK, InState
<1>2. /\ claimed \in Row /\ claimed.state = "sending" /\ claimed.owner = w
      /\ claimed.attempts = Swept[r].attempts
  <2>1. Swept[r] \in Row
    BY <1>1
  <2>. QED
    BY <2>1, ClaimedRow
<1>. HIDE DEF claimed
<1>3. /\ Swept[r].attempts \in Nat /\ Swept[r].attempts < MaxAttempts
      /\ sends[r] = Swept[r].attempts
      /\ rows[r].state # "absent"
  <2>1. Sweeps(r) /\ RowInv(r) /\ rows[r] \in Row
    BY SweptRow DEF QueueInv, TypeOK
  <2>2. rows[r].attempts \in 0..MaxAttempts
    BY <2>1 DEF Row
  <2>3. Swept[r] # NoRow
    BY <1>1, FreshRows
  <2>4. /\ Swept[r].attempts = rows[r].attempts
        /\ rows[r].state \in {"pending", "sending"}
        /\ rows[r].attempts < MaxAttempts
    <3>1. CASE Swept[r] = rows[r]
      BY <1>1, <2>1, <3>1 DEF RowInv
    <3>2. CASE /\ rows[r].state = "sending"
               /\ Swept[r] = [rows[r] EXCEPT !.owner = Nobody,
                                !.state = IF rows[r].attempts >= MaxAttempts
                                          THEN "failed" ELSE "pending"]
      BY <1>1, <2>1, <2>2, <3>2 DEF Row
    <3>. QED
      BY <2>1, <2>3, <3>1, <3>2 DEF Sweeps
  <2>. QED
    BY <2>1, <2>2, <2>4 DEF RowInv
<1>4. TypeOK'
  <2>1. rows' \in [Report -> Row]
    BY <1>1, <1>2
  <2>2. attempt' \in [Worker -> 0..MaxAttempts]
    BY <1>3 DEF QueueInv, TypeOK
  <2>. QED
    BY <2>1, <2>2 DEF QueueInv, TypeOK, Place
<1>5. ASSUME NEW q \in Report
      PROVE  RowInv(q)' /\ \A v \in Worker \ {w} : Keeps(q, v)
  <2>1. CASE q = r
    <3>1. rows'[q] = claimed /\ sends' = sends /\ delivered' = delivered
      BY <1>1, <2>1
    <3>2. RowInv(q)'
      BY <1>2, <1>3, <2>1, <3>1 DEF RowInv
    <3>. QED
      BY <1>2, <3>1, <3>2 DEF Keeps
  <2>2. CASE q # r
    <3>1. rows'[q] = Swept[q] /\ sends'[q] = sends[q] /\ delivered' = delivered
      BY <1>1, <2>2
    <3>2. RowInv(q)'
      BY <3>1, SweepKeeps
    <3>. QED
      BY <3>1, <3>2, SweepKeeps
  <2>. QED
    BY <2>1, <2>2
<1>6. ASSUME NEW v \in Worker
      PROVE  WorkerInv(v)'
  <2>1. CASE v = w
    <3>1. /\ at'[v] = "renew" /\ job'[v] = r /\ attempt'[v] = Swept[r].attempts + 1
          /\ rows'[r] = claimed
      BY <1>1, <2>1 DEF QueueInv, TypeOK
    <3>. QED
      BY <1>2, <1>3, <3>1 DEF WorkerInv
  <2>2. CASE v # w
    BY <1>5, <2>2, OthersStay DEF QueueInv, TypeOK
  <2>. QED
    BY <2>1, <2>2
<1>. QED
  BY <1>4, <1>5, <1>6 DEF QueueInv

LEMMA RenewKeeps ==
  ASSUME QueueInv, NEW w \in Worker, Renew(w)
  PROVE  QueueInv'
<1>. USE DEF Renew, Owns
<1>. DEFINE r == job[w]
            renewed == [rows[r] EXCEPT !.attempts = attempt[w], !.lease = Lease]
<1>1. /\ r \in Report /\ rows[r] \in Row /\ RowInv(r)
      /\ attempt[w] \in 1..MaxAttempts
      /\ rows[r].attempts = attempt[w] - 1 /\ sends[r] = attempt[w] - 1
  BY DEF QueueInv, TypeOK, WorkerInv, RowInv, Busy
<1>2. /\ renewed \in Row /\ renewed.state = "sending" /\ renewed.owner = w
      /\ renewed.attempts = attempt[w]
  <2>1. rows[r] \in Row /\ attempt[w] \in 0..MaxAttempts
    BY <1>1
  <2>. QED
    BY <2>1, RenewedRow
<1>3. TypeOK'
  BY <1>1, <1>2 DEF QueueInv, TypeOK, Place
<1>4. /\ rows'[r] = renewed /\ sends'[r] = attempt[w]
      /\ \A q \in Report \ {r} : rows'[q] = rows[q] /\ sends'[q] = sends[q]
  BY <1>1 DEF QueueInv, TypeOK
<1>. HIDE DEF renewed
<1>5. ASSUME NEW q \in Report
      PROVE  RowInv(q)' /\ \A v \in Worker \ {w} : Keeps(q, v)
  <2>1. CASE q = r
    <3>1. /\ rows'[q] = renewed /\ sends'[q] = attempt[w] /\ delivered' = delivered
          /\ renewed.owner # Nobody
      BY <1>2, <1>4, <2>1
    <3>2. RowInv(q)'
      BY <1>1, <1>2, <3>1 DEF RowInv
    <3>. QED
      BY <1>2, <3>1, <3>2 DEF Keeps
  <2>2. CASE q # r
    BY <1>4, <2>2 DEF QueueInv, RowInv, Keeps
  <2>. QED
    BY <2>1, <2>2
<1>6. ASSUME NEW v \in Worker
      PROVE  WorkerInv(v)'
  <2>1. CASE v = w
    <3>1. at'[v] = "send" /\ job'[v] = r /\ attempt'[v] = attempt[w] /\ rows'[r] = renewed
      BY <1>4, <2>1 DEF QueueInv, TypeOK
    <3>2. attempt[w] >= 1 /\ rows'[r].attempts = attempt[w] /\ rows'[r].state # "absent"
      BY <1>1, <1>2, <3>1
    <3>. QED
      BY <1>1, <3>1, <3>2 DEF WorkerInv
  <2>2. CASE v # w
    BY <1>5, <2>2, OthersStay DEF QueueInv, TypeOK
  <2>. QED
    BY <2>1, <2>2
<1>. QED
  BY <1>3, <1>5, <1>6 DEF QueueInv

LEMMA TableStays ==
  ASSUME QueueInv, TypeOK', UNCHANGED <<rows, sends, delivered>>,
         \A v \in Worker : \/ at'[v] \notin Busy
                           \/ /\ at'[v] = at[v] /\ job'[v] = job[v]
                              /\ attempt'[v] = attempt[v] /\ outcome'[v] = outcome[v]
  PROVE  QueueInv'
<1>1. ASSUME NEW q \in Report
      PROVE  RowInv(q)' /\ \A v \in Worker : Keeps(q, v)
  BY DEF QueueInv, RowInv, Keeps
<1>2. ASSUME NEW v \in Worker
      PROVE  WorkerInv(v)'
  <2>1. CASE at'[v] \notin Busy
    BY <2>1 DEF WorkerInv
  <2>2. CASE at'[v] \in Busy
    BY <1>1, <2>2, OthersStay DEF QueueInv
  <2>. QED
    BY <2>1, <2>2
<1>. QED
  BY <1>1, <1>2 DEF QueueInv

LEMMA DrainStepKeeps ==
  ASSUME QueueInv, NEW w \in Worker, StartDrain(w) \/ LoseRow(w) \/ LeaveDrain(w)
  PROVE  QueueInv'
<1>1. TypeOK'
  BY DEF QueueInv, TypeOK, StartDrain, LoseRow, LeaveDrain, NextRow, Place, Outcome
<1>2. ASSUME NEW v \in Worker
      PROVE  \/ at'[v] \notin Busy
             \/ /\ at'[v] = at[v] /\ job'[v] = job[v]
                /\ attempt'[v] = attempt[v] /\ outcome'[v] = outcome[v]
  BY DEF QueueInv, TypeOK, StartDrain, LoseRow, LeaveDrain, NextRow, Busy
<1>3. UNCHANGED <<rows, sends, delivered>>
  BY DEF StartDrain, LoseRow, LeaveDrain
<1>. QED
  BY <1>1, <1>2, <1>3, TableStays

LEMMA VanishKeeps ==
  ASSUME QueueInv, NEW W, Vanish(W)
  PROVE  QueueInv'
<1>1. TypeOK'
  BY DEF QueueInv, TypeOK, Vanish, Place, Outcome
<1>2. ASSUME NEW v \in Worker
      PROVE  \/ at'[v] \notin Busy
             \/ /\ at'[v] = at[v] /\ job'[v] = job[v]
                /\ attempt'[v] = attempt[v] /\ outcome'[v] = outcome[v]
  BY DEF Vanish, Busy
<1>3. UNCHANGED <<rows, sends, delivered>>
  BY DEF Vanish
<1>. QED
  BY <1>1, <1>2, <1>3, TableStays

LEMMA TransmitKeeps ==
  ASSUME QueueInv, NEW w \in Worker, AnyTransmit(w)
  PROVE  QueueInv'
<1>. USE DEF Transmit
<1>1. PICK said \in Outcome \ {"none"}, accepted \in BOOLEAN : Transmit(w, said, accepted)
  BY DEF AnyTransmit
<1>2. at[w] \in Busy /\ job[w] \in Report
  BY <1>1 DEF QueueInv, WorkerInv, Busy
<1>3. TypeOK'
  BY <1>1, <1>2 DEF QueueInv, TypeOK, Place
<1>4. ASSUME NEW q \in Report
      PROVE  RowInv(q)' /\ \A v \in Worker : Keeps(q, v)
  BY <1>1 DEF QueueInv, RowInv, Keeps
<1>5. delivered \subseteq delivered'
  BY <1>1
<1>6. ASSUME NEW v \in Worker
      PROVE  WorkerInv(v)'
  <2>1. CASE v = w
    <3>1. /\ at[v] = "send" /\ at'[v] = "settle" /\ job'[v] = job[v]
          /\ attempt'[v] = attempt[v]
          /\ outcome'[v] = "ok" => job[v] \in delivered'
      BY <1>1, <2>1 DEF QueueInv, TypeOK
    <3>. QED
      BY <1>1, <1>5, <3>1 DEF QueueInv, WorkerInv, Busy
  <2>2. CASE v # w
    BY <1>1, <1>4, <1>5, <2>2, OthersStay DEF QueueInv, TypeOK
  <2>. QED
    BY <2>1, <2>2
<1>. QED
  BY <1>3, <1>4, <1>6 DEF QueueInv

\* A worker settles a claim it may have lost: only the owner's row is written, and a
\* row that is sent again keeps the number of its attempts until it is renewed.
LEMMA SettleKeeps ==
  ASSUME QueueInv, NEW w \in Worker, Settle(w)
  PROVE  QueueInv'
<1>. DEFINE r == job[w]
<1>1. /\ at[w] = "settle" /\ at[w] \in Busy /\ r \in Report /\ rows[r] \in Row
      /\ RowInv(r) /\ WorkerInv(w) /\ attempt[w] \in 1..MaxAttempts
  BY DEF QueueInv, TypeOK, WorkerInv, Settle, Busy
<1>2. /\ Settled(w) \in Row /\ Settled(w).attempts = rows[r].attempts
      /\ \/ /\ Retries(w)
            /\ Settled(w).state = "sending" /\ Settled(w).owner = rows[r].owner
         \/ /\ ~Retries(w) /\ outcome[w] = "ok"
            /\ Settled(w).state = "sent" /\ Settled(w).owner = Nobody
         \/ /\ ~Retries(w) /\ outcome[w] # "ok"
            /\ Settled(w).state = "failed" /\ Settled(w).owner = Nobody
  <2>1. CASE Retries(w)
    BY <1>1, <2>1, SettledRows DEF Settled, Retries
  <2>2. CASE ~Retries(w) /\ outcome[w] = "ok"
    BY <1>1, <2>2, SettledRows DEF Settled, Retries
  <2>3. CASE ~Retries(w) /\ outcome[w] # "ok"
    BY <1>1, <2>3, SettledRows DEF Settled
  <2>. QED
    BY <2>1, <2>2, <2>3
<1>3. /\ \A q \in Report \ {r} : rows'[q] = rows[q]
      /\ rows[r].owner = w => rows'[r] = Settled(w)
      /\ rows[r].owner # w => rows'[r] = rows[r]
      /\ sends' = sends /\ delivered' = delivered
      /\ rows' \in [Report -> Row]
  BY <1>1, <1>2 DEF Settle, QueueInv, TypeOK
<1>4. /\ \A v \in Worker \ {w} : /\ at'[v] = at[v] /\ job'[v] = job[v]
                                 /\ attempt'[v] = attempt[v] /\ outcome'[v] = outcome[v]
      /\ \/ at'[w] \notin Busy
         \/ Retries(w) /\ at'[w] = "renew" /\ job'[w] = r /\ attempt'[w] = attempt[w] + 1
            /\ outcome'[w] = "none"
  BY <1>1 DEF Settle, NextRow, QueueInv, TypeOK, Busy
<1>5. TypeOK'
  <2>1. CASE Retries(w)
    BY <1>1, <1>3, <2>1 DEF Settle, Retries, QueueInv, TypeOK, Place, Outcome
  <2>2. CASE ~Retries(w)
    BY <1>3, <2>2 DEF Settle, NextRow, QueueInv, TypeOK, Place, Outcome
  <2>. QED
    BY <2>1, <2>2
<1>6. ASSUME NEW q \in Report
      PROVE  RowInv(q)' /\ \A v \in Worker \ {w} : Keeps(q, v)
  <2>1. CASE q = r /\ rows[r].owner = w
    <3>1. /\ rows[r].state = "sending" /\ w # Nobody
          /\ rows'[r].attempts = rows[r].attempts
          /\ sends'[r] = rows[r].attempts
      BY <1>1, <1>2, <1>3, <2>1 DEF RowInv
    <3>2. outcome[w] = "ok" => r \in delivered'
      BY <1>1, <1>3 DEF WorkerInv
    <3>3. RowInv(q)'
      BY <1>1, <1>2, <1>3, <2>1, <3>1, <3>2 DEF RowInv
    <3>. QED
      BY <1>2, <1>3, <2>1, <3>1, <3>3 DEF Keeps
  <2>2. CASE ~(q = r /\ rows[r].owner = w)
    BY <1>3, <2>2 DEF QueueInv, RowInv, Keeps
  <2>. QED
    BY <2>1, <2>2
<1>7. ASSUME NEW v \in Worker
      PROVE  WorkerInv(v)'
  <2>1. CASE v # w
    BY <1>3, <1>4, <1>6, <2>1, OthersStay DEF QueueInv
  <2>2. CASE v = w /\ at'[w] \notin Busy
    BY <2>2 DEF WorkerInv
  <2>3. CASE v = w /\ at'[w] \in Busy
    <3>1. /\ Retries(w) /\ at'[w] = "renew" /\ job'[w] = r
          /\ attempt'[w] = attempt[w] + 1 /\ attempt[w] \in Nat
      BY <1>1, <1>4, <2>3
    <3>2. rows'[r].owner = w => rows'[r].attempts = attempt[w]
      BY <1>1, <1>2, <1>3, <3>1 DEF WorkerInv
    <3>3. rows'[r].state # "absent" \/ r \in delivered'
      BY <1>1, <1>2, <1>3 DEF WorkerInv
    <3>. QED
      BY <1>1, <2>3, <3>1, <3>2, <3>3 DEF WorkerInv
  <2>. QED
    BY <2>1, <2>2, <2>3
<1>. QED
  BY <1>5, <1>6, <1>7 DEF QueueInv

\* Steps that write rows and leave the workers alone.
LEMMA WorkersStay ==
  ASSUME QueueInv, TypeOK', UNCHANGED <<worker, delivered>>,
         \A r \in Report : RowInv(r)' /\ \A v \in Worker : Keeps(r, v)
  PROVE  QueueInv'
<1>1. ASSUME NEW v \in Worker
      PROVE  WorkerInv(v)'
  BY OthersStay DEF QueueInv, worker
<1>. QED
  BY <1>1 DEF QueueInv

LEMMA ReplayKeeps ==
  ASSUME QueueInv, ReplayFailed
  PROVE  QueueInv'
<1>. USE DEF ReplayFailed
<1>1. rows' \in [Report -> Row] /\ sends' \in [Report -> Nat]
  BY FreshRows DEF QueueInv, TypeOK
<1>2. TypeOK'
  BY <1>1 DEF QueueInv, TypeOK, worker
<1>3. ASSUME NEW q \in Report
      PROVE  RowInv(q)' /\ \A v \in Worker : Keeps(q, v)
  <2>1. CASE rows[q].state = "failed"
    <3>1. rows'[q] = NewRow /\ sends'[q] = 0
      BY <2>1
    <3>. QED
      BY <3>1, FreshRows DEF RowInv, Keeps
  <2>2. CASE rows[q].state # "failed"
    <3>1. rows'[q] = rows[q] /\ sends'[q] = sends[q] /\ delivered' = delivered
      BY <2>2
    <3>. QED
      BY <3>1 DEF QueueInv, RowInv, Keeps
  <2>. QED
    BY <2>1, <2>2
<1>. QED
  BY <1>2, <1>3, WorkersStay

LEMMA TimeKeeps ==
  ASSUME QueueInv, Tick \/ \E r \in Report : GrowOld(r)
  PROVE  QueueInv'
<1>1. ASSUME NEW q \in Report
      PROVE  /\ rows'[q] \in Row /\ rows'[q].state = rows[q].state
             /\ rows'[q].owner = rows[q].owner /\ rows'[q].attempts = rows[q].attempts
  <2>1. rows[q] \in Row /\ rows[q].lease \in 0..Lease
    BY DEF QueueInv, TypeOK, Row
  <2>2. CASE Tick /\ rows[q].lease > 0
    <3>1. rows'[q] = [rows[q] EXCEPT !.lease = rows[q].lease - 1]
      BY <2>2 DEF Tick
    <3>2. rows[q].lease - 1 \in 0..Lease
      BY <2>1, <2>2
    <3>. QED
      BY <2>1, <3>1, <3>2 DEF Row
  <2>3. CASE Tick /\ ~(rows[q].lease > 0)
    BY <2>1, <2>3 DEF Tick
  <2>4. CASE \E r \in Report : GrowOld(r)
    <3>1. rows'[q] = rows[q] \/ rows'[q] = [rows[q] EXCEPT !.old = TRUE]
      BY <2>4 DEF GrowOld, QueueInv, TypeOK
    <3>. QED
      BY <2>1, <3>1 DEF Row
  <2>. QED
    BY <2>2, <2>3, <2>4
<1>2. UNCHANGED <<worker, delivered, sends, replays, faults>>
  BY DEF Tick, GrowOld
<1>3. TypeOK'
  <2>1. rows' \in [Report -> Row]
    BY <1>1 DEF Tick, GrowOld, QueueInv, TypeOK
  <2>. QED
    BY <1>2, <2>1 DEF QueueInv, TypeOK, worker
<1>4. ASSUME NEW q \in Report
      PROVE  RowInv(q)' /\ \A v \in Worker : Keeps(q, v)
  BY <1>1, <1>2 DEF QueueInv, RowInv, Keeps
<1>. QED
  BY <1>2, <1>3, <1>4, WorkersStay

LEMMA QueueInvStep ==
  ASSUME QueueInv, [Next]_vars
  PROVE  QueueInv'
<1>1. CASE \E r \in Report : Enqueue(r)
  BY <1>1, EnqueueKeeps
<1>2. CASE \E w \in Worker : StartDrain(w) \/ WorkerStep(w)
  BY <1>2, ClaimNothingKeeps, ClaimKeeps, RenewKeeps, DrainStepKeeps, SettleKeeps
     DEF WorkerStep
<1>3. CASE ReplayFailed
  BY <1>3, ReplayKeeps
<1>4. CASE Fault
  BY <1>4, VanishKeeps DEF Fault, StorageError, Crash
<1>5. CASE Tick \/ \E r \in Report : GrowOld(r)
  BY <1>5, TimeKeeps
<1>6. CASE \E w \in Worker : AnyTransmit(w)
  BY <1>6, TransmitKeeps
<1>7. CASE UNCHANGED vars
  <2>1. UNCHANGED <<rows, at, job, attempt, outcome, delivered, sends, replays, faults>>
    BY <1>7 DEF vars, worker
  <2>2. TypeOK'
    BY <2>1 DEF QueueInv, TypeOK
  <2>. QED
    BY <2>1, <2>2, TableStays
<1>. QED
  BY <1>1, <1>2, <1>3, <1>4, <1>5, <1>6, <1>7 DEF Next, QueueStep

LEMMA QueueInvInit ==
  ASSUME Init
  PROVE  QueueInv
<1>1. TypeOK
  BY FreshRows DEF Init, TypeOK, Place, Outcome
<1>2. ASSUME NEW r \in Report
      PROVE  RowInv(r)
  BY FreshRows DEF Init, RowInv
<1>3. ASSUME NEW w \in Worker
      PROVE  WorkerInv(w)
  BY DEF Init, WorkerInv, Busy
<1>. QED
  BY <1>1, <1>2, <1>3 DEF QueueInv

LEMMA QueueInvHolds == Safety => []QueueInv
<1>1. Init => QueueInv
  BY QueueInvInit
<1>2. QueueInv /\ [Next]_vars => QueueInv'
  BY QueueInvStep
<1>. QED
  BY <1>1, <1>2, PTL DEF Safety

\* Whatever workers, faults, replays and time do, the variables keep their types.
THEOREM OutboxTypeCorrect == Safety => []TypeOK
<1>1. QueueInv => TypeOK
  BY DEF QueueInv
<1>. QED
  BY <1>1, QueueInvHolds, PTL

-------------------------------------------------------------------------------
(* The limit of leases *)

Limit(n) == Cardinality(InState(rows, "sending")) <= n

LEMMA SendingFinite ==
  ASSUME NEW table
  PROVE  /\ IsFiniteSet(InState(table, "sending"))
         /\ Cardinality(InState(table, "sending")) \in Nat
<1>1. InState(table, "sending") \subseteq Report
  BY DEF InState
<1>. QED
  BY <1>1, FS_Subset, FS_CardinalityType

LEMMA FewerSending ==
  ASSUME NEW table, NEW other,
         \A r \in Report : other[r].state = "sending" => table[r].state = "sending"
  PROVE  Cardinality(InState(other, "sending")) <= Cardinality(InState(table, "sending"))
<1>1. InState(other, "sending") \subseteq InState(table, "sending")
  BY DEF InState
<1>. QED
  BY <1>1, SendingFinite, FS_Subset

\* Only a claim adds a row to those being sent; settling writes rows that are.
LEMMA NoNewSending ==
  ASSUME QueueInv, [Next]_vars, \A w \in Worker, r \in Report : ~Claim(w, r),
         NEW r \in Report, rows'[r].state = "sending"
  PROVE  rows[r].state = "sending"
<1>1. CASE \E q \in Report : Enqueue(q)
  BY <1>1, FreshRows DEF Enqueue, QueueInv, TypeOK
<1>2. CASE \E w \in Worker : ClaimNothing(w)
  <2>1. Sweeps(r) /\ rows'[r] = Swept[r] /\ rows[r] \in Row
    BY <1>2, SweptRow DEF ClaimNothing, QueueInv, TypeOK
  <2>. QED
    BY <2>1, FreshRows DEF Sweeps
<1>3. CASE \E w \in Worker : Renew(w)
  BY <1>3 DEF Renew, Owns, QueueInv, TypeOK
<1>4. CASE \E w \in Worker : Settle(w)
  <2>1. PICK w \in Worker : Settle(w)
    BY <1>4
  <2>2. job[w] \in Report /\ RowInv(job[w])
    BY <2>1 DEF Settle, QueueInv, WorkerInv, Busy
  <2>. QED
    BY <2>1, <2>2 DEF Settle, RowInv, QueueInv, TypeOK
<1>5. CASE ReplayFailed
  BY <1>5, FreshRows DEF ReplayFailed
<1>6. CASE Tick
  BY <1>6 DEF Tick, QueueInv, TypeOK, Row
<1>7. CASE \E q \in Report : GrowOld(q)
  BY <1>7 DEF GrowOld, QueueInv, TypeOK, Row
<1>8. CASE UNCHANGED rows
  BY <1>8
<1>9. CASE \E w \in Worker : StartDrain(w) \/ LoseRow(w) \/ LeaveDrain(w) \/ AnyTransmit(w)
  BY <1>8, <1>9 DEF StartDrain, LoseRow, LeaveDrain, AnyTransmit, Transmit
<1>10. CASE Fault \/ UNCHANGED vars
  BY <1>8, <1>10 DEF Fault, StorageError, Crash, Vanish, vars
<1>. QED
  BY <1>1, <1>2, <1>3, <1>4, <1>5, <1>6, <1>7, <1>9, <1>10
     DEF Next, QueueStep, WorkerStep

LEMMA ClaimWithinLimit ==
  ASSUME QueueInv, NEW w \in Worker, NEW r \in Report, Claim(w, r)
  PROVE  Limit(MaxSending)'
<1>1. /\ rows' = [Swept EXCEPT ![r] = [@ EXCEPT !.state = "sending", !.owner = w,
                                              !.lease = Lease]]
      /\ Swept \in [Report -> Row]
      /\ Cardinality(InState(Swept, "sending")) < MaxSending
      /\ r \notin InState(Swept, "sending")
  BY SweptType DEF Claim, QueueInv, TypeOK, InState
<1>2. InState(rows', "sending") \subseteq InState(Swept, "sending") \cup {r}
  BY <1>1 DEF InState
<1>3. /\ IsFiniteSet(InState(Swept, "sending") \cup {r})
      /\ Cardinality(InState(Swept, "sending") \cup {r})
           = Cardinality(InState(Swept, "sending")) + 1
  BY <1>1, SendingFinite, FS_AddElement
<1>4. Cardinality(InState(rows', "sending")) <= Cardinality(InState(Swept, "sending")) + 1
  BY <1>2, <1>3, FS_Subset
<1>. QED
  BY <1>1, <1>4, SendingFinite DEF Limit

\* All processes, threads and replays together never hold more than MaxSending
\* leases, and a row has an owner exactly while it is being sent.
THEOREM LeasesAreLimited == Safety => []LeasesLimited
<1>1. Init => Limit(MaxSending)
  <2>1. ASSUME Init PROVE InState(rows, "sending") = {}
    BY <2>1, FreshRows DEF Init, InState
  <2>. QED
    BY <2>1, FS_EmptySet DEF Limit
<1>2. QueueInv /\ Limit(MaxSending) /\ [Next]_vars => Limit(MaxSending)'
  <2>. SUFFICES ASSUME QueueInv, Limit(MaxSending), [Next]_vars
                PROVE  Limit(MaxSending)'
    OBVIOUS
  <2>1. CASE \E w \in Worker, r \in Report : Claim(w, r)
    BY <2>1, ClaimWithinLimit
  <2>2. CASE \A w \in Worker, r \in Report : ~Claim(w, r)
    <3>1. Cardinality(InState(rows', "sending")) <= Cardinality(InState(rows, "sending"))
      BY <2>2, NoNewSending, FewerSending
    <3>. QED
      BY <3>1, SendingFinite DEF Limit
  <2>. QED
    BY <2>1, <2>2
<1>3. QueueInv /\ Limit(MaxSending) => LeasesLimited
  BY DEF QueueInv, RowInv, Limit, LeasesLimited
<1>. QED
  BY <1>1, <1>2, <1>3, QueueInvHolds, PTL DEF Safety

-------------------------------------------------------------------------------
(* The queue keeps its promise *)

\* What a step that delivers nothing does to one report, seen from outside.
Outside(r) ==
  \/ StatusOf(r)' = StatusOf(r) /\ sends'[r] = sends[r]
  \/ StatusOf(r) \in {"absent", "given up"} /\ StatusOf(r)' = "waiting" /\ sends'[r] = 0
  \/ StatusOf(r) = "waiting" /\ StatusOf(r)' = "given up" /\ sends'[r] = sends[r]
  \/ /\ StatusOf(r) = "waiting" /\ r \in delivered
     /\ StatusOf(r)' = "sent" /\ sends'[r] = sends[r]
  \/ StatusOf(r) = "sent" /\ StatusOf(r)' = "absent" /\ sends'[r] = sends[r]

LEMMA OutsideMoves ==
  ASSUME QueueInv, QueueInv', UNCHANGED delivered, \A r \in Report : Outside(r)
  PROVE  Promise!Moves
<1>1. ASSUME NEW r \in Report
      PROVE  StatusOf(r)' \in Promise!Status
  BY DEF QueueInv, TypeOK, Row, RowState, StatusOf, Promise!Status
<1>2. sends' \in [Report -> 0..MaxAttempts]
  BY DEF QueueInv, TypeOK, RowInv
<1>3. ASSUME NEW r \in Report
      PROVE  Promise!Move(r)
  BY DEF Outside, Promise!Move
<1>. QED
  BY <1>1, <1>2, <1>3 DEF Promise!Moves

\* A row that a claim does not take, and one it does.
LEMMA SweepMoves ==
  ASSUME QueueInv, NEW r \in Report, sends'[r] = sends[r],
         \/ rows'[r] = Swept[r]
         \/ Swept[r].state = "pending" /\ rows'[r].state = "sending"
  PROVE  Outside(r)
<1>1. Sweeps(r) /\ RowInv(r) /\ rows[r] \in Row
  BY SweptRow DEF QueueInv, TypeOK
<1>2. CASE Swept[r] = rows[r]
  BY <1>2 DEF Outside, StatusOf
<1>3. CASE /\ rows[r].state = "sending"
           /\ Swept[r] = [rows[r] EXCEPT !.owner = Nobody,
                            !.state = IF rows[r].attempts >= MaxAttempts
                                      THEN "failed" ELSE "pending"]
  <2>1. Swept[r].state \in {"failed", "pending"}
    BY <1>1, <1>3 DEF Row
  <2>2. rows'[r].state \in {"failed", "pending", "sending"}
    BY <2>1
  <2>. QED
    BY <1>3, <2>2 DEF Outside, StatusOf
<1>4. CASE rows[r].state = "sent" /\ Swept[r] = NoRow
  <2>1. rows'[r].state = "absent"
    BY <1>4, FreshRows
  <2>. QED
    BY <1>4, <2>1 DEF Outside, StatusOf
<1>. QED
  BY <1>1, <1>2, <1>3, <1>4 DEF Sweeps

LEMMA SettleMoves ==
  ASSUME QueueInv, NEW w \in Worker, Settle(w), NEW r \in Report
  PROVE  Outside(r)
<1>1. /\ at[w] \in Busy /\ job[w] \in Report /\ rows[job[w]] \in Row
      /\ RowInv(job[w]) /\ WorkerInv(w) /\ sends' = sends
  BY DEF Settle, QueueInv, TypeOK, WorkerInv, Busy
<1>2. CASE r = job[w] /\ rows[r].owner = w
  <2>1. rows[r].state = "sending" /\ rows'[r] = Settled(w)
    BY <1>1, <1>2 DEF RowInv, Settle, QueueInv, TypeOK
  <2>2. \/ Settled(w).state = "sending"
        \/ outcome[w] = "ok" /\ Settled(w).state = "sent"
        \/ Settled(w).state = "failed"
    <3>1. CASE Retries(w)
      BY <1>1, <3>1, SettledRows DEF Settled, Retries
    <3>2. CASE ~Retries(w) /\ outcome[w] = "ok"
      BY <1>1, <3>2, SettledRows DEF Settled, Retries
    <3>3. CASE ~Retries(w) /\ outcome[w] # "ok"
      BY <1>1, <3>3, SettledRows DEF Settled
    <3>. QED
      BY <3>1, <3>2, <3>3
  <2>3. outcome[w] = "ok" => r \in delivered
    BY <1>1, <1>2 DEF WorkerInv, Settle
  <2>. QED
    BY <1>1, <2>1, <2>2, <2>3 DEF Outside, StatusOf
<1>3. CASE ~(r = job[w] /\ rows[r].owner = w)
  <2>1. rows'[r] = rows[r]
    BY <1>1, <1>3 DEF Settle, QueueInv, TypeOK
  <2>. QED
    BY <1>1, <2>1 DEF Outside, StatusOf
<1>. QED
  BY <1>2, <1>3

\* The steps of the queue that change a report's status.
LEMMA QueueMoves ==
  ASSUME QueueInv,
         \/ \E r \in Report : Enqueue(r)
         \/ \E w \in Worker : ClaimNothing(w) \/ Settle(w) \/ \E r \in Report : Claim(w, r)
         \/ ReplayFailed,
         NEW q \in Report
  PROVE  Outside(q)
<1>1. CASE \E r \in Report : Enqueue(r)
  BY <1>1, FreshRows DEF Enqueue, Outside, StatusOf, QueueInv, TypeOK
<1>2. CASE \E w \in Worker : ClaimNothing(w)
  BY <1>2, SweepMoves DEF ClaimNothing
<1>3. CASE \E w \in Worker : Settle(w)
  BY <1>3, SettleMoves
<1>4. CASE \E w \in Worker, r \in Report : Claim(w, r)
  <2>1. PICK w \in Worker, r \in Report : Claim(w, r)
    BY <1>4
  <2>2. sends'[q] = sends[q]
    BY <2>1 DEF Claim
  <2>3. CASE q = r
    <3>1. /\ Swept \in [Report -> Row] /\ Swept[r].state = "pending"
          /\ rows'[r] = [Swept[r] EXCEPT !.state = "sending", !.owner = w, !.lease = Lease]
      BY <2>1, SweptType DEF Claim, InState, QueueInv, TypeOK
    <3>2. rows'[r].state = "sending"
      <4>1. Swept[r] \in Row
        BY <3>1
      <4>2. [Swept[r] EXCEPT !.state = "sending", !.owner = w, !.lease = Lease].state
              = "sending"
        BY <4>1 DEF Row
      <4>. QED
        BY <3>1, <4>2
    <3>. QED
      BY <2>2, <2>3, <3>1, <3>2, SweepMoves
  <2>4. CASE q # r
    <3>1. rows'[q] = Swept[q]
      BY <2>1, <2>4, SweptType DEF Claim, QueueInv, TypeOK
    <3>. QED
      BY <2>2, <3>1, SweepMoves
  <2>. QED
    BY <2>3, <2>4
<1>5. CASE ReplayFailed
  <2>1. CASE rows[q].state = "failed"
    <3>1. rows'[q] = NewRow /\ sends'[q] = 0
      BY <1>5, <2>1 DEF ReplayFailed
    <3>. QED
      BY <2>1, <3>1, FreshRows DEF Outside, StatusOf
  <2>2. CASE rows[q].state # "failed"
    <3>1. rows'[q] = rows[q] /\ sends'[q] = sends[q]
      BY <1>5, <2>2 DEF ReplayFailed
    <3>. QED
      BY <3>1 DEF Outside, StatusOf
  <2>. QED
    BY <2>1, <2>2
<1>. QED
  BY <1>1, <1>2, <1>3, <1>4, <1>5

LEMMA TableRests ==
  ASSUME UNCHANGED <<rows, sends, delivered>>
  PROVE  UNCHANGED Promise!deliveryVars
<1>1. [r \in Report |-> StatusOf(r)]' = [r \in Report |-> StatusOf(r)]
  BY DEF StatusOf
<1>. QED
  BY <1>1 DEF Promise!deliveryVars

LEMMA RenewTries ==
  ASSUME QueueInv, NEW w \in Worker, Renew(w)
  PROVE  \E r \in Report : Promise!Try(r)
<1>1. /\ job[w] \in Report /\ RowInv(job[w]) /\ rows[job[w]] \in Row
      /\ rows[job[w]].state = "sending" /\ sends[job[w]] < MaxAttempts
  BY DEF Renew, Owns, QueueInv, TypeOK, RowInv, WorkerInv, Busy
<1>2. ASSUME NEW r \in Report
      PROVE  StatusOf(r)' = StatusOf(r)
  <2>1. rows'[r].state = rows[r].state
    BY <1>1 DEF Renew, Owns, QueueInv, TypeOK, Row
  <2>. QED
    BY <2>1 DEF StatusOf
<1>3. /\ StatusOf(job[w]) = "waiting"
      /\ sends' = [sends EXCEPT ![job[w]] = @ + 1] /\ delivered' = delivered
  BY <1>1 DEF Renew, StatusOf
<1>4. [r \in Report |-> StatusOf(r)]' = [r \in Report |-> StatusOf(r)]
  BY <1>2
<1>5. Promise!Try(job[w])
  BY <1>1, <1>3, <1>4 DEF Promise!Try
<1>. QED
  BY <1>1, <1>5

LEMMA TransmitAccepts ==
  ASSUME QueueInv, NEW w \in Worker, AnyTransmit(w)
  PROVE  (\E r \in Report : Promise!Accept(r)) \/ UNCHANGED Promise!deliveryVars
<1>1. PICK said \in Outcome \ {"none"}, accepted \in BOOLEAN : Transmit(w, said, accepted)
  BY DEF AnyTransmit
<1>2. job[w] \in Report /\ (rows[job[w]].state # "absent" \/ job[w] \in delivered)
  BY <1>1 DEF Transmit, QueueInv, WorkerInv, Busy
<1>3. UNCHANGED <<rows, sends>>
  BY <1>1 DEF Transmit
<1>4. CASE delivered' = delivered
  BY <1>3, <1>4, TableRests
<1>5. CASE delivered' # delivered
  <2>1. delivered' = delivered \cup {job[w]} /\ rows[job[w]].state # "absent"
    BY <1>1, <1>2, <1>5 DEF Transmit
  <2>2. StatusOf(job[w]) # "absent"
    BY <2>1 DEF StatusOf
  <2>3. [r \in Report |-> StatusOf(r)]' = [r \in Report |-> StatusOf(r)]
    BY <1>3 DEF StatusOf
  <2>4. Promise!Accept(job[w])
    BY <1>2, <1>3, <2>1, <2>2, <2>3 DEF Promise!Accept
  <2>. QED
    BY <1>2, <2>4
<1>. QED
  BY <1>4, <1>5

LEMMA TimeRests ==
  ASSUME QueueInv, Tick \/ \E r \in Report : GrowOld(r)
  PROVE  UNCHANGED Promise!deliveryVars
<1>1. ASSUME NEW r \in Report
      PROVE  StatusOf(r)' = StatusOf(r)
  <2>1. rows[r] \in Row
    BY DEF QueueInv, TypeOK
  <2>2. rows'[r].state = rows[r].state
    BY <2>1 DEF Tick, GrowOld, QueueInv, TypeOK, Row
  <2>. QED
    BY <2>2 DEF StatusOf
<1>2. [r \in Report |-> StatusOf(r)]' = [r \in Report |-> StatusOf(r)]
  BY <1>1
<1>3. UNCHANGED <<sends, delivered>>
  BY DEF Tick, GrowOld
<1>. QED
  BY <1>2, <1>3 DEF Promise!deliveryVars

LEMMA PromiseStep ==
  ASSUME QueueInv, QueueInv', [Next]_vars
  PROVE  [Promise!DeliveryNext]_(Promise!deliveryVars)
<1>1. CASE \/ \E r \in Report : Enqueue(r)
           \/ \E w \in Worker : ClaimNothing(w) \/ Settle(w) \/ \E r \in Report : Claim(w, r)
           \/ ReplayFailed
  <2>1. \A r \in Report : Outside(r)
    BY <1>1, QueueMoves
  <2>2. UNCHANGED delivered
    BY <1>1 DEF Enqueue, ClaimNothing, Settle, Claim, ReplayFailed
  <2>. QED
    BY <2>1, <2>2, OutsideMoves DEF Promise!DeliveryNext
<1>2. CASE \E w \in Worker : Renew(w)
  BY <1>2, RenewTries DEF Promise!DeliveryNext
<1>3. CASE \E w \in Worker : AnyTransmit(w)
  BY <1>3, TransmitAccepts DEF Promise!DeliveryNext
<1>4. CASE Tick \/ \E r \in Report : GrowOld(r)
  BY <1>4, TimeRests
<1>5. CASE \/ \E w \in Worker : StartDrain(w) \/ LoseRow(w) \/ LeaveDrain(w)
           \/ Fault
           \/ UNCHANGED vars
  <2>1. UNCHANGED <<rows, sends, delivered>>
    BY <1>5 DEF StartDrain, LoseRow, LeaveDrain, Fault, StorageError, Crash, Vanish, vars
  <2>. QED
    BY <2>1, TableRests
<1>. QED
  BY <1>1, <1>2, <1>3, <1>4, <1>5 DEF Next, QueueStep, WorkerStep

\* The queue implements ReportDelivery: a report is called sent only once the receiver
\* has it, is tried at most MaxAttempts times until it is replayed, and is forgotten
\* only after it was sent, for any number of workers, processes, faults and replays.
THEOREM QueueKeepsPromise == Safety => ImplementsDelivery
<1>1. Init => Promise!DeliveryInit
  <2>. SUFFICES ASSUME Init
                PROVE  Promise!DeliveryInit
    OBVIOUS
  <2>1. \A r \in Report : StatusOf(r) = "absent"
    BY FreshRows DEF Init, StatusOf
  <2>. QED
    BY <2>1 DEF Init, Promise!DeliveryInit
<1>2. QueueInv /\ QueueInv' /\ [Next]_vars => [Promise!DeliveryNext]_(Promise!deliveryVars)
  BY PromiseStep
<1>. QED
  BY <1>1, <1>2, QueueInvHolds, PTL
     DEF Safety, ImplementsDelivery, Promise!DeliverySpec
===============================================================================
