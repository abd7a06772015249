-------------------------------- MODULE Outbox --------------------------------
(***************************************************************************)
(* The queue of reports on their way to the schools' sheets: the table     *)
(* outbox and the workers that drain it.  A worker is a thread of a server *)
(* process or a run of replay_outbox; every transaction is one action, and *)
(* the call to the relay between two transactions holds no lock.           *)
(*                                                                         *)
(* A row that is being sent has an owner and a lease.  Time: a lease is    *)
(* counted down to 0 and then no longer binds.  The delay before a retry   *)
(* is shorter than a lease, so a pending row is always due.  Which of the  *)
(* pending rows a claim takes is left open.                                *)
(***************************************************************************)
EXTENDS Integers, FiniteSets

CONSTANTS Report,       \* reports of one school, by report_id
          Worker,       \* threads that may drain the queue
          Process,      \* the processes they belong to
          ProcessOf,    \* ProcessOf[w]
          Nobody,       \* NULL in outbox.owner
          NoReport,     \* the report of a worker that has none
          Slots,        \* drains of one process at a time: 2
          MaxSending,   \* leases of all processes at a time: 2
          MaxAttempts,  \* 3
          Lease,        \* 180 seconds, in ticks
          MaxReplays,   \* bound: runs of replay_failed
          MaxFaults     \* bound: storage errors and stops of a process

ASSUME OutboxAssumption ==
  /\ IsFiniteSet(Report) /\ IsFiniteSet(Worker)
  /\ ProcessOf \in [Worker -> Process]
  /\ Nobody \notin Worker
  /\ NoReport \notin Report
  /\ Slots \in Nat /\ MaxSending \in Nat
  /\ MaxAttempts \in Nat \ {0} /\ Lease \in Nat \ {0}
  /\ MaxReplays \in Nat /\ MaxFaults \in Nat

VARIABLES rows,       \* the table
          at,         \* where a worker is in drain and process
          job,        \* the row a worker has claimed
          attempt,    \* the number of its next or current attempt
          outcome,    \* what the relay said of the current attempt
          delivered,  \* reports the receiver has accepted at least once
          sends,      \* attempts begun since a report was queued or replayed
          replays, faults

worker == <<at, job, attempt, outcome>>
vars == <<rows, worker, delivered, sends, replays, faults>>

-------------------------------------------------------------------------------

RowState == {"absent", "pending", "sending", "failed", "sent"}
Row == [state : RowState, attempts : 0..MaxAttempts,
        owner : Worker \cup {Nobody}, lease : 0..Lease, old : BOOLEAN]
NoRow == [state |-> "absent", attempts |-> 0, owner |-> Nobody,
          lease |-> 0, old |-> FALSE]
NewRow == [NoRow EXCEPT !.state = "pending"]

Outcome == {"none", "ok", "retryable", "fatal"}
Place == {"out", "claim", "renew", "send", "settle", "leave"}

TypeOK ==
  /\ rows \in [Report -> Row]
  /\ at \in [Worker -> Place]
  /\ job \in [Worker -> Report \cup {NoReport}]
  /\ attempt \in [Worker -> 0..MaxAttempts]
  /\ outcome \in [Worker -> Outcome]
  /\ delivered \subseteq Report
  /\ sends \in [Report -> Nat]
  /\ replays \in 0..MaxReplays
  /\ faults \in 0..MaxFaults

Init ==
  /\ rows = [r \in Report |-> NoRow]
  /\ at = [w \in Worker |-> "out"]
  /\ job = [w \in Worker |-> NoReport]
  /\ attempt = [w \in Worker |-> 0]
  /\ outcome = [w \in Worker |-> "none"]
  /\ delivered = {}
  /\ sends = [r \in Report |-> 0]
  /\ replays = 0
  /\ faults = 0

-------------------------------------------------------------------------------

\* INSERT OR IGNORE: a report that has a row is not queued again.
Enqueue(r) ==
  /\ rows[r].state = "absent"
  /\ rows' = [rows EXCEPT ![r] = NewRow]
  /\ sends' = [sends EXCEPT ![r] = 0]
  /\ UNCHANGED <<worker, delivered, replays, faults>>

Draining(p) == {w \in Worker : ProcessOf[w] = p /\ at[w] # "out"}

\* A drain that finds no free slot ends at once.
StartDrain(w) ==
  /\ at[w] = "out"
  /\ Cardinality(Draining(ProcessOf[w])) < Slots
  /\ at' = [at EXCEPT ![w] = "claim"]
  /\ UNCHANGED <<rows, job, attempt, outcome, delivered, sends, replays, faults>>

\* Mutant: a row is given up one attempt later.
SweptLate ==
  [r \in Report |->
     IF rows[r].state = "sending" /\ rows[r].lease = 0
     THEN [rows[r] EXCEPT
             !.state = IF rows[r].attempts > MaxAttempts THEN "failed" ELSE "pending",
             !.owner = Nobody]
     ELSE IF rows[r].state = "sent" /\ rows[r].old THEN NoRow ELSE rows[r]]

\* Mutant: rows of lost owners are left as they are.
SweptSentOnly ==
  [r \in Report |->
     IF rows[r].state = "sent" /\ rows[r].old THEN NoRow ELSE rows[r]]

\* Every claim first takes the rows of lost owners back and forgets old sent rows.
Swept ==
  [r \in Report |->
     IF rows[r].state = "sending" /\ rows[r].lease = 0
     THEN [rows[r] EXCEPT
             !.state = IF rows[r].attempts >= MaxAttempts THEN "failed" ELSE "pending",
             !.owner = Nobody]
     ELSE IF rows[r].state = "sent" /\ rows[r].old THEN NoRow ELSE rows[r]]

InState(table, s) == {r \in Report : table[r].state = s}

ClaimNothing(w) ==
  /\ at[w] = "claim"
  /\ \/ Cardinality(InState(Swept, "sending")) >= MaxSending
     \/ InState(Swept, "pending") = {}
  /\ rows' = Swept
  /\ at' = [at EXCEPT ![w] = "leave"]
  /\ UNCHANGED <<job, attempt, outcome, delivered, sends, replays, faults>>

\* Mutant: leases of other workers are not counted.
ClaimBeyondLimit(w, r) ==
  /\ at[w] = "claim"
  /\ r \in InState(Swept, "pending")
  /\ rows' = [Swept EXCEPT ![r] = [@ EXCEPT !.state = "sending", !.owner = w,
                                           !.lease = Lease]]
  /\ at' = [at EXCEPT ![w] = "renew"]
  /\ job' = [job EXCEPT ![w] = r]
  /\ attempt' = [attempt EXCEPT ![w] = Swept[r].attempts + 1]
  /\ UNCHANGED <<outcome, delivered, sends, replays, faults>>

Claim(w, r) ==
  /\ at[w] = "claim"
  /\ Cardinality(InState(Swept, "sending")) < MaxSending
  /\ r \in InState(Swept, "pending")
  /\ rows' = [Swept EXCEPT ![r] = [@ EXCEPT !.state = "sending", !.owner = w,
                                           !.lease = Lease]]
  /\ at' = [at EXCEPT ![w] = "renew"]
  /\ job' = [job EXCEPT ![w] = r]
  /\ attempt' = [attempt EXCEPT ![w] = Swept[r].attempts + 1]
  /\ UNCHANGED <<outcome, delivered, sends, replays, faults>>

\* The row is dealt with: the next one, or the drain has reached its limit.
NextRow(w) ==
  /\ \E place \in {"claim", "leave"} : at' = [at EXCEPT ![w] = place]
  /\ job' = [job EXCEPT ![w] = NoReport]
  /\ attempt' = [attempt EXCEPT ![w] = 0]
  /\ outcome' = [outcome EXCEPT ![w] = "none"]

Owns(w) == rows[job[w]].owner = w /\ rows[job[w]].state = "sending"

Renew(w) ==
  /\ at[w] = "renew"
  /\ Owns(w) /\ rows[job[w]].lease > 0
  /\ rows' = [rows EXCEPT ![job[w]] = [@ EXCEPT !.attempts = attempt[w], !.lease = Lease]]
  /\ sends' = [sends EXCEPT ![job[w]] = @ + 1]
  /\ at' = [at EXCEPT ![w] = "send"]
  /\ UNCHANGED <<job, attempt, outcome, delivered, replays, faults>>

LoseRow(w) ==
  /\ at[w] = "renew"
  /\ ~(Owns(w) /\ rows[job[w]].lease > 0)
  /\ NextRow(w)
  /\ UNCHANGED <<rows, delivered, sends, replays, faults>>

\* An answer that is lost or cannot be understood says nothing of what the
\* receiver did.
Transmit(w, said, accepted) ==
  /\ at[w] = "send"
  /\ said = "ok" => accepted
  /\ outcome' = [outcome EXCEPT ![w] = said]
  /\ delivered' = IF accepted THEN delivered \cup {job[w]} ELSE delivered
  /\ at' = [at EXCEPT ![w] = "settle"]
  /\ UNCHANGED <<rows, job, attempt, sends, replays, faults>>

Retries(w) == outcome[w] = "retryable" /\ attempt[w] < MaxAttempts

\* Mutant: what is not tried again counts as sent.
SettledOptimist(w) ==
  IF Retries(w) THEN [rows[job[w]] EXCEPT !.state = "sending", !.lease = Lease]
  ELSE [rows[job[w]] EXCEPT !.state = "sent", !.lease = 0, !.owner = Nobody, !.old = FALSE]

Settled(w) ==
  CASE Retries(w) -> [rows[job[w]] EXCEPT !.state = "sending", !.lease = Lease]
    [] outcome[w] = "ok" -> [rows[job[w]] EXCEPT !.state = "sent", !.lease = 0,
                                                 !.owner = Nobody, !.old = FALSE]
    [] OTHER -> [rows[job[w]] EXCEPT !.state = "failed", !.lease = 0, !.owner = Nobody]

\* Mutant: the row is written whoever owns it.
SettleAnyRow(w) ==
  /\ at[w] = "settle"
  /\ rows' = [rows EXCEPT ![job[w]] = Settled(w)]
  /\ IF Retries(w)
     THEN /\ at' = [at EXCEPT ![w] = "renew"]
          /\ attempt' = [attempt EXCEPT ![w] = @ + 1]
          /\ outcome' = [outcome EXCEPT ![w] = "none"]
          /\ UNCHANGED job
     ELSE NextRow(w)
  /\ UNCHANGED <<delivered, sends, replays, faults>>

\* Only the owner's row is written; its lease is not looked at again.
Settle(w) ==
  /\ at[w] = "settle"
  /\ rows' = IF rows[job[w]].owner = w THEN [rows EXCEPT ![job[w]] = Settled(w)] ELSE rows
  /\ IF Retries(w)
     THEN /\ at' = [at EXCEPT ![w] = "renew"]
          /\ attempt' = [attempt EXCEPT ![w] = @ + 1]
          /\ outcome' = [outcome EXCEPT ![w] = "none"]
          /\ UNCHANGED job
     ELSE NextRow(w)
  /\ UNCHANGED <<delivered, sends, replays, faults>>

LeaveDrain(w) ==
  /\ at[w] = "leave"
  /\ at' = [at EXCEPT ![w] = "out"]
  /\ UNCHANGED <<rows, job, attempt, outcome, delivered, sends, replays, faults>>

\* replay_outbox --retry-failed.
ReplayFailed ==
  /\ replays < MaxReplays
  /\ InState(rows, "failed") # {}
  /\ rows' = [r \in Report |-> IF rows[r].state = "failed" THEN NewRow ELSE rows[r]]
  /\ sends' = [r \in Report |-> IF rows[r].state = "failed" THEN 0 ELSE sends[r]]
  /\ replays' = replays + 1
  /\ UNCHANGED <<worker, delivered, faults>>

-------------------------------------------------------------------------------

\* These workers are where they were before they ever ran; the table stays.
Vanish(W) ==
  /\ at' = [w \in Worker |-> IF w \in W THEN "out" ELSE at[w]]
  /\ job' = [w \in Worker |-> IF w \in W THEN NoReport ELSE job[w]]
  /\ attempt' = [w \in Worker |-> IF w \in W THEN 0 ELSE attempt[w]]
  /\ outcome' = [w \in Worker |-> IF w \in W THEN "none" ELSE outcome[w]]
  /\ faults < MaxFaults
  /\ faults' = faults + 1
  /\ UNCHANGED <<rows, delivered, sends, replays>>

\* A transaction that fails ends the drain ("queue_unavailable").
StorageError(w) ==
  /\ at[w] \in {"claim", "renew", "settle"}
  /\ Vanish({w})

Crash(p) ==
  /\ Draining(p) # {}
  /\ Vanish(Draining(p))

Tick ==
  /\ rows' = [r \in Report |-> IF rows[r].lease > 0
                              THEN [rows[r] EXCEPT !.lease = @ - 1] ELSE rows[r]]
  /\ UNCHANGED <<worker, delivered, sends, replays, faults>>

\* The retention of 30 days is over.
GrowOld(r) ==
  /\ rows[r].state = "sent"
  /\ rows' = [rows EXCEPT ![r] = [@ EXCEPT !.old = TRUE]]
  /\ UNCHANGED <<worker, delivered, sends, replays, faults>>

WorkerStep(w) ==
  \/ ClaimNothing(w)
  \/ \E r \in Report : Claim(w, r)
  \/ Renew(w)
  \/ LoseRow(w)
  \/ Settle(w)
  \/ LeaveDrain(w)

Fault == (\E w \in Worker : StorageError(w)) \/ (\E p \in Process : Crash(p))

\* All but the transmission, which the module that has the receiver supplies.
QueueStep ==
  \/ \E w \in Worker : StartDrain(w) \/ WorkerStep(w)
  \/ ReplayFailed
  \/ Fault
  \/ Tick
  \/ \E r \in Report : GrowOld(r)

AnyTransmit(w) ==
  \E said \in Outcome \ {"none"}, accepted \in BOOLEAN : Transmit(w, said, accepted)

Next ==
  \/ \E r \in Report : Enqueue(r)
  \/ QueueStep
  \/ \E w \in Worker : AnyTransmit(w)

\* Workers run, and not every time so slowly that the lease of a claim has ended
\* before its first attempt; reports keep arriving, and each starts a drain on its
\* arrival; clocks run.
Fairness ==
  /\ \A w \in Worker : /\ WF_vars(StartDrain(w))
                       /\ WF_vars(WorkerStep(w))
                       /\ WF_vars(AnyTransmit(w))
  /\ \A r \in Report : /\ SF_vars(\E w \in Worker : Claim(w, r))
                       /\ SF_vars(\E w \in Worker : job[w] = r /\ Renew(w))
  /\ WF_vars(Tick)

Safety == Init /\ [][Next]_vars

Spec == Safety /\ Fairness
-------------------------------------------------------------------------------
(* Properties *)

\* Two processes, their threads and the replay command together never hold more
\* than MaxSending rows, and a row has an owner exactly while it is being sent.
LeasesLimited ==
  /\ Cardinality(InState(rows, "sending")) <= MaxSending
  /\ \A r \in Report : rows[r].owner # Nobody <=> rows[r].state = "sending"

\* The queue implements the promise: whatever sweeps, late workers, faults and
\* replays do, a report is called sent only once the receiver accepted it, is tried
\* at most MaxAttempts times until it is replayed, is never dropped before it was
\* sent, and what is remembered as sent is not sent again (docs/PHASE4_DESIGN.md).
StatusOf(r) ==
  CASE rows[r].state \in {"pending", "sending"} -> "waiting"
    [] rows[r].state = "failed" -> "given up"
    [] OTHER -> rows[r].state

Promise == INSTANCE ReportDelivery WITH
  MaxTries <- MaxAttempts, status <- [r \in Report |-> StatusOf(r)],
  accepted <- delivered, tries <- sends

ImplementsDelivery == Promise!DeliverySpec

\* Every queued report is sent or fails, although owners stop, answers are lost and
\* drains find no free slot.
EventuallySettled ==
  \A r \in Report :
    rows[r].state \in {"pending", "sending"} ~> rows[r].state \in {"failed", "sent"}

===============================================================================
