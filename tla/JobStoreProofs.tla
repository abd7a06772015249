---------------------------- MODULE JobStoreProofs ----------------------------
(***************************************************************************)
(* Proofs about JobStore, for any devices, request ids, exit codes and     *)
(* bounds.                                                                 *)
(***************************************************************************)
EXTENDS JobStore, TLAPS

USE JobStoreAssumption

Rows == [JobId -> Row \cup {NoRow}]

-------------------------------------------------------------------------------
(* Type correctness *)

LEMMA ExpiredType ==
  ASSUME jobs \in Rows
  PROVE  Expired \in Rows
<1>1. SUFFICES ASSUME NEW j \in JobId
               PROVE  Expired[j] \in Row \cup {NoRow}
  BY DEF Rows, Expired
<1>2. jobs[j] \in Row \cup {NoRow}
  BY DEF Rows
<1>3. CASE jobs[j].state = "running" /\ jobs[j].silence > StaleAfter
  <2>1. jobs[j] \in Row
    BY <1>2, <1>3 DEF NoRow
  <2>2. Expired[j] = [jobs[j] EXCEPT !.state = "interrupted", !.silence = 0]
    BY <1>3 DEF Expired
  <2>3. 0 \in 0..(StaleAfter + 1) /\ "interrupted" \in State
    BY DEF State, Open, Held
  <2>. QED
    BY <2>1, <2>2, <2>3 DEF Row
<1>4. CASE ~(jobs[j].state = "running" /\ jobs[j].silence > StaleAfter)
  BY <1>2, <1>4 DEF Expired
<1>. QED
  BY <1>3, <1>4

\* Expiry parks a running job; it neither opens nor closes one, and it moves no
\* job to another device.
LEMMA ExpiryKeepsTheRest ==
  ASSUME jobs \in Rows, NEW j \in JobId
  PROVE  /\ Expired[j] = NoRow <=> jobs[j] = NoRow
         /\ jobs[j] # NoRow => /\ Expired[j].device = jobs[j].device
                               /\ Expired[j].request = jobs[j].request
                               /\ Expired[j].exit = jobs[j].exit
                               /\ Expired[j].state = jobs[j].state
                                  \/ /\ jobs[j].state = "running"
                                     /\ Expired[j].state = "interrupted"
<1>1. jobs[j] \in Row \cup {NoRow}
  BY DEF Rows
<1>2. CASE jobs[j].state = "running" /\ jobs[j].silence > StaleAfter
  <2>1. jobs[j] \in Row
    BY <1>1, <1>2 DEF NoRow
  <2>2. Expired[j] = [jobs[j] EXCEPT !.state = "interrupted", !.silence = 0]
    BY <1>2 DEF Expired
  <2>3. /\ Expired[j].state = "interrupted"
        /\ Expired[j].device = jobs[j].device
        /\ Expired[j].request = jobs[j].request
        /\ Expired[j].exit = jobs[j].exit
    BY <2>1, <2>2 DEF Row
  <2>4. Expired[j] # NoRow /\ jobs[j] # NoRow
    BY <1>2, <2>3 DEF NoRow
  <2>. QED
    BY <1>2, <2>3, <2>4
<1>3. CASE ~(jobs[j].state = "running" /\ jobs[j].silence > StaleAfter)
  BY <1>1, <1>3 DEF Expired
<1>. QED
  BY <1>2, <1>3

LEMMA TypeStep ==
  ASSUME TypeOK, [Next]_vars
  PROVE  TypeOK'
<1>. USE DEF TypeOK
<1>e. Expired \in Rows
  BY ExpiredType DEF Rows
<1>r. jobs \in Rows
  BY DEF Rows
<1>1. CASE UNCHANGED vars
  BY <1>1 DEF vars, agentVars
<1>2. ASSUME NEW c \in Code, Enrollment(c) \/ CodeExpires(c)
      PROVE  TypeOK'
  BY <1>2 DEF Enrollment, CodeExpires
<1>3. ASSUME NEW d \in Device, NEW c \in Code, Register(d, c)
      PROVE  TypeOK'
  BY <1>3 DEF Register
<1>4. ASSUME NEW d \in Device, Join(d) \/ Approve(d)
      PROVE  TypeOK'
  BY <1>4 DEF Join, Approve
<1>5. CASE ListJobs
  BY <1>5, <1>e DEF ListJobs, Rows, agentVars
<1>6. ASSUME NEW d \in Device, NEW action \in Action, NEW request \in Request,
             NEW media \in BOOLEAN, Enqueue(d, action, request, media)
      PROVE  TypeOK'
  <2>1. PICK j \in JobId :
          /\ jobs' = [Expired EXCEPT ![j] =
                        [state |-> "queued", device |-> d, action |-> action,
                         request |-> request, exit |-> NoExit, silence |-> 0]]
          /\ progress' = [progress EXCEPT ![j][0] = "queued"]
    BY <1>6 DEF Enqueue, InsertJob
  <2>2. [state |-> "queued", device |-> d, action |-> action,
         request |-> request, exit |-> NoExit, silence |-> 0] \in Row
    BY DEF Row, State, Open
  <2>3. jobs' \in Rows
    BY <2>1, <2>2, <1>e DEF Rows
  <2>4. progress' \in [JobId -> [Sequence -> Event]]
    BY <2>1 DEF Event, ServerEvent
  <2>. QED
    BY <1>6, <2>3, <2>4 DEF Rows, Enqueue, InsertJob, agentVars
<1>7. ASSUME NEW d \in Device, NEW action \in Action, NEW request \in Request,
             NEW media \in BOOLEAN, EnqueueAgain(d, action, request, media)
      PROVE  TypeOK'
  BY <1>7, <1>e DEF EnqueueAgain, Rows, agentVars
<1>8. ASSUME NEW d \in Device, NEW ready \in {"yes", "no", "unsaid"},
             ClaimNothing(d, ready)
      PROVE  TypeOK'
  BY <1>8, <1>e DEF ClaimNothing, Heartbeat, Rows
<1>9. ASSUME NEW d \in Device, NEW ready \in {"yes", "no", "unsaid"},
             NEW j \in JobId, Claim(d, ready, j)
      PROVE  TypeOK'
  <2>1. Expired[j] \in Row
    BY <1>9, <1>e, <1>r, ExpiryKeepsTheRest DEF Claim, QueuedJobs, RowsOf, Rows
  <2>2. [Expired[j] EXCEPT !.state = "running"] \in Row
    BY <2>1 DEF Row, State, Open, Held
  <2>3. jobs' \in Rows
    BY <1>9, <2>2, <1>e DEF Claim, Rows
  <2>. QED
    BY <1>9, <2>3 DEF Claim, Heartbeat, Rows
<1>10. ASSUME NEW d \in Device, NEW j \in JobId, NEW report \in Report,
              Update(d, j, report)
       PROVE  TypeOK'
  <2>1. jobs[j] \in Row
    BY <1>10 DEF Update, HeldJobs, RowsOf
  <2>2. report.state \in State /\ report.exit \in ExitCode \cup {NoExit}
    BY DEF Report, State, Open, Held, Finished
  <2>3. [jobs[j] EXCEPT !.state = report.state, !.exit = report.exit,
                        !.silence = 0] \in Row
    <3>1. 0 \in 0..(StaleAfter + 1)
      OBVIOUS
    <3>. QED
      BY <2>1, <2>2, <3>1 DEF Row
  <2>4. jobs' \in Rows
    BY <1>10, <2>3 DEF Rows, Update
  <2>5. progress' \in [JobId -> [Sequence -> Event]]
    BY <1>10 DEF Update, FinalEvent, Event, ServerEvent
  <2>. QED
    BY <1>10, <2>4, <2>5 DEF Update, Rows, agentVars
<1>11. ASSUME NEW d \in Device, NEW j \in JobId, NEW batch \in Batch,
              AppendProgress(d, j, batch)
       PROVE  TypeOK'
  <2>1. jobs[j] \in Row
    BY <1>11 DEF AppendProgress, RowsOf
  <2>2. [jobs[j] EXCEPT !.silence = 0] \in Row
    <3>1. 0 \in 0..(StaleAfter + 1)
      OBVIOUS
    <3>. QED
      BY <2>1, <3>1 DEF Row
  <2>3. jobs' \in Rows
    BY <1>11, <2>1, <2>2 DEF AppendProgress, Rows
  <2>4. \A s \in DOMAIN batch : batch[s] \in Event
    BY DEF Batch, Event
  <2>5. progress' \in [JobId -> [Sequence -> Event]]
    BY <1>11, <2>4 DEF AppendProgress
  <2>. QED
    BY <1>11, <2>3, <2>5 DEF AppendProgress, Rows, agentVars
<1>12. ASSUME NEW j \in JobId, Resolve(j)
       PROVE  TypeOK'
  <2>1. jobs[j] \in Row
    BY <1>12 DEF Resolve, NoRow
  <2>2. [jobs[j] EXCEPT !.state = "failed", !.exit = 1] \in Row
    BY <2>1 DEF Row, State, Finished
  <2>3. jobs' \in Rows
    BY <1>12, <2>2 DEF Rows, Resolve
  <2>. QED
    BY <1>12, <2>3 DEF Resolve, Rows, agentVars
<1>13. ASSUME NEW d \in Device, Revoke(d)
       PROVE  TypeOK'
  <2>1. ASSUME NEW j \in QueuedJobs(d)
        PROVE  [jobs[j] EXCEPT !.state = "cancelled"] \in Row
    BY DEF QueuedJobs, RowsOf, Row, State
  <2>2. jobs' \in Rows
    BY <1>13, <2>1 DEF Revoke, Rows
  <2>. QED
    BY <1>13, <2>2 DEF Revoke, Rows
<1>14. CASE Tick
  <2>1. ASSUME NEW j \in JobId, jobs[j].state = "running",
               jobs[j].silence <= StaleAfter
        PROVE  [jobs[j] EXCEPT !.silence = @ + 1] \in Row
    <3>1. jobs[j] \in Row
      BY <2>1 DEF NoRow
    <3>2. jobs[j].silence + 1 \in 0..(StaleAfter + 1)
      BY <2>1, <3>1 DEF Row
    <3>. QED
      BY <3>1, <3>2 DEF Row
  <2>2. jobs' \in Rows
    BY <1>14, <2>1 DEF Tick, Rows
  <2>. QED
    BY <1>14, <2>2 DEF Tick, Rows, agentVars
<1>. QED
  BY <1>1, <1>2, <1>3, <1>4, <1>5, <1>6, <1>7, <1>8, <1>9, <1>10, <1>11,
     <1>12, <1>13, <1>14
  DEF Next, AdminStep, PortalStep, AgentStep, ClockStep

\* The domain of a column is what its writers put there.
THEOREM TypeCorrect == Spec => []TypeOK
<1>1. Init => TypeOK
  BY DEF Init, TypeOK, Sequence, Event, NoEvent, Rows
<1>2. TypeOK /\ [Next]_vars => TypeOK'
  BY TypeStep
<1>. QED
  BY <1>1, <1>2, PTL DEF Spec

-------------------------------------------------------------------------------
(* One step changes the phase of at most one job *)

\* Row j keeps its identity and is held or not as before; a row that ended is not touched.
RowStays(j) ==
  \/ jobs[j] = NoRow /\ jobs'[j] = NoRow
  \/ /\ jobs[j] # NoRow /\ jobs'[j] # NoRow
     /\ jobs'[j].device = jobs[j].device
     /\ jobs'[j].request = jobs[j].request
     /\ jobs'[j].state = jobs[j].state \/ {jobs[j].state, jobs'[j].state} \subseteq Held
     /\ jobs[j].state \notin Open => jobs'[j] = jobs[j]

RowCreated(j) ==
  /\ jobs[j] = NoRow
  /\ jobs'[j] # NoRow
  /\ jobs'[j].state = "queued"
  /\ jobs'[j].device \in approved
  /\ OpenJobs(jobs'[j].device) = {}
  /\ SameRequest(jobs'[j].device, jobs'[j].request) = {}

RowAdvances(j) ==
  /\ jobs[j] # NoRow /\ jobs'[j] # NoRow
  /\ jobs'[j].device = jobs[j].device
  /\ jobs'[j].request = jobs[j].request
  /\ \/ jobs[j].state = "queued" /\ jobs'[j].state \in {"running", "cancelled"}
     \/ jobs[j].state \in Held /\ jobs'[j].state \in Finished

JobsStep ==
  \/ \A k \in JobId : RowStays(k)
  \/ \E j \in JobId : /\ (RowCreated(j) /\ approved' = approved) \/ RowAdvances(j)
                      /\ \A k \in JobId \ {j} : RowStays(k)

LEMMA ExpiryIsNoStep ==
  ASSUME jobs \in Rows, NEW k \in JobId, jobs'[k] = Expired[k]
  PROVE  RowStays(k)
<1>1. CASE jobs[k] = NoRow
  BY <1>1, ExpiryKeepsTheRest DEF RowStays
<1>2. CASE jobs[k] # NoRow
  <2>1. CASE jobs[k].state = "running"
    BY <1>2, <2>1, ExpiryKeepsTheRest DEF RowStays, Held, Open
  <2>2. CASE jobs[k].state # "running"
    <3>1. Expired[k] = jobs[k]
      BY <2>2 DEF Expired
    <3>. QED
      BY <1>2, <3>1 DEF RowStays
  <2>. QED
    BY <2>1, <2>2
<1>. QED
  BY <1>1, <1>2

LEMMA StepOfJobs ==
  ASSUME TypeOK, OneOpenJob, [Next]_vars
  PROVE  JobsStep
<1>. USE DEF JobsStep
<1>r. jobs \in Rows
  BY DEF TypeOK, Rows
<1>s. ASSUME jobs' = jobs
      PROVE  \A k \in JobId : RowStays(k)
  BY <1>s DEF RowStays
<1>e. ASSUME jobs' = Expired
      PROVE  \A k \in JobId : RowStays(k)
  BY <1>e, <1>r, ExpiryIsNoStep
<1>1. CASE UNCHANGED vars
  BY <1>1, <1>s DEF vars
<1>2. ASSUME NEW c \in Code, Enrollment(c) \/ CodeExpires(c)
      PROVE  JobsStep
  BY <1>2, <1>s DEF Enrollment, CodeExpires
<1>3. ASSUME NEW d \in Device, Join(d) \/ Approve(d) \/ \E c \in Code : Register(d, c)
      PROVE  JobsStep
  BY <1>3, <1>s DEF Register, Join, Approve
<1>4. CASE ListJobs
  BY <1>4, <1>e DEF ListJobs
<1>5. ASSUME NEW d \in Device, NEW action \in Action, NEW request \in Request,
             NEW media \in BOOLEAN, Enqueue(d, action, request, media)
      PROVE  JobsStep
  <2>1. PICK j \in JobId :
          /\ jobs[j] = NoRow
          /\ jobs' = [Expired EXCEPT ![j] =
                        [state |-> "queued", device |-> d, action |-> action,
                         request |-> request, exit |-> NoExit, silence |-> 0]]
    BY <1>5 DEF Enqueue, InsertJob
  <2>2. jobs'[j] = [state |-> "queued", device |-> d, action |-> action,
                    request |-> request, exit |-> NoExit, silence |-> 0]
    BY <2>1 DEF Expired
  <2>3. jobs'[j] # NoRow
    BY <2>2 DEF NoRow
  <2>4. RowCreated(j) /\ approved' = approved
    BY <1>5, <2>1, <2>2, <2>3 DEF RowCreated, Enqueue, MayEnqueue, InsertJob, agentVars
  <2>5. \A k \in JobId \ {j} : jobs'[k] = Expired[k]
    BY <2>1 DEF Expired
  <2>. QED
    BY <1>r, <2>4, <2>5, ExpiryIsNoStep
<1>6. ASSUME NEW d \in Device, NEW action \in Action, NEW request \in Request,
             NEW media \in BOOLEAN, EnqueueAgain(d, action, request, media)
      PROVE  JobsStep
  BY <1>6, <1>e DEF EnqueueAgain
<1>7. ASSUME NEW d \in Device, NEW ready \in {"yes", "no", "unsaid"},
             ClaimNothing(d, ready)
      PROVE  JobsStep
  BY <1>7, <1>e DEF ClaimNothing
<1>8. ASSUME NEW d \in Device, NEW ready \in {"yes", "no", "unsaid"},
             NEW j \in JobId, Claim(d, ready, j)
      PROVE  JobsStep
  <2>1. jobs' = [Expired EXCEPT ![j].state = "running"]
    BY <1>8 DEF Claim
  <2>2. jobs[j] # NoRow /\ jobs[j].state = "queued" /\ Expired[j] = jobs[j]
    BY <1>8 DEF Claim, QueuedJobs, RowsOf, Expired
  <2>3. jobs[j] \in Row
    BY <1>r, <2>2 DEF Rows
  <2>4. jobs'[j] = [jobs[j] EXCEPT !.state = "running"]
    BY <2>1, <2>2 DEF Expired
  <2>5. /\ jobs'[j].state = "running"
        /\ jobs'[j].device = jobs[j].device
        /\ jobs'[j].request = jobs[j].request
    BY <2>3, <2>4 DEF Row
  <2>6. RowAdvances(j)
    BY <2>2, <2>5 DEF RowAdvances, NoRow
  <2>7. \A k \in JobId \ {j} : jobs'[k] = Expired[k]
    BY <2>1 DEF Expired
  <2>. QED
    BY <1>r, <2>6, <2>7, ExpiryIsNoStep
<1>9. ASSUME NEW d \in Device, NEW j \in JobId, NEW report \in Report,
             Update(d, j, report)
      PROVE  JobsStep
  <2>1. jobs[j] # NoRow /\ jobs[j].state \in Held /\ jobs[j] \in Row
    BY <1>9, <1>r DEF Update, HeldJobs, RowsOf, Rows
  <2>2. jobs'[j] = [jobs[j] EXCEPT !.state = report.state, !.exit = report.exit,
                                   !.silence = 0]
    BY <1>9, <1>r DEF Update, Rows
  <2>3. /\ jobs'[j].state = report.state
        /\ jobs'[j].device = jobs[j].device
        /\ jobs'[j].request = jobs[j].request
    BY <2>1, <2>2 DEF Row
  <2>4. report.state \in Held \cup Finished
    BY DEF Report, Held, Finished
  <2>5. jobs'[j] # NoRow
    BY <2>3, <2>4 DEF NoRow, Held, Finished
  <2>6. \A k \in JobId \ {j} : RowStays(k)
    BY <1>9, <1>r DEF Update, Rows, RowStays
  <2>7. CASE report.state \in Held
    BY <2>1, <2>3, <2>5, <2>6, <2>7 DEF RowStays, Open
  <2>8. CASE report.state \in Finished
    BY <2>1, <2>3, <2>5, <2>6, <2>8 DEF RowAdvances
  <2>. QED
    BY <2>4, <2>7, <2>8
<1>10. ASSUME NEW d \in Device, NEW j \in JobId, NEW batch \in Batch,
              AppendProgress(d, j, batch)
       PROVE  JobsStep
  <2>1. jobs[j] # NoRow /\ jobs[j] \in Row
    BY <1>10, <1>r DEF AppendProgress, RowsOf, Rows
  <2>2. jobs'[j] = IF jobs[j].state = "running" THEN [jobs[j] EXCEPT !.silence = 0]
                   ELSE jobs[j]
    BY <1>10, <1>r DEF AppendProgress, Rows
  <2>3. /\ jobs'[j].state = jobs[j].state
        /\ jobs'[j].device = jobs[j].device
        /\ jobs'[j].request = jobs[j].request
    BY <2>1, <2>2 DEF Row
  <2>4. jobs'[j] # NoRow
    BY <2>1, <2>3 DEF NoRow, Row, State, Open, Held, Finished
  <2>5. RowStays(j)
    BY <2>1, <2>2, <2>3, <2>4 DEF RowStays, Open, Held
  <2>6. \A k \in JobId \ {j} : RowStays(k)
    BY <1>10, <1>r DEF AppendProgress, Rows, RowStays
  <2>. QED
    BY <2>5, <2>6
<1>11. ASSUME NEW j \in JobId, Resolve(j)
       PROVE  JobsStep
  <2>1. jobs[j] # NoRow /\ jobs[j].state \in Held /\ jobs[j] \in Row
    BY <1>11, <1>r DEF Resolve, Rows, NoRow, Held
  <2>2. jobs'[j] = [jobs[j] EXCEPT !.state = "failed", !.exit = 1]
    BY <1>11, <1>r DEF Resolve, Rows
  <2>3. /\ jobs'[j].state = "failed"
        /\ jobs'[j].device = jobs[j].device
        /\ jobs'[j].request = jobs[j].request
    BY <2>1, <2>2 DEF Row
  <2>4. RowAdvances(j)
    BY <2>1, <2>3 DEF RowAdvances, NoRow, Finished
  <2>5. \A k \in JobId \ {j} : RowStays(k)
    BY <1>11, <1>r DEF Resolve, Rows, RowStays
  <2>. QED
    BY <2>4, <2>5
<1>12. ASSUME NEW d \in Device, Revoke(d)
       PROVE  JobsStep
  <2>1. \A k \in JobId \ QueuedJobs(d) : RowStays(k)
    BY <1>12 DEF Revoke, RowStays
  <2>2. ASSUME NEW j \in QueuedJobs(d)
        PROVE  RowAdvances(j)
    <3>1. jobs[j] # NoRow /\ jobs[j] \in Row /\ jobs[j].state = "queued"
      BY <1>r DEF QueuedJobs, RowsOf, Rows
    <3>2. jobs'[j] = [jobs[j] EXCEPT !.state = "cancelled"]
      BY <1>12 DEF Revoke, QueuedJobs, RowsOf
    <3>3. /\ jobs'[j].state = "cancelled"
          /\ jobs'[j].device = jobs[j].device
          /\ jobs'[j].request = jobs[j].request
      BY <3>1, <3>2 DEF Row
    <3>. QED
      BY <3>1, <3>3 DEF RowAdvances, NoRow
  <2>3. \A i, j \in QueuedJobs(d) : i = j
    BY DEF OneOpenJob, QueuedJobs, OpenJobs, Open
  <2>4. CASE QueuedJobs(d) = {}
    BY <2>1, <2>4
  <2>5. CASE QueuedJobs(d) # {}
    <3>1. PICK j \in QueuedJobs(d) : TRUE
      BY <2>5
    <3>2. j \in JobId /\ JobId \ {j} \subseteq JobId \ QueuedJobs(d)
      BY <2>3 DEF QueuedJobs, RowsOf
    <3>. QED
      BY <2>1, <2>2, <3>2
  <2>. QED
    BY <2>4, <2>5
<1>13. CASE Tick
  <2>1. ASSUME NEW k \in JobId
        PROVE  RowStays(k)
    <3>1. CASE jobs[k].state = "running" /\ jobs[k].silence <= StaleAfter
      <4>1. jobs[k] # NoRow /\ jobs[k] \in Row
        BY <1>r, <3>1 DEF Rows, NoRow
      <4>2. jobs'[k] = [jobs[k] EXCEPT !.silence = @ + 1]
        BY <1>13, <3>1 DEF Tick
      <4>3. /\ jobs'[k].state = jobs[k].state
            /\ jobs'[k].device = jobs[k].device
            /\ jobs'[k].request = jobs[k].request
        BY <4>1, <4>2 DEF Row
      <4>. QED
        BY <3>1, <4>1, <4>3 DEF RowStays, Open, Held, NoRow
    <3>2. CASE ~(jobs[k].state = "running" /\ jobs[k].silence <= StaleAfter)
      BY <1>13, <3>2 DEF Tick, RowStays
    <3>. QED
      BY <3>1, <3>2
  <2>. QED
    BY <2>1
<1>. QED
  BY <1>1, <1>2, <1>3, <1>4, <1>5, <1>6, <1>7, <1>8, <1>9, <1>10, <1>11, <1>12, <1>13
  DEF Next, AdminStep, PortalStep, AgentStep, ClockStep
-------------------------------------------------------------------------------
(* One open job per device, one job per request, open jobs on approved devices *)

\* A device loses its approval only when revoked, and then has no open job left.
LEMMA ApprovalStep ==
  ASSUME TypeOK, OpenJobHasApprovedAgent, [Next]_vars,
         NEW d \in approved, d \notin approved'
  PROVE  OpenJobs(d)' = {}
<1>1. Revoke(d)
  <2>1. ~ UNCHANGED vars
    BY DEF vars, agentVars
  <2>2. PICK e \in Device : Revoke(e)
    BY <2>1
    DEF Next, AdminStep, PortalStep, AgentStep, ClockStep, Enrollment, Approve, Resolve,
        ListJobs, Enqueue, InsertJob, EnqueueAgain, Register, Join, ClaimNothing, Claim,
        Update, AppendProgress, Tick, CodeExpires, agentVars
  <2>. QED
    BY <2>2 DEF Revoke
<1>2. ASSUME NEW j \in JobId, j \in OpenJobs(d)'
      PROVE  FALSE
  <2>1. jobs'[j] # NoRow /\ jobs'[j].device = d /\ jobs'[j].state \in Open
    BY <1>2 DEF OpenJobs, RowsOf
  <2>2. jobs[j] \in Row \cup {NoRow}
    BY DEF TypeOK
  <2>3. CASE j \in QueuedJobs(d)
    <3>1. jobs[j] \in Row
      BY <2>2, <2>3 DEF QueuedJobs, RowsOf
    <3>2. jobs'[j].state = "cancelled"
      BY <1>1, <2>3, <3>1 DEF Revoke, Row
    <3>. QED
      BY <2>1, <3>2 DEF Open, Held
  <2>4. CASE j \notin QueuedJobs(d)
    <3>1. jobs'[j] = jobs[j]
      BY <1>1, <2>4 DEF Revoke
    <3>. QED
      BY <1>1, <2>1, <2>4, <3>1 DEF Revoke, HeldJobs, QueuedJobs, RowsOf, Open
  <2>. QED
    BY <2>3, <2>4
<1>. QED
  BY <1>2 DEF OpenJobs, RowsOf

SafeInv == OneOpenJob /\ OneJobPerRequest /\ OpenJobHasApprovedAgent

\* A row that exists after the step and is not the one created existed before, for
\* the same device and request; if it is open now it was open then.
LEMMA OldRow ==
  ASSUME TypeOK, NEW j \in JobId, RowStays(j) \/ RowAdvances(j), jobs'[j] # NoRow
  PROVE  /\ jobs[j] # NoRow
         /\ jobs'[j].device = jobs[j].device
         /\ jobs'[j].request = jobs[j].request
         /\ jobs'[j].state \in Open => jobs[j].state \in Open
BY DEF RowStays, RowAdvances, Open, Held, Finished

LEMMA SafeStep ==
  ASSUME TypeOK, SafeInv, [Next]_vars
  PROVE  SafeInv'
<1>1. JobsStep
  BY StepOfJobs DEF SafeInv
<1>2. CASE \A k \in JobId : RowStays(k) \/ RowAdvances(k)
  <2>1. \A d \in Device : RowsOf(d)' \subseteq RowsOf(d)
    BY <1>2, OldRow DEF RowsOf
  <2>2. \A d \in Device : OpenJobs(d)' \subseteq OpenJobs(d)
    BY <1>2, <2>1, OldRow DEF OpenJobs, RowsOf
  <2>3. OneOpenJob'
    BY <2>2 DEF SafeInv, OneOpenJob
  <2>4. OneJobPerRequest'
    <3>1. SUFFICES ASSUME NEW d \in Device, NEW i \in RowsOf(d)', NEW j \in RowsOf(d)',
                          jobs'[i].request = jobs'[j].request
                   PROVE  i = j
      BY DEF OneJobPerRequest
    <3>2. i \in RowsOf(d) /\ j \in RowsOf(d)
      BY <2>1
    <3>3. jobs[i].request = jobs[j].request
      BY <1>2, <3>1, OldRow DEF RowsOf
    <3>. QED
      BY <3>2, <3>3 DEF SafeInv, OneJobPerRequest
  <2>5. OpenJobHasApprovedAgent'
    <3>1. SUFFICES ASSUME NEW d \in Device, OpenJobs(d)' # {}
                   PROVE  d \in approved'
      BY DEF OpenJobHasApprovedAgent
    <3>2. d \in approved
      BY <2>2, <3>1 DEF SafeInv, OpenJobHasApprovedAgent
    <3>. QED
      BY <3>1, <3>2, ApprovalStep DEF SafeInv
  <2>. QED
    BY <2>3, <2>4, <2>5 DEF SafeInv
<1>3. ASSUME NEW n \in JobId, RowCreated(n), approved' = approved,
             \A k \in JobId \ {n} : RowStays(k)
      PROVE  SafeInv'
  <2>1. \A d \in Device : \A j \in RowsOf(d)' :
          /\ j \in JobId
          /\ \/ j = n /\ jobs'[n].device = d
             \/ /\ j # n /\ j \in RowsOf(d)
                /\ jobs'[j].request = jobs[j].request
                /\ jobs'[j].state \in Open => j \in OpenJobs(d)
    BY <1>3, OldRow DEF RowsOf, OpenJobs
  <2>2. OneOpenJob'
    <3>1. SUFFICES ASSUME NEW d \in Device, NEW i \in OpenJobs(d)', NEW j \in OpenJobs(d)'
                   PROVE  i = j
      BY DEF OneOpenJob
    <3>. QED
      BY <1>3, <2>1 DEF SafeInv, OneOpenJob, OpenJobs, RowCreated
  <2>3. OneJobPerRequest'
    <3>1. SUFFICES ASSUME NEW d \in Device, NEW i \in RowsOf(d)', NEW j \in RowsOf(d)',
                          jobs'[i].request = jobs'[j].request
                   PROVE  i = j
      BY DEF OneJobPerRequest
    <3>. QED
      BY <1>3, <2>1, <3>1 DEF SafeInv, OneJobPerRequest, SameRequest, RowCreated
  <2>4. OpenJobHasApprovedAgent'
    BY <1>3, <2>1 DEF SafeInv, OpenJobHasApprovedAgent, OpenJobs, RowCreated
  <2>. QED
    BY <2>2, <2>3, <2>4 DEF SafeInv
<1>. QED
  BY <1>1, <1>2, <1>3 DEF JobsStep

\* However the devices, their portals, the administrators and the clock interleave:
\* a device has one open job, and one job per request, and an open job belongs to
\* an approved device.
THEOREM StoreIsSafe == Spec => [](OneOpenJob /\ OneJobPerRequest /\ OpenJobHasApprovedAgent)
<1>1. Init => SafeInv
  BY DEF Init, SafeInv, OneOpenJob, OneJobPerRequest, OpenJobHasApprovedAgent, OpenJobs, RowsOf
<1>2. TypeOK /\ SafeInv /\ [Next]_vars => SafeInv'
  BY SafeStep
<1>3. Spec => []SafeInv
  BY <1>1, <1>2, TypeCorrect, PTL DEF Spec
<1>. QED
  BY <1>3, PTL DEF SafeInv

\* A part of StoreIsSafe: a repeated request never
\* makes a second job.
THEOREM RequestsAreOnce == Spec => []OneJobPerRequest
BY StoreIsSafe, PTL

\* A job that is queued, running or interrupted belongs to an approved PC.
THEOREM OpenJobsAreApproved == Spec => []OpenJobHasApprovedAgent
BY StoreIsSafe, PTL

-------------------------------------------------------------------------------
(* Results and logs are never rewritten *)

\* A job that ended keeps its row for ever.
THEOREM ResultsAreFinal == Spec => ResultIsFinal
<1>1. TypeOK /\ SafeInv /\ [Next]_vars
      => [\A j \in JobId : jobs[j].state \in Finished \cup {"cancelled"}
                           => jobs'[j] = jobs[j]]_vars
  <2>1. SUFFICES ASSUME TypeOK, SafeInv, [Next]_vars, NEW j \in JobId,
                        jobs[j].state \in Finished \cup {"cancelled"}
                 PROVE  jobs'[j] = jobs[j]
    OBVIOUS
  <2>2. RowStays(j) \/ RowCreated(j) \/ RowAdvances(j)
    BY <2>1, StepOfJobs DEF JobsStep, SafeInv
  <2>. QED
    BY <2>1, <2>2 DEF RowStays, RowCreated, RowAdvances, Finished, Open, Held, NoRow
<1>2. Spec => []SafeInv
  BY StoreIsSafe, PTL DEF SafeInv
<1>. QED
  BY <1>1, <1>2, TypeCorrect, PTL DEF Spec, ResultIsFinal
LogInv ==
  /\ LogMatchesJob
  /\ \A j \in JobId : progress[j][FinalSequence] \in {NoEvent, "complete", "error"}

LEMMA Sequences ==
  /\ 0 \in Sequence /\ FinalSequence \in Sequence /\ AgentSequence \subseteq Sequence
  /\ 0 \notin AgentSequence /\ FinalSequence \notin AgentSequence /\ 0 # FinalSequence
BY DEF Sequence, FinalSequence, AgentSequence

\* A step that leaves the log alone creates no row and makes no job succeed.
QuietRow(j) ==
  /\ jobs'[j] = NoRow <=> jobs[j] = NoRow
  /\ jobs'[j].state = "succeeded" => jobs[j].state = "succeeded"

QuietStep == progress' = progress /\ \A j \in JobId : QuietRow(j)

LEMMA MostStepsAreQuiet ==
  ASSUME TypeOK
  PROVE  [Next]_vars =>
           \/ QuietStep
           \/ \E d \in Device, j \in JobId, report \in Report : Update(d, j, report)
           \/ \E d \in Device, j \in JobId, batch \in Batch : AppendProgress(d, j, batch)
           \/ \E d \in Device, action \in Action, request \in Request, media \in BOOLEAN :
                Enqueue(d, action, request, media)
<1>. USE DEF QuietStep, QuietRow
<1>r. jobs \in Rows
  BY DEF TypeOK, Rows
<1>e. \A j \in JobId : /\ Expired[j].state = "succeeded" => jobs[j].state = "succeeded"
                       /\ Expired[j] = NoRow <=> jobs[j] = NoRow
  BY <1>r, ExpiryKeepsTheRest DEF NoRow
<1>1. CASE progress' = progress /\ jobs' = jobs
  BY <1>1
<1>2. CASE progress' = progress /\ jobs' = Expired
  <2>1. ASSUME NEW j \in JobId
        PROVE  QuietRow(j)
    <3>1. jobs'[j] = Expired[j]
      BY <1>2
    <3>. QED
      BY <1>e, <3>1
  <2>. QED
    BY <1>2, <2>1
<1>3. ASSUME NEW d \in Device, NEW ready \in {"yes", "no", "unsaid"},
             NEW j \in JobId, Claim(d, ready, j)
      PROVE  QuietStep
  <2>1. Expired[j] = jobs[j] /\ jobs[j] \in Row /\ jobs[j] # NoRow
    BY <1>r, <1>3 DEF Claim, QueuedJobs, RowsOf, Rows, Expired
  <2>2. jobs'[j].state = "running" /\ \A k \in JobId \ {j} : jobs'[k] = Expired[k]
    BY <1>3, <2>1 DEF Claim, Expired, Row
  <2>3. QuietRow(j)
    BY <2>1, <2>2 DEF NoRow
  <2>4. ASSUME NEW k \in JobId \ {j}
        PROVE  QuietRow(k)
    BY <1>e, <2>2
  <2>. QED
    BY <1>3, <2>3, <2>4 DEF Claim
<1>4. ASSUME NEW j \in JobId, Resolve(j)
      PROVE  QuietStep
  <2>1. jobs[j] \in Row /\ jobs[j] # NoRow
    BY <1>4, <1>r DEF Resolve, Rows, NoRow
  <2>2. jobs'[j].state = "failed" /\ \A k \in JobId \ {j} : jobs'[k] = jobs[k]
    BY <1>4, <1>r, <2>1 DEF Resolve, Rows, Row
  <2>3. QuietRow(j)
    BY <2>1, <2>2 DEF NoRow
  <2>4. ASSUME NEW k \in JobId \ {j}
        PROVE  QuietRow(k)
    BY <2>2
  <2>. QED
    BY <1>4, <2>3, <2>4 DEF Resolve
<1>5. ASSUME NEW d \in Device, Revoke(d)
      PROVE  QuietStep
  <2>1. ASSUME NEW j \in QueuedJobs(d)
        PROVE  jobs'[j].state = "cancelled" /\ jobs[j] # NoRow
    BY <1>5, <1>r DEF Revoke, QueuedJobs, RowsOf, Rows, Row
  <2>2. \A j \in JobId \ QueuedJobs(d) : jobs'[j] = jobs[j]
    BY <1>5 DEF Revoke
  <2>. QED
    BY <1>5, <2>1, <2>2 DEF Revoke, NoRow
<1>6. CASE Tick
  <2>1. ASSUME NEW j \in JobId
        PROVE  QuietRow(j)
    <3>1. CASE jobs[j].state = "running" /\ jobs[j].silence <= StaleAfter
      <4>1. jobs[j] \in Row /\ jobs[j] # NoRow
        BY <1>r, <3>1 DEF Rows, NoRow
      <4>2. jobs'[j].state = "running"
        BY <1>6, <3>1, <4>1 DEF Tick, Row
      <4>. QED
        BY <4>1, <4>2 DEF NoRow
    <3>2. CASE ~(jobs[j].state = "running" /\ jobs[j].silence <= StaleAfter)
      BY <1>6, <3>2 DEF Tick
    <3>. QED
      BY <3>1, <3>2
  <2>. QED
    BY <1>6, <2>1 DEF Tick
<1>. QED
  BY <1>1, <1>2, <1>3, <1>4, <1>5, <1>6
  DEF Next, AdminStep, PortalStep, AgentStep, ClockStep, Enrollment, Approve, ListJobs,
      EnqueueAgain, Register, Join, ClaimNothing, CodeExpires, vars

LogAppends ==
  \A j \in JobId : \A s \in Sequence :
    progress'[j][s] # progress[j][s] =>
      /\ progress[j][s] = NoEvent
      /\ s \in AgentSequence => jobs[j].state \in Held

LEMMA LogStep ==
  ASSUME TypeOK, SafeInv, LogInv, [Next]_vars
  PROVE  LogInv' /\ LogAppends
<1>r. jobs \in Rows /\ progress \in [JobId -> [Sequence -> Event]]
  BY DEF TypeOK, Rows
<1>1. CASE QuietStep
  <2>1. \A j \in JobId : RowStays(j) \/ RowAdvances(j)
    BY <1>1, StepOfJobs DEF JobsStep, SafeInv, QuietStep, QuietRow, RowCreated
  <2>2. ASSUME NEW j \in JobId
        PROVE  /\ jobs'[j] # NoRow <=> jobs[j] # NoRow
               /\ jobs[j].state \in Held \cup Finished => jobs'[j].state \in Held \cup Finished
               /\ jobs'[j].state = "succeeded" <=> jobs[j].state = "succeeded"
               /\ jobs[j].state = "failed" => jobs'[j].state = "failed"
    <3>1. QuietRow(j)
      BY <1>1 DEF QuietStep
    <3>2. CASE RowStays(j)
      BY <3>1, <3>2 DEF QuietRow, RowStays, Held, Open, Finished
    <3>3. CASE RowAdvances(j)
      BY <3>1, <3>3 DEF QuietRow, RowAdvances, Held, Finished
    <3>. QED
      BY <2>1, <3>2, <3>3
  <2>3. LogInv'
    BY <1>1, <2>2 DEF QuietStep, LogInv, LogMatchesJob
  <2>. QED
    BY <1>1, <2>3 DEF QuietStep, LogAppends
<1>2. ASSUME NEW d \in Device, NEW action \in Action, NEW request \in Request,
             NEW media \in BOOLEAN, Enqueue(d, action, request, media)
      PROVE  LogInv' /\ LogAppends
  <2>1. PICK n \in JobId :
          /\ jobs[n] = NoRow
          /\ jobs' = [Expired EXCEPT ![n] =
                        [state |-> "queued", device |-> d, action |-> action,
                         request |-> request, exit |-> NoExit, silence |-> 0]]
          /\ progress' = [progress EXCEPT ![n][0] = "queued"]
    BY <1>2 DEF Enqueue, InsertJob
  <2>2. jobs'[n].state = "queued" /\ jobs'[n] # NoRow
    BY <2>1 DEF Expired, NoRow
  <2>3. \A k \in JobId \ {n} : jobs'[k] = Expired[k] /\ progress'[k] = progress[k]
    BY <2>1, <1>r DEF Expired
  <2>4. /\ progress'[n][0] = "queued"
        /\ progress[n][0] = NoEvent
        /\ \A s \in Sequence \ {0} : progress'[n][s] = progress[n][s] /\ progress[n][s] = NoEvent
    BY <1>r, <2>1, Sequences
    DEF LogInv, LogMatchesJob, NoRow, Held, Finished, Sequence, AgentSequence, FinalSequence
  <2>5. LogAppends
    BY <2>3, <2>4, Sequences DEF LogAppends
  <2>6. ASSUME NEW k \in JobId \ {n}
        PROVE  /\ jobs'[k] = NoRow <=> jobs[k] = NoRow
               /\ jobs[k].state \in Held \cup Finished => jobs'[k].state \in Held \cup Finished
               /\ jobs'[k].state = "succeeded" <=> jobs[k].state = "succeeded"
               /\ jobs[k].state = "failed" => jobs'[k].state = "failed"
    BY <1>r, <2>3, ExpiryKeepsTheRest DEF Held, NoRow
  <2>7. LogInv'
    BY <2>2, <2>3, <2>4, <2>6, Sequences DEF LogInv, LogMatchesJob, NoEvent
  <2>. QED
    BY <2>5, <2>7
<1>3. ASSUME NEW d \in Device, NEW j \in JobId, NEW report \in Report,
             Update(d, j, report)
      PROVE  LogInv' /\ LogAppends
  <2>1. jobs[j] # NoRow /\ jobs[j].state \in Held /\ jobs[j] \in Row
    BY <1>3, <1>r DEF Update, HeldJobs, RowsOf, Rows
  <2>2. jobs'[j].state = report.state /\ \A k \in JobId \ {j} : jobs'[k] = jobs[k]
    BY <1>3, <1>r, <2>1 DEF Update, Rows, Row
  <2>3. report.state \in Held \cup Finished
    BY DEF Report, Held, Finished
  <2>4. progress[j][FinalSequence] = NoEvent
    BY <2>1 DEF LogInv, LogMatchesJob, Held
  <2>5. progress' = IF report.state \in Finished
                    THEN [progress EXCEPT ![j][FinalSequence] = FinalEvent(report.state)]
                    ELSE progress
    BY <1>3, <2>4 DEF Update
  <2>6. /\ \A k \in JobId \ {j} : progress'[k] = progress[k]
        /\ \A s \in Sequence \ {FinalSequence} : progress'[j][s] = progress[j][s]
        /\ progress'[j][FinalSequence] = IF report.state \in Finished
                                         THEN FinalEvent(report.state) ELSE NoEvent
    BY <1>r, <2>4, <2>5, Sequences
  <2>7. LogAppends
    BY <2>4, <2>6, Sequences DEF LogAppends
  <2>8. jobs'[j] # NoRow
    BY <2>2, <2>3 DEF NoRow, Held, Finished
  <2>9. LogInv'
    BY <2>1, <2>2, <2>3, <2>6, <2>8, Sequences
    DEF LogInv, LogMatchesJob, FinalEvent, Held, Finished, NoEvent
  <2>. QED
    BY <2>7, <2>9
<1>4. ASSUME NEW d \in Device, NEW j \in JobId, NEW batch \in Batch,
             AppendProgress(d, j, batch)
      PROVE  LogInv' /\ LogAppends
  <2>1. jobs[j] # NoRow /\ jobs[j] \in Row
    BY <1>4, <1>r DEF AppendProgress, RowsOf, Rows
  <2>2. /\ jobs'[j].state = jobs[j].state
        /\ \A k \in JobId \ {j} : jobs'[k] = jobs[k] /\ progress'[k] = progress[k]
    BY <1>4, <1>r, <2>1 DEF AppendProgress, Rows, Row
  <2>3. jobs'[j] # NoRow
    BY <2>1, <2>2 DEF NoRow, Row, State, Open, Held, Finished
  <2>4. DOMAIN batch \subseteq AgentSequence /\ \A s \in DOMAIN batch : batch[s] \in Payload
    BY DEF Batch
  <2>5. \A s \in Sequence : progress'[j][s] = IF s \in DOMAIN batch THEN batch[s]
                                               ELSE progress[j][s]
    BY <1>4, <1>r DEF AppendProgress
  <2>6. \A s \in Sequence \ AgentSequence : progress'[j][s] = progress[j][s]
    BY <2>4, <2>5
  <2>7. LogAppends
    BY <1>4, <2>2, <2>4, <2>5 DEF LogAppends, AppendProgress
  <2>8. (\E s \in AgentSequence : progress'[j][s] # NoEvent)
          => jobs[j].state \in Held \cup Finished
    BY <2>7, Sequences DEF LogAppends, LogInv, LogMatchesJob
  <2>9. LogInv'
    BY <2>1, <2>2, <2>3, <2>6, <2>8, Sequences DEF LogInv, LogMatchesJob
  <2>. QED
    BY <2>7, <2>9
<1>. QED
  BY <1>1, <1>2, <1>3, <1>4, MostStepsAreQuiet

LEMMA LogInvariant == Spec => []LogInv
<1>1. Init => LogInv
  BY Sequences DEF Init, LogInv, LogMatchesJob, NoRow, NoEvent
<1>2. Spec => []SafeInv
  BY StoreIsSafe, PTL DEF SafeInv
<1>3. TypeOK /\ SafeInv /\ LogInv /\ [Next]_vars => LogInv'
  BY LogStep
<1>. QED
  BY <1>1, <1>2, <1>3, TypeCorrect, PTL DEF Spec

\* The log and the row tell the same story.
THEOREM LogMatches == Spec => []LogMatchesJob
BY LogInvariant, PTL DEF LogInv

\* Stored progress is never rewritten, and an agent adds none outside a held job.
THEOREM LogGrowsOnly == Spec => LogIsAppendOnly
<1>1. TypeOK /\ SafeInv /\ LogInv /\ [Next]_vars => [LogAppends]_vars
  BY LogStep
<1>2. Spec => []SafeInv
  BY StoreIsSafe, PTL DEF SafeInv
<1>. QED
  BY <1>1, <1>2, LogInvariant, TypeCorrect, PTL DEF Spec, LogIsAppendOnly, LogAppends
-------------------------------------------------------------------------------
(* The tables implement one slot per device *)

slotBar == [d \in Device |-> SlotOf(d)]
handedBar == [d \in Device |-> HandedOf(d)]
outcomeBar == [j \in JobId |-> OutcomeOf(j)]

LEMMA SlotHoldsOpenJob ==
  ASSUME OneOpenJob, NEW d \in Device, NEW j \in OpenJobs(d)
  PROVE  SlotOf(d) = j /\ SlotOf(d) # 0
<1>1. SlotOf(d) \in OpenJobs(d)
  BY DEF SlotOf
<1>2. j # 0
  BY DEF OpenJobs, RowsOf, JobId
<1>. QED
  BY <1>1, <1>2 DEF OneOpenJob

\* What a row contributes to the slots when it stays.
LEMMA StayingRow ==
  ASSUME NEW j \in JobId, RowStays(j)
  PROVE  /\ OutcomeOf(j)' = OutcomeOf(j)
         /\ \A d \in Device : /\ j \in OpenJobs(d)' <=> j \in OpenJobs(d)
                              /\ j \in HeldJobs(d)' <=> j \in HeldJobs(d)
<1>1. CASE jobs[j] = NoRow /\ jobs'[j] = NoRow
  BY <1>1 DEF OpenJobs, HeldJobs, RowsOf, OutcomeOf
<1>2. CASE jobs[j] # NoRow /\ jobs'[j] # NoRow
  <2>1. jobs'[j].device = jobs[j].device
    BY <1>2 DEF RowStays
  <2>2. CASE jobs'[j].state = jobs[j].state
    BY <1>2, <2>1, <2>2 DEF OpenJobs, HeldJobs, RowsOf, OutcomeOf
  <2>3. CASE {jobs[j].state, jobs'[j].state} \subseteq Held
    BY <1>2, <2>1, <2>3 DEF OpenJobs, HeldJobs, RowsOf, OutcomeOf, Open
  <2>. QED
    BY <1>2, <2>2, <2>3 DEF RowStays
<1>. QED
  BY <1>1, <1>2 DEF RowStays

\* A device none of whose rows changes keeps its slot.
LEMMA StayingDevice ==
  ASSUME NEW d \in Device,
         \A j \in JobId : /\ j \in OpenJobs(d)' <=> j \in OpenJobs(d)
                          /\ j \in HeldJobs(d)' <=> j \in HeldJobs(d)
  PROVE  SlotOf(d)' = SlotOf(d) /\ HandedOf(d)' = HandedOf(d)
<1>1. OpenJobs(d)' = OpenJobs(d) /\ HeldJobs(d)' = HeldJobs(d)
  BY DEF OpenJobs, HeldJobs, RowsOf
<1>. QED
  BY <1>1 DEF SlotOf, HandedOf

LEMMA SlotStep ==
  ASSUME TypeOK, SafeInv, SafeInv', JobsStep
  PROVE  \/ slotBar' = slotBar /\ handedBar' = handedBar /\ outcomeBar' = outcomeBar
         \/ Slot!Next
<1>1. CASE \A j \in JobId : RowStays(j)
  <2>1. \A d \in Device : SlotOf(d)' = SlotOf(d) /\ HandedOf(d)' = HandedOf(d)
    BY <1>1, StayingRow, StayingDevice
  <2>2. \A j \in JobId : OutcomeOf(j)' = OutcomeOf(j)
    BY <1>1, StayingRow
  <2>. QED
    BY <2>1, <2>2 DEF slotBar, handedBar, outcomeBar
<1>2. ASSUME NEW n \in JobId, NEW d \in Device, jobs[n] # NoRow => jobs[n].device = d,
             jobs'[n] # NoRow, jobs'[n].device = d, \A k \in JobId \ {n} : RowStays(k)
      PROVE  /\ \A e \in Device \ {d} :
                  SlotOf(e)' = SlotOf(e) /\ HandedOf(e)' = HandedOf(e)
             /\ \A k \in JobId \ {n} : OutcomeOf(k)' = OutcomeOf(k)
             /\ \A k \in JobId \ {n} : /\ k \in OpenJobs(d)' <=> k \in OpenJobs(d)
                                       /\ k \in HeldJobs(d)' <=> k \in HeldJobs(d)
  <2>1. \A e \in Device \ {d} : /\ n \notin OpenJobs(e) /\ n \notin OpenJobs(e)'
                                /\ n \notin HeldJobs(e) /\ n \notin HeldJobs(e)'
    BY <1>2 DEF OpenJobs, HeldJobs, RowsOf
  <2>. QED
    BY <1>2, <2>1, StayingRow, StayingDevice
<1>3. ASSUME NEW n \in JobId, RowCreated(n), \A k \in JobId \ {n} : RowStays(k)
      PROVE  Slot!Next
  <2>1. PICK d \in Device : jobs'[n].device = d
    BY <1>3 DEF RowCreated, TypeOK
  <2>2. /\ OpenJobs(d) = {} /\ \A k \in JobId : k \notin HeldJobs(d)
        /\ n \in OpenJobs(d)' /\ n \notin HeldJobs(d)'
    <3>1. OpenJobs(d) = {}
      BY <1>3, <2>1 DEF RowCreated
    <3>2. n \in OpenJobs(d)' /\ n \notin HeldJobs(d)'
      BY <1>3, <2>1 DEF RowCreated, OpenJobs, HeldJobs, RowsOf, Open, Held
    <3>. QED
      BY <3>1, <3>2 DEF OpenJobs, HeldJobs, Open
  <2>3. HandedOf(d)' = HandedOf(d)
    <3>1. \A k \in JobId : k \notin HeldJobs(d)'
      BY <1>2, <1>3, <2>1, <2>2 DEF RowCreated
    <3>. QED
      BY <2>2, <3>1 DEF HandedOf, HeldJobs, RowsOf
  <2>4. SlotOf(d) = 0 /\ SlotOf(d)' = n
    <3>1. SlotOf(d)' \in OpenJobs(d)'
      BY <2>2 DEF SlotOf
    <3>. QED
      BY <2>1, <2>2, <3>1 DEF SlotOf, SafeInv, OneOpenJob
  <2>5. OutcomeOf(n) = "unused" /\ OutcomeOf(n)' = "pending"
    BY <1>3 DEF RowCreated, OutcomeOf, NoRow, Open, Held
  <2>6. /\ \A e \in Device \ {d} :
             SlotOf(e)' = SlotOf(e) /\ HandedOf(e)' = HandedOf(e)
        /\ \A k \in JobId \ {n} : OutcomeOf(k)' = OutcomeOf(k)
    BY <1>2, <1>3, <2>1 DEF RowCreated
  <2>7. slotBar' = [slotBar EXCEPT ![d] = n]
    BY <2>1, <2>4, <2>6 DEF slotBar
  <2>8. handedBar' = handedBar
    BY <2>2, <2>3, <2>6 DEF handedBar
  <2>9. outcomeBar' = [outcomeBar EXCEPT ![n] = "pending"]
    BY <2>5, <2>6 DEF outcomeBar
  <2>10. slotBar[d] = 0 /\ outcomeBar[n] = "unused"
    BY <2>1, <2>4, <2>5 DEF slotBar, outcomeBar
  <2>11. Slot!Enter(d, n)
    BY <2>7, <2>8, <2>9, <2>10 DEF Slot!Enter, slotBar, handedBar, outcomeBar
  <2>. QED
    BY <2>1, <2>11 DEF Slot!Next
<1>4. ASSUME NEW n \in JobId, RowAdvances(n), \A k \in JobId \ {n} : RowStays(k)
      PROVE  Slot!Next
  <2>1. PICK d \in Device : jobs[n].device = d
    BY <1>4 DEF RowAdvances, TypeOK, Row
  <2>2. jobs[n] # NoRow /\ jobs'[n] # NoRow /\ jobs'[n].device = d
    BY <1>4, <2>1 DEF RowAdvances
  <2>3. /\ \A e \in Device \ {d} :
             SlotOf(e)' = SlotOf(e) /\ HandedOf(e)' = HandedOf(e)
        /\ \A k \in JobId \ {n} : OutcomeOf(k)' = OutcomeOf(k)
        /\ \A k \in JobId \ {n} : /\ k \in OpenJobs(d)' <=> k \in OpenJobs(d)
                                  /\ k \in HeldJobs(d)' <=> k \in HeldJobs(d)
    BY <1>2, <1>4, <2>2, <2>1
  <2>4. n \in OpenJobs(d)
    BY <1>4, <2>2, <2>1 DEF RowAdvances, OpenJobs, RowsOf, Open
  <2>5. /\ SlotOf(d) = n /\ n # 0
        /\ \A k \in JobId \ {n} : k \notin OpenJobs(d) /\ k \notin HeldJobs(d)
    BY <2>1, <2>4, SlotHoldsOpenJob DEF SafeInv, OneOpenJob, OpenJobs, HeldJobs, Open
  <2>6. CASE jobs[n].state = "queued" /\ jobs'[n].state = "running"
    <3>1. n \in OpenJobs(d)' /\ n \in HeldJobs(d)' /\ n \notin HeldJobs(d)
      BY <2>2, <2>6 DEF OpenJobs, HeldJobs, RowsOf, Open, Held
    <3>2. SlotOf(d)' = n
      BY <2>1, <3>1 DEF SlotOf, SafeInv, OneOpenJob
    <3>3. OutcomeOf(n)' = OutcomeOf(n)
      BY <2>6 DEF OutcomeOf, Open, Held
    <3>4. HandedOf(d) = FALSE /\ HandedOf(d)' = TRUE
      BY <2>5, <3>1 DEF HandedOf, HeldJobs, RowsOf
    <3>5. slotBar' = slotBar /\ outcomeBar' = outcomeBar
      BY <2>3, <2>5, <3>2, <3>3 DEF slotBar, outcomeBar
    <3>6. handedBar' = [handedBar EXCEPT ![d] = TRUE]
      BY <2>1, <2>3, <3>4 DEF handedBar
    <3>7. slotBar[d] # 0 /\ ~handedBar[d]
      BY <2>1, <2>5, <3>4 DEF slotBar, handedBar
    <3>8. Slot!HandOut(d)
      BY <3>5, <3>6, <3>7 DEF Slot!HandOut, slotBar, handedBar, outcomeBar
    <3>. QED
      BY <2>1, <3>8 DEF Slot!Next
  <2>7. CASE jobs'[n].state \in Finished \cup {"cancelled"}
    <3>1. n \notin OpenJobs(d)' /\ n \notin HeldJobs(d)'
      BY <2>7 DEF OpenJobs, HeldJobs, Finished, Open, Held
    <3>2. OpenJobs(d)' = {} /\ HandedOf(d)' = FALSE
      BY <2>3, <2>5, <3>1 DEF OpenJobs, HeldJobs, RowsOf, HandedOf
    <3>3. SlotOf(d)' = 0
      BY <3>2 DEF SlotOf
    <3>4. OutcomeOf(n)' = jobs'[n].state
      BY <2>7 DEF OutcomeOf, Finished, Open, Held
    <3>5. slotBar' = [slotBar EXCEPT ![d] = 0]
      BY <2>1, <2>3, <3>3 DEF slotBar
    <3>6. handedBar' = [handedBar EXCEPT ![d] = FALSE]
      BY <2>1, <2>3, <3>2 DEF handedBar
    <3>7. slotBar[d] = n /\ slotBar[d] # 0
      BY <2>1, <2>5 DEF slotBar
    <3>8. outcomeBar' = [outcomeBar EXCEPT ![slotBar[d]] = jobs'[n].state]
      BY <2>3, <3>4, <3>7 DEF outcomeBar
    <3>9. Slot!Leave(d, jobs'[n].state)
      BY <3>5, <3>6, <3>7, <3>8 DEF Slot!Leave, slotBar, handedBar, outcomeBar
    <3>10. CASE jobs[n].state = "queued"
      <4>1. n \notin HeldJobs(d)
        BY <3>10 DEF HeldJobs, Held
      <4>2. ~handedBar[d]
        BY <2>1, <2>5, <4>1 DEF handedBar, HeldJobs, RowsOf, HandedOf
      <4>3. jobs'[n].state = "cancelled"
        BY <1>4, <2>7, <3>10 DEF RowAdvances, Finished, Held
      <4>. QED
        BY <2>1, <3>9, <4>2, <4>3 DEF Slot!Next, Slot!Cancel, handedBar
    <3>11. CASE jobs[n].state \in Held
      <4>1. n \in HeldJobs(d)
        BY <2>2, <2>1, <3>11 DEF HeldJobs, RowsOf
      <4>2. handedBar[d]
        BY <2>1, <4>1 DEF handedBar, HandedOf
      <4>3. jobs'[n].state \in Slot!Ending
        BY <1>4, <3>11 DEF RowAdvances, Finished, Held, Slot!Ending
      <4>. QED
        BY <2>1, <3>9, <4>2, <4>3 DEF Slot!Next, Slot!Finish, handedBar
    <3>. QED
      BY <1>4, <3>10, <3>11 DEF RowAdvances
  <2>. QED
    BY <1>4, <2>6, <2>7 DEF RowAdvances
<1>. QED
  BY <1>1, <1>3, <1>4 DEF JobsStep

LEMMA SlotStart ==
  ASSUME jobs = [j \in JobId |-> NoRow]
  PROVE  Slot!Init
<1>1. \A d \in Device : SlotOf(d) = 0 /\ HandedOf(d) = FALSE
  BY DEF SlotOf, HandedOf, OpenJobs, HeldJobs, RowsOf
<1>2. \A j \in JobId : OutcomeOf(j) = "unused"
  BY DEF OutcomeOf, NoRow, Open, Held
<1>. QED
  BY <1>1, <1>2 DEF Slot!Init

LEMMA StepOfSlot ==
  ASSUME TypeOK, SafeInv, [Next]_vars
  PROVE  [Slot!Next]_(Slot!vars)
<1>1. JobsStep /\ SafeInv'
  BY StepOfJobs, SafeStep DEF SafeInv
<1>2. \/ slotBar' = slotBar /\ handedBar' = handedBar /\ outcomeBar' = outcomeBar
      \/ Slot!Next
  BY <1>1, SlotStep
<1>. QED
  BY <1>2 DEF Slot!vars, slotBar, handedBar, outcomeBar

\* Whatever happens to the tables, each device goes through the life of a slot: a
\* job is handed to its agent at most once, keeps the device until it has an outcome,
\* and keeps the outcome.
THEOREM StoreImplementsSlot == Spec => ImplementsSlot
<1>1. Init => Slot!Init
  BY SlotStart DEF Init
<1>2. TypeOK /\ SafeInv /\ [Next]_vars => [Slot!Next]_(Slot!vars)
  BY StepOfSlot
<1>3. Spec => []SafeInv
  BY StoreIsSafe, PTL DEF SafeInv
<1>. QED
  BY <1>1, <1>2, <1>3, TypeCorrect, PTL DEF Spec, ImplementsSlot, Slot!Spec
===============================================================================
