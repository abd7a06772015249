------------------------------- MODULE JobStore -------------------------------
(***************************************************************************)
(* The job service of the server: class JobStore over the SQLite tables    *)
(* agents, agent_enrollment, agent_jobs and job_progress.  Every method    *)
(* that writes is one transaction, so one action.  A call that ends in an  *)
(* exception rolls its transaction back and changes nothing: such calls    *)
(* are the states in which the action's guard is false.                    *)
(*                                                                         *)
(* The HTTP layer authenticates a call in a transaction of its own, before *)
(* the method runs.  Between the two the device may be revoked, joined     *)
(* again or reconnected, so a device's call may run at any time after the  *)
(* device first held a credential (the set served).                        *)
(*                                                                         *)
(* Time: a running job carries how long ago its row was last updated, up   *)
(* to the first value that counts as stale.  No other time matters.        *)
(***************************************************************************)
EXTENDS Integers

CONSTANTS Device,       \* device ids
          Code,         \* one-time enrollment codes
          Request,      \* request ids chosen by the portal
          MaxJobs,      \* bound: jobs created in a behaviour
          ExitCode,     \* exit codes a job may report
          StaleAfter,   \* 120 seconds without an update, in ticks
          MaxSequence,  \* bound: progress sequence numbers used by an agent
          Payload       \* progress payloads an agent may send

NoExit == -1            \* NULL in agent_jobs.exit_code
NoEvent == "absent"     \* no row in job_progress
ServerEvent == {"queued", "complete", "error"}

ASSUME JobStoreAssumption ==
  /\ MaxJobs \in Nat
  /\ MaxSequence \in Nat
  /\ StaleAfter \in Nat
  /\ ExitCode \subseteq Nat /\ {0, 1} \subseteq ExitCode
  /\ Payload \cap (ServerEvent \cup {NoEvent}) = {}

VARIABLES registered, \* devices with a row in agents
          approved,   \* of these, the ones with approved = 1
          setupReady, \* of these, the ones with setup_ready = 1
          served,     \* devices that ever held a credential
          codes,      \* agent_enrollment
          jobs,       \* agent_jobs
          progress    \* job_progress

agentVars == <<registered, approved, setupReady, served, codes>>
vars == <<agentVars, jobs, progress>>

-------------------------------------------------------------------------------
(* The rows *)

JobId == 1..MaxJobs     \* in the order of creation
Action == {"report-test", "deploy"}
Held == {"running", "interrupted"}       \* an agent may be executing it
Open == Held \cup {"queued"}
Finished == {"succeeded", "failed"}
State == Open \cup Finished \cup {"cancelled"}

Row == [state : State, device : Device, action : Action, request : Request,
        exit : ExitCode \cup {NoExit}, silence : 0..(StaleAfter + 1)]
NoRow == [state |-> "unused"]            \* an id no row has yet

FinalSequence == MaxSequence + 1         \* 2147483647 in the code
AgentSequence == 1..MaxSequence
Sequence == 0..FinalSequence
Event == Payload \cup ServerEvent \cup {NoEvent}

TypeOK ==
  /\ registered \subseteq Device
  /\ approved \subseteq registered
  /\ setupReady \subseteq registered
  /\ registered \subseteq served
  /\ served \subseteq Device
  /\ codes \in [Code -> {"unissued", "live", "spent"}]
  /\ jobs \in [JobId -> Row \cup {NoRow}]
  /\ progress \in [JobId -> [Sequence -> Event]]

Init ==
  /\ registered = {}
  /\ approved = {}
  /\ setupReady = {}
  /\ served = {}
  /\ codes = [c \in Code |-> "unissued"]
  /\ jobs = [j \in JobId |-> NoRow]
  /\ progress = [j \in JobId |-> [s \in Sequence |-> NoEvent]]

-------------------------------------------------------------------------------
(* Devices and their credentials *)

Enrollment(c) ==
  /\ codes[c] = "unissued"
  /\ codes' = [codes EXCEPT ![c] = "live"]
  /\ UNCHANGED <<registered, approved, setupReady, served, jobs, progress>>

\* 600 seconds after it was issued a code is as good as absent.
CodeExpires(c) ==
  /\ codes[c] = "live"
  /\ codes' = [codes EXCEPT ![c] = "spent"]
  /\ UNCHANGED <<registered, approved, setupReady, served, jobs, progress>>

Register(d, c) ==
  /\ codes[c] = "live"
  /\ d \notin registered
  /\ codes' = [codes EXCEPT ![c] = "spent"]
  /\ registered' = registered \cup {d}
  /\ approved' = approved \cup {d}
  /\ setupReady' = setupReady \cup {d}
  /\ served' = served \cup {d}
  /\ UNCHANGED <<jobs, progress>>

Join(d) ==
  /\ d \notin registered
  /\ registered' = registered \cup {d}
  /\ served' = served \cup {d}
  /\ UNCHANGED <<approved, setupReady, codes, jobs, progress>>

Approve(d) ==
  /\ d \in registered
  /\ approved' = approved \cup {d}
  /\ UNCHANGED <<registered, setupReady, served, codes, jobs, progress>>

-------------------------------------------------------------------------------
(* Jobs *)

\* Mutant: expiry offers the job to the agent once more.
ExpiredRequeues ==
  [j \in JobId |->
     IF jobs[j].state = "running" /\ jobs[j].silence > StaleAfter
     THEN [jobs[j] EXCEPT !.state = "queued", !.silence = 0]
     ELSE jobs[j]]

\* A lost agent may have started the installer: the job is parked, not retried.
Expired ==
  [j \in JobId |->
     IF jobs[j].state = "running" /\ jobs[j].silence > StaleAfter
     THEN [jobs[j] EXCEPT !.state = "interrupted", !.silence = 0]
     ELSE jobs[j]]

RowsOf(d) == {j \in JobId : jobs[j] # NoRow /\ jobs[j].device = d}
OpenJobs(d) == {j \in RowsOf(d) : jobs[j].state \in Open}
HeldJobs(d) == {j \in RowsOf(d) : jobs[j].state \in Held}
QueuedJobs(d) == {j \in RowsOf(d) : jobs[j].state = "queued"}

\* A listing of the jobs expires the stale ones first.
ListJobs ==
  /\ jobs' = Expired
  /\ UNCHANGED <<agentVars, progress>>

MayEnqueue(d, action, media) ==
  /\ d \in approved
  /\ action = "deploy" => d \in setupReady \/ media

SameRequest(d, request) == {j \in RowsOf(d) : jobs[j].request = request}

InsertJob(d, action, request) ==
  /\ \E j \in JobId :
       /\ jobs[j] = NoRow
       /\ \A k \in 1..(j - 1) : jobs[k] # NoRow
       /\ jobs' = [Expired EXCEPT ![j] =
                     [state |-> "queued", device |-> d, action |-> action,
                      request |-> request, exit |-> NoExit, silence |-> 0]]
       /\ progress' = [progress EXCEPT ![j][0] = "queued"]
  /\ UNCHANGED agentVars

\* Mutant: an interrupted job does not count as pending.
EnqueueBesideParked(d, action, request, media) ==
  /\ MayEnqueue(d, action, media)
  /\ SameRequest(d, request) = {}
  /\ \A j \in OpenJobs(d) : jobs[j].state = "interrupted"
  /\ InsertJob(d, action, request)

\* Mutant: a repeated request is not recognised.
EnqueueForgetful(d, action, request, media) ==
  /\ MayEnqueue(d, action, media)
  /\ OpenJobs(d) = {}
  /\ InsertJob(d, action, request)

Enqueue(d, action, request, media) ==
  /\ MayEnqueue(d, action, media)
  /\ SameRequest(d, request) = {}
  /\ OpenJobs(d) = {}
  /\ InsertJob(d, action, request)

\* A client that repeats a request it has no answer to gets the first job back.
EnqueueAgain(d, action, request, media) ==
  /\ MayEnqueue(d, action, media)
  /\ \E j \in SameRequest(d, request) : jobs[j].action = action
  /\ jobs' = Expired
  /\ UNCHANGED <<agentVars, progress>>

\* Mutant: the poll of an unknown device inserts its row.
HeartbeatUpserts(d, ready) ==
  setupReady' = CASE ready = "yes" -> setupReady \cup {d}
                  [] ready = "no" -> setupReady \ {d}
                  [] OTHER -> setupReady

\* What a poll of the agent says of the installation files on its disk.
Heartbeat(d, ready) ==
  setupReady' = CASE d \in registered /\ ready = "yes" -> setupReady \cup {d}
                  [] ready = "no" -> setupReady \ {d}
                  [] OTHER -> setupReady

\* Mutant: a poll does not look for stale jobs.
ClaimNothingBlind(d, ready) ==
  /\ d \in served
  /\ d \notin approved \/ QueuedJobs(d) = {}
  /\ Heartbeat(d, ready)
  /\ UNCHANGED <<registered, approved, served, codes, jobs, progress>>

ClaimNothing(d, ready) ==
  /\ d \in served
  /\ d \notin approved \/ QueuedJobs(d) = {}
  /\ Heartbeat(d, ready)
  /\ jobs' = Expired
  /\ UNCHANGED <<registered, approved, served, codes, progress>>

Claim(d, ready, j) ==
  /\ d \in served
  /\ d \in approved
  /\ j \in QueuedJobs(d)
  /\ \A k \in QueuedJobs(d) : j <= k
  /\ Heartbeat(d, ready)
  /\ jobs' = [Expired EXCEPT ![j].state = "running"]
  /\ UNCHANGED <<registered, approved, served, codes, progress>>

\* The reports JobUpdate lets through.
Report == [state : {"running", "interrupted"}, exit : {NoExit}]
          \cup [state : {"succeeded"}, exit : {0}]
          \cup [state : {"failed"}, exit : ExitCode \ {0}]

\* A report equal to the row is answered without touching it; it is no step.
Repeats(j, report) ==
  /\ jobs[j].state = report.state
  /\ report.state # "running"
  /\ jobs[j].exit = report.exit

FinalEvent(state) == IF state = "succeeded" THEN "complete" ELSE "error"

\* Mutant: the row's state is not looked at.
UpdateAnyRow(d, j, report) ==
  /\ d \in served
  /\ j \in RowsOf(d)
  /\ jobs' = [jobs EXCEPT ![j] = [@ EXCEPT !.state = report.state,
                                         !.exit = report.exit, !.silence = 0]]
  /\ UNCHANGED <<agentVars, progress>>

\* Mutant: an interruption closes the log as a failure does.
UpdateClosesEarly(d, j, report) ==
  /\ d \in served
  /\ j \in HeldJobs(d)
  /\ ~Repeats(j, report)
  /\ jobs' = [jobs EXCEPT ![j] = [@ EXCEPT !.state = report.state,
                                         !.exit = report.exit, !.silence = 0]]
  /\ progress' = IF report.state # "running" /\ progress[j][FinalSequence] = NoEvent
                 THEN [progress EXCEPT ![j][FinalSequence] = FinalEvent(report.state)]
                 ELSE progress
  /\ UNCHANGED agentVars

Update(d, j, report) ==
  /\ d \in served
  /\ j \in HeldJobs(d)
  /\ ~Repeats(j, report)
  /\ jobs' = [jobs EXCEPT ![j] = [@ EXCEPT !.state = report.state,
                                         !.exit = report.exit, !.silence = 0]]
  /\ progress' = IF report.state \in Finished /\ progress[j][FinalSequence] = NoEvent
                 THEN [progress EXCEPT ![j][FinalSequence] = FinalEvent(report.state)]
                 ELSE progress
  /\ UNCHANGED agentVars

\* A batch maps sequence numbers to payloads.  A batch that names a number twice
\* is either refused or the same as one that names it once.  None is empty.
Batch == UNION {[S -> Payload] : S \in (SUBSET AgentSequence) \ {{}}}

\* Mutant: INSERT OR REPLACE.
AppendReplaces(d, j, batch) ==
  /\ d \in served
  /\ j \in HeldJobs(d)
  /\ progress' = [progress EXCEPT ![j] =
                    [s \in Sequence |-> IF s \in DOMAIN batch THEN batch[s]
                                       ELSE progress[j][s]]]
  /\ UNCHANGED <<agentVars, jobs>>

AppendProgress(d, j, batch) ==
  /\ d \in served
  /\ j \in RowsOf(d)
  /\ \A s \in DOMAIN batch : progress[j][s] \in {NoEvent, batch[s]}
  /\ (\E s \in DOMAIN batch : progress[j][s] = NoEvent) => jobs[j].state \in Held
  /\ progress' = [progress EXCEPT ![j] =
                    [s \in Sequence |-> IF s \in DOMAIN batch THEN batch[s]
                                       ELSE progress[j][s]]]
  /\ jobs' = [jobs EXCEPT ![j] = IF @.state = "running" THEN [@ EXCEPT !.silence = 0]
                                ELSE @]
  /\ UNCHANGED agentVars

\* An administrator has inspected the machine of an interrupted job.
Resolve(j) ==
  /\ jobs[j].state = "interrupted"
  /\ jobs' = [jobs EXCEPT ![j] = [@ EXCEPT !.state = "failed", !.exit = 1]]
  /\ UNCHANGED <<agentVars, progress>>

\* Mutant: the queue of a revoked device is left alone.
RevokeKeepsQueue(d) ==
  /\ HeldJobs(d) = {}
  /\ registered' = registered \ {d}
  /\ approved' = approved \ {d}
  /\ setupReady' = setupReady \ {d}
  /\ UNCHANGED <<served, codes, jobs, progress>>

Revoke(d) ==
  /\ HeldJobs(d) = {}
  /\ jobs' = [j \in JobId |-> IF j \in QueuedJobs(d)
                             THEN [jobs[j] EXCEPT !.state = "cancelled"]
                             ELSE jobs[j]]
  /\ registered' = registered \ {d}
  /\ approved' = approved \ {d}
  /\ setupReady' = setupReady \ {d}
  /\ UNCHANGED <<served, codes, progress>>

Tick ==
  /\ jobs' = [j \in JobId |->
               IF jobs[j].state = "running" /\ jobs[j].silence <= StaleAfter
               THEN [jobs[j] EXCEPT !.silence = @ + 1]
               ELSE jobs[j]]
  /\ UNCHANGED <<agentVars, progress>>

-------------------------------------------------------------------------------

AdminStep ==
  \/ \E c \in Code : Enrollment(c)
  \/ \E d \in Device : Approve(d)
  \/ \E d \in Device : Revoke(d)
  \/ \E j \in JobId : Resolve(j)
  \/ ListJobs

\* The portal of the device and the administrator's enqueue by the same method.
PortalStep ==
  \E d \in Device, action \in Action, request \in Request, media \in BOOLEAN :
    \/ Enqueue(d, action, request, media)
    \/ EnqueueAgain(d, action, request, media)

AgentStep ==
  \E d \in Device :
    \/ \E c \in Code : Register(d, c)
    \/ Join(d)
    \/ \E ready \in {"yes", "no", "unsaid"} :
         \/ ClaimNothing(d, ready)
         \/ \E j \in JobId : Claim(d, ready, j)
    \/ \E j \in JobId, report \in Report : Update(d, j, report)
    \/ \E j \in JobId, batch \in Batch : AppendProgress(d, j, batch)

ClockStep == Tick \/ \E c \in Code : CodeExpires(c)

Next == AdminStep \/ PortalStep \/ AgentStep \/ ClockStep

Spec == Init /\ [][Next]_vars
-------------------------------------------------------------------------------
(* Properties *)

\* enqueue, expire, claim, resolve and revoke together keep at most one job per
\* device that is waiting, executing or parked (docs/CLIENT_AGENT.md).
OneOpenJob == \A d \in Device : \A i, j \in OpenJobs(d) : i = j

\* A device can only lose its approval by being revoked, and revoke leaves it no
\* open job: whatever the device and the administrators interleave, an open job
\* is on an approved device, so its agent can still claim and report it.
OpenJobHasApprovedAgent == \A d \in Device : OpenJobs(d) # {} => d \in approved

\* A client repeats a request whose answer was lost.  However late the repetition
\* arrives, after the job ended or the device was revoked and joined again, one
\* request id of a device names one job.
OneJobPerRequest ==
  \A d \in Device : \A i, j \in RowsOf(d) :
    jobs[i].request = jobs[j].request => i = j

\* The progress log tells the same story as the row: it opens with the row, an
\* agent wrote to it only after the claim, and a closing event names the row's
\* outcome.  (A job an administrator resolved is failed with no closing event.)
LogMatchesJob ==
  \A j \in JobId :
    /\ progress[j][0] # NoEvent <=> jobs[j] # NoRow
    /\ (\E s \in AgentSequence : progress[j][s] # NoEvent)
         => jobs[j].state \in Held \cup Finished
    /\ jobs[j].state = "succeeded" <=> progress[j][FinalSequence] = "complete"
    /\ progress[j][FinalSequence] = "error" => jobs[j].state = "failed"

\* No late report, expiry, second resolution or revocation changes a job that
\* ended.
ResultIsFinal ==
  [][\A j \in JobId : jobs[j].state \in Finished \cup {"cancelled"}
                       => jobs'[j] = jobs[j]]_vars

\* Progress that was stored is never rewritten, and an agent adds to the log only
\* while it may be executing the job: repeated, overlapping and late batches
\* change nothing.
LogIsAppendOnly ==
  [][\A j \in JobId : \A s \in Sequence :
       progress'[j][s] # progress[j][s] =>
         /\ progress[j][s] = NoEvent
         /\ s \in AgentSequence => jobs[j].state \in Held]_vars

\* The tables implement one slot per device: see DeviceSlot.
SlotOf(d) == IF OpenJobs(d) = {} THEN 0 ELSE CHOOSE j \in OpenJobs(d) : TRUE

HandedOf(d) == HeldJobs(d) # {}

OutcomeOf(j) == IF jobs[j].state \in Open THEN "pending" ELSE jobs[j].state

Slot == INSTANCE DeviceSlot WITH
          Job <- JobId,
          Free <- 0,
          slot <- [d \in Device |-> SlotOf(d)],
          handed <- [d \in Device |-> HandedOf(d)],
          outcome <- [j \in JobId |-> OutcomeOf(j)]

\* A job is handed to an agent at most once, occupies its device until it has an
\* outcome, and keeps that outcome.
ImplementsSlot == Slot!Spec

===============================================================================
