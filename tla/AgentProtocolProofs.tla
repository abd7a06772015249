-------------------------- MODULE AgentProtocolProofs --------------------------
(***************************************************************************)
(* Proofs about AgentProtocol, for any number of jobs, stops of the agent  *)
(* and late calls.                                                         *)
(*                                                                         *)
(* Every call the server handles is a step of JobStore, so what            *)
(* JobStoreProofs knows of the tables holds here.  What is added relates   *)
(* the tables to the PC: a job that was claimed and not started is at hand *)
(* at one place, a job whose installer the agent has not let go is held or *)
(* kept in ActiveJob.json, and a result that is anywhere is a true one.    *)
(*                                                                         *)
(* The invariant is kept by more than the steps of AgentProtocol: AnyNext  *)
(* adds the other ways an agent is stopped, refused, admitted and revoked, *)
(* so that the lemmas serve Registration too.                              *)
(***************************************************************************)
EXTENDS AgentProtocol, JobStoreProofs, FiniteSetTheorems

USE AgentAssumption

-------------------------------------------------------------------------------
(* The inductive invariant *)

\* The tables, with the jobs of this PC only.
StoreInv ==
  /\ TypeOK
  /\ SafeInv
  /\ LogInv
  /\ approved \subseteq {Pc}
  /\ \A j \in JobId : jobs[j] # NoRow => jobs[j].device = Pc

\* The job left the queue; it never comes back to it.
Known(j) == jobs[j].state \notin {"unused", "queued"}

\* The agent is about to learn of the job's claim, or to start its installer.
AtHand(j) ==
  \/ call.answer.kind = "job" /\ call.answer.job = j
  \/ pc \in {"claimed", "start"} /\ mine = j

\* A restarted agent, or the one that watches the installer, still has the claim.
Kept(j) ==
  /\ file = Claimed(j)
  /\ pc \in {"down", "boot", "boot wait", "start", "running", "beat wait"}

\* The installers the agent has not let go.
Watched == alive \ unwatched

\* The installer of the job ended, was not and will not be started, or was let go.
Over(j) ==
  /\ Known(j)
  /\ j \notin Watched
  /\ ~AtHand(j)
  /\ starts[j] = 0 \/ exitOf[j] # NoExit \/ j \in unwatched

\* The agent saw the installer end well.
EndedWell(j) == exitOf[j] = 0 /\ j \notin unwatched

TrueReport(j, report) ==
  report.state \in Finished =>
    Over(j) /\ (report.state = "succeeded" => EndedWell(j))

HasJob == {"claimed", "start", "running", "beat wait", "exited", "deliver", "deliver wait"}

\* Where the agent is and what it waits for belong together.
CallInv ==
  /\ pc \notin Waiting => call = NoCall
  /\ pc = "claim wait" => call.kind = "claim"
  /\ pc \in Waiting \ {"claim wait"} => call.kind = "report"
  /\ call.answer.kind = "job" => pc = "claim wait"
  /\ pc = "boot wait" => file.kind \in {"claim", "result"} /\ call.job = file.job

\* What the agent has recorded belongs to the job it works on.
WorkInv ==
  /\ pc \in HasJob => mine \in JobId /\ Known(mine)
  /\ pc \in {"start", "running", "beat wait"} => file = Claimed(mine)
  /\ pc \in {"running", "beat wait"} =>
       mine \notin unwatched /\ (mine \in alive \/ exitOf[mine] # NoExit)
  /\ pc \in {"exited", "deliver", "deliver wait"} =>
       exitCode \in ExitCode /\ TrueReport(mine, ResultOf(exitCode))

InstallerInv ==
  /\ \A i, j \in Watched : i = j
  /\ \A j \in JobId : starts[j] <= 1
  /\ \A j \in JobId : ~Known(j) => starts[j] = 0
  /\ \A j \in alive \cup unwatched : starts[j] # 0
  /\ \A j \in JobId : AtHand(j) => Watched = {} /\ starts[j] = 0 /\ Known(j)
  /\ \A j \in Watched : Known(j) /\ (jobs[j].state \in Held \/ Kept(j))
  /\ (call.kind = "report" /\ call.answer.kind = "ok" /\ call.job \in Watched)
       => jobs[call.job].state \in Held

ReportInv ==
  /\ call.kind = "report" => TrueReport(call.job, call.report)
  /\ \A c \in late : c.kind = "report" => TrueReport(c.job, c.report)
  /\ file.kind = "result" => TrueReport(file.job, file.report)
  /\ \A j \in JobId : progress[j][FinalSequence] # NoEvent => Over(j)
  /\ \A j \in JobId : jobs[j].state = "succeeded" => Over(j) /\ EndedWell(j)

ProtocolInv ==
  /\ ProtocolTypeOK
  /\ IsFiniteSet(late)
  /\ StoreInv
  /\ CallInv
  /\ WorkInv
  /\ InstallerInv
  /\ ReportInv

-------------------------------------------------------------------------------
(* Calls, files and answers *)

Call == [kind : {"none"}, answer : {NoAnswer}]
        \cup [kind : {"claim"}, answer : Answers \cup {NoAnswer}]
        \cup [kind : {"report"}, job : JobId, report : Report,
              answer : Answers \cup {NoAnswer}]

LEMMA CallFields ==
  /\ NoAnswer.kind = "none"
  /\ NoCall.kind = "none" /\ NoCall.answer = NoAnswer
  /\ ClaimCall.kind = "claim" /\ ClaimCall.answer = NoAnswer /\ ClaimCall \in Call
  /\ NoCall \in Call
  /\ \A j \in JobId, r \in Report :
       /\ ReportCall(j, r).kind = "report" /\ ReportCall(j, r).answer = NoAnswer
       /\ ReportCall(j, r).job = j /\ ReportCall(j, r).report = r
       /\ ReportCall(j, r) \in Call
BY DEF NoAnswer, NoCall, ClaimCall, ReportCall, Call

LEMMA FileFields ==
  /\ NoFile.kind = "none" /\ TornFile.kind = "torn"
  /\ NoFile \in File /\ TornFile \in File
  /\ \A j \in JobId : /\ Claimed(j).kind = "claim" /\ Claimed(j).job = j
                      /\ Claimed(j) \in File
  /\ \A j \in JobId, r \in Report :
       /\ Result(j, r).kind = "result" /\ Result(j, r).job = j /\ Result(j, r).report = r
       /\ Result(j, r) \in File
<1>1. NoFile.kind = "none" /\ TornFile.kind = "torn" /\ NoFile \in File /\ TornFile \in File
  BY DEF NoFile, TornFile, File
<1>2. ASSUME NEW j \in JobId
      PROVE  Claimed(j).kind = "claim" /\ Claimed(j).job = j /\ Claimed(j) \in File
  BY DEF Claimed, File
<1>3. ASSUME NEW j \in JobId, NEW r \in Report
      PROVE  /\ Result(j, r).kind = "result" /\ Result(j, r).job = j
             /\ Result(j, r).report = r /\ Result(j, r) \in File
  BY DEF Result, File
<1>. QED
  BY <1>1, <1>2, <1>3

LEMMA FileKinds ==
  ASSUME NEW f \in File
  PROVE  /\ f.kind = "claim" => f.job \in JobId /\ f = Claimed(f.job)
         /\ f.kind = "result" => f.job \in JobId /\ f.report \in Report
BY DEF File, NoFile, TornFile, Claimed, Result

\* A call that was sent is one for a job or the report of one.
LEMMA CallKinds ==
  ASSUME NEW c \in Call, c # NoCall
  PROVE  c.kind = "claim" \/ (c.kind = "report" /\ c.job \in JobId /\ c.report \in Report)
BY DEF Call, NoCall

LEMMA AnsweredCall ==
  ASSUME NEW c \in Call, c # NoCall, NEW answer \in Answers
  PROVE  /\ Handled(c, answer) \in Call
         /\ Handled(c, answer).kind = c.kind
         /\ Handled(c, answer).answer = answer
         /\ c.kind = "report" => /\ Handled(c, answer).job = c.job
                                 /\ Handled(c, answer).report = c.report
<1>1. CASE c \in [kind : {"none"}, answer : {NoAnswer}]
  BY <1>1 DEF NoCall
<1>2. CASE c \in [kind : {"claim"}, answer : Answers \cup {NoAnswer}]
  BY <1>2 DEF Handled, Call
<1>3. CASE c \in [kind : {"report"}, job : JobId, report : Report,
                  answer : Answers \cup {NoAnswer}]
  BY <1>3 DEF Handled, Call
<1>. QED
  BY <1>1, <1>2, <1>3 DEF Call

\* A call given up before it was answered is one of the two the agent makes.
LEMMA UnansweredCall ==
  ASSUME NEW c \in Call, c # NoCall, c.answer = NoAnswer
  PROVE  c = ClaimCall \/ \E j \in JobId, r \in Report : c = ReportCall(j, r)
BY DEF Call, NoCall, ClaimCall, ReportCall

LEMMA ReportKinds ==
  /\ Interrupted \in Report /\ StillRunning \in Report
  /\ Interrupted.state = "interrupted" /\ StillRunning.state = "running"
  /\ \A code \in ExitCode :
       /\ ResultOf(code) \in Report
       /\ ResultOf(code).state \in Finished
       /\ ResultOf(code).state = "succeeded" <=> code = 0
  /\ \A r \in Report : r.state \in Held \cup Finished
BY JobStoreAssumption DEF Interrupted, StillRunning, ResultOf, Report, Held, Finished

LEMMA ReportedCode ==
  ASSUME NEW code \in ChildExit \cup {NoExit}
  PROVE  Reported(code) \in ExitCode /\ (Reported(code) = 0 => code = 0)
BY JobStoreAssumption DEF ChildExit, NoExit, Reported

-------------------------------------------------------------------------------
(* The steps of a system with this agent in it *)

\* A call is handled, or turned away before it is looked at.
ServerResponds ==
  /\ call # NoCall
  /\ call.answer = NoAnswer
  /\ \E answer \in Answers :
       /\ \/ Handle(call, answer)
          \/ answer = [kind |-> "refused"] /\ UNCHANGED serverVars
       /\ call' = Handled(call, answer)
  /\ UNCHANGED <<pc, memory, file, late, machine, crashes>>

\* The agent is stopped, alone or with its machine, and whoever counts the stops.
AgentStops ==
  /\ AgentEnds
  /\ alive' \in {alive, {}}
  /\ \/ file' = file
     \/ FaultyDisk /\ pc \in {"claimed", "exited"} /\ file' = TornFile
  /\ crashes' \in 0..MaxCrashes

\* The PC comes to the server's tables and leaves them.
Admits == (Join(Pc) \/ Approve(Pc) \/ Revoke(Pc)) /\ UNCHANGED outside

OutsideStep == Deploy \/ WatchJobs \/ TimePasses \/ Admits \/ ResolveInspected

AnyNext ==
  \/ Boot \/ AgentWork \/ ServerResponds \/ ServerHandlesLate
  \/ ChildExits \/ AgentStops \/ OutsideStep

LEMMA CrashCounted ==
  ASSUME NEW n \in 0..MaxCrashes, n < MaxCrashes
  PROVE  n + 1 \in 0..MaxCrashes
OBVIOUS

LEMMA OutsideStays == OutsideStep => UNCHANGED outside
BY DEF OutsideStep, Deploy, WatchJobs, TimePasses, Admits, ResolveInspected

LEMMA ProtocolIsAny ==
  ASSUME ProtocolTypeOK, [ProtocolNext]_protocolVars
  PROVE  [AnyNext]_protocolVars
<1>1. CASE ServerAnswers
  BY <1>1 DEF ServerAnswers, ServerResponds, AnyNext
<1>2. CASE Crash
  <2>1. crashes' \in 0..MaxCrashes
    BY <1>2, CrashCounted DEF ProtocolTypeOK, Crash
  <2>. QED
    BY <1>2, <2>1 DEF Crash, AgentStops, AnyNext
<1>. QED
  BY <1>1, <1>2 DEF ProtocolNext, AnyNext, OutsideStep

-------------------------------------------------------------------------------
(* The server's side *)

ServerTakes(c, answer) ==
  \/ answer = [kind |-> "refused"] /\ UNCHANGED serverVars
  \/ c.kind = "claim" /\ HandleClaim(answer)
  \/ /\ c.kind = "report" /\ c.job \in JobId /\ c.report \in Report
     /\ HandleReport(c.job, c.report, answer)

LEMMA Handling ==
  ASSUME NEW c \in Call, c # NoCall, NEW answer, Handle(c, answer)
  PROVE  ServerTakes(c, answer)
BY CallKinds DEF Handle, ServerTakes

LEMMA Answering ==
  ASSUME ProtocolTypeOK, ServerResponds
  PROVE  \E answer \in Answers :
           /\ ServerTakes(call, answer)
           /\ call' \in Call
           /\ call'.answer = answer
           /\ call'.kind = call.kind
           /\ call.kind = "report" => call'.job = call.job /\ call'.report = call.report
<1>1. call \in Call /\ call # NoCall
  BY DEF ProtocolTypeOK, Call, ServerResponds
<1>2. PICK answer \in Answers :
        /\ \/ Handle(call, answer)
           \/ answer = [kind |-> "refused"] /\ UNCHANGED serverVars
        /\ call' = Handled(call, answer)
  BY DEF ServerResponds
<1>3. ServerTakes(call, answer)
  BY <1>1, <1>2, Handling DEF ServerTakes
<1>. QED
  BY <1>1, <1>2, <1>3, AnsweredCall

LEMMA LateCall ==
  ASSUME ProtocolTypeOK, NEW c \in late
  PROVE  c \in Call /\ c # NoCall /\ c.answer = NoAnswer
BY CallFields DEF ProtocolTypeOK

LEMMA HandlingLate ==
  ASSUME ProtocolTypeOK, ServerHandlesLate
  PROVE  \E c \in late, answer \in Answers : ServerTakes(c, answer) /\ late' = late \ {c}
BY LateCall, Handling DEF ServerHandlesLate

LEMMA TakingIsStep ==
  ASSUME NEW c, NEW answer \in Answers, ServerTakes(c, answer)
  PROVE  [Next]_vars
<1>1. ASSUME serverVars' = serverVars
      PROVE  [Next]_vars
  BY <1>1 DEF serverVars, vars
<1>2. CASE HandleClaim(answer)
  BY <1>2 DEF HandleClaim, Next, AgentStep
<1>3. CASE c.job \in JobId /\ c.report \in Report /\ HandleReport(c.job, c.report, answer)
  BY <1>1, <1>3 DEF HandleReport, Next, AgentStep
<1>. QED
  BY <1>1, <1>2, <1>3 DEF ServerTakes

\* The steps of the PC alone.
PcStep ==
  \/ Boot \/ AgentWork \/ ChildExits \/ AgentStops

LEMMA PcStepsLeaveTables ==
  ASSUME PcStep
  PROVE  UNCHANGED <<registered, approved, setupReady, served, codes, jobs, progress>>
<1>1. CASE Boot \/ BootDone \/ BootSend \/ BootAnswered
  BY <1>1 DEF Boot, BootDone, BootSend, BootAnswered, Refused, Answered, Send, serverVars,
              agentVars
<1>2. CASE ClaimSend \/ ClaimAnswered \/ WriteClaim \/ StartChild
  BY <1>2 DEF ClaimSend, ClaimAnswered, WriteClaim, StartChild, Answered, Send, serverVars,
              agentVars
<1>3. CASE BeatSend \/ BeatAnswered \/ WaitFails \/ SeeExit \/ WriteResult
  BY <1>3 DEF BeatSend, BeatAnswered, WaitFails, SeeExit, WriteResult, Refused, Answered, Send,
              serverVars, agentVars
<1>4. CASE DeliverSend \/ DeliverAnswered \/ Timeout
  BY <1>4 DEF DeliverSend, DeliverAnswered, Timeout, Refused, Answered, Send, serverVars,
              agentVars
<1>5. CASE ChildExits \/ AgentStops
  BY <1>5 DEF ChildExits, AgentStops, AgentEnds, serverVars, agentVars
<1>. QED
  BY <1>1, <1>2, <1>3, <1>4, <1>5 DEF PcStep, AgentWork

\* Every step is a step of JobStore or leaves the tables alone; it approves no other PC.
LEMMA StepOfStore ==
  ASSUME ProtocolTypeOK, [AnyNext]_protocolVars
  PROVE  [Next]_vars /\ approved' \subseteq approved \cup {Pc}
<1>1. CASE PcStep
  BY <1>1, PcStepsLeaveTables DEF vars, agentVars
<1>2. CASE ServerResponds \/ ServerHandlesLate
  <2>1. PICK c \in late \cup {call}, answer \in Answers : ServerTakes(c, answer)
    BY <1>2, Answering, HandlingLate
  <2>2. approved' = approved
    BY <2>1 DEF ServerTakes, HandleClaim, HandleReport, ClaimNothing, Claim, Update,
                serverVars, agentVars
  <2>. QED
    BY <2>1, <2>2, TakingIsStep
<1>3. CASE Deploy
  BY <1>3 DEF Deploy, Enqueue, InsertJob, agentVars, Next, PortalStep, Action
<1>4. CASE WatchJobs \/ ResolveInspected
  BY <1>4 DEF WatchJobs, ListJobs, ResolveInspected, Resolve, agentVars, Next, AdminStep
<1>5. CASE TimePasses
  BY <1>5 DEF TimePasses, Tick, agentVars, Next, ClockStep
<1>6. CASE Admits
  <2>1. [Next]_vars
    BY <1>6 DEF Admits, Next, AdminStep, AgentStep
  <2>. QED
    BY <1>6, <2>1 DEF Admits, Join, Approve, Revoke
<1>7. CASE UNCHANGED protocolVars
  BY <1>7 DEF protocolVars, serverVars, vars, agentVars
<1>. QED
  BY <1>1, <1>2, <1>3, <1>4, <1>5, <1>6, <1>7 DEF AnyNext, OutsideStep, PcStep

LEMMA StoreStep ==
  ASSUME ProtocolTypeOK, StoreInv, [AnyNext]_protocolVars
  PROVE  StoreInv'
<1>1. [Next]_vars /\ approved' \subseteq approved \cup {Pc}
  BY StepOfStore
<1>2. TypeOK' /\ SafeInv' /\ LogInv'
  BY <1>1, TypeStep, SafeStep, LogStep DEF StoreInv
<1>3. ASSUME NEW j \in JobId, jobs'[j] # NoRow
      PROVE  jobs'[j].device = Pc
  <2>1. RowStays(j) \/ RowCreated(j) \/ RowAdvances(j)
    BY <1>1, StepOfJobs DEF StoreInv, SafeInv, JobsStep
  <2>. QED
    BY <1>3, <2>1 DEF RowStays, RowCreated, RowAdvances, StoreInv
<1>. QED
  BY <1>1, <1>2, <1>3 DEF StoreInv

\* A job that left the queue does not come back to it.
LEMMA KnownStays ==
  ASSUME ProtocolTypeOK, StoreInv, [AnyNext]_protocolVars, NEW j \in JobId, Known(j)
  PROVE  Known(j)'
<1>1. RowStays(j) \/ RowCreated(j) \/ RowAdvances(j)
  BY StepOfStore, StepOfJobs DEF StoreInv, SafeInv, JobsStep
<1>. QED
  BY <1>1 DEF Known, RowStays, RowCreated, RowAdvances, NoRow, Held, Finished

-------------------------------------------------------------------------------
(* What a step of the tables means for a job an agent may be executing *)

\* The row is not taken from the agent, and no outcome is entered.
Calm(j) ==
  /\ jobs[j].state \in Held => jobs'[j].state \in Held
  /\ progress'[j][FinalSequence] # NoEvent => progress[j][FinalSequence] # NoEvent
  /\ jobs'[j].state = "succeeded" => jobs[j].state = "succeeded"

LEMMA ExpiryIsCalm ==
  ASSUME TypeOK, NEW j \in JobId, jobs'[j] = Expired[j],
         progress'[j][FinalSequence] = progress[j][FinalSequence]
  PROVE  Calm(j)
<1>1. jobs \in Rows
  BY DEF TypeOK, Rows
<1>2. CASE jobs[j] = NoRow
  BY <1>1, <1>2, ExpiryKeepsTheRest DEF Calm
<1>3. CASE jobs[j] # NoRow
  BY <1>1, <1>3, ExpiryKeepsTheRest DEF Calm, Held
<1>. QED
  BY <1>2, <1>3

LEMMA ClaimIsCalm ==
  ASSUME TypeOK, NEW k \in JobId, Claim(Pc, "yes", k)
  PROVE  /\ \A j \in JobId : Calm(j)
         /\ k \in OpenJobs(Pc) /\ jobs[k].state = "queued" /\ jobs'[k].state = "running"
<1>1. /\ jobs[k].state = "queued" /\ jobs[k] \in Row /\ Expired[k] = jobs[k]
      /\ k \in RowsOf(Pc)
  BY DEF Claim, QueuedJobs, RowsOf, Expired, TypeOK
<1>2. jobs'[k] = [jobs[k] EXCEPT !.state = "running"]
  BY <1>1 DEF Claim, Expired
<1>3. jobs'[k].state = "running"
  BY <1>1, <1>2 DEF Row
<1>4. Calm(k)
  BY <1>1, <1>3 DEF Calm, Claim, Held
<1>5. ASSUME NEW j \in JobId, j # k
      PROVE  Calm(j)
  <2>1. jobs'[j] = Expired[j] /\ progress' = progress
    BY <1>5 DEF Claim, Expired
  <2>. QED
    BY <2>1, ExpiryIsCalm
<1>. QED
  BY <1>1, <1>3, <1>4, <1>5 DEF OpenJobs, Open

LEMMA UpdateIsCalm ==
  ASSUME TypeOK, NEW k \in JobId, NEW r \in Report, Update(Pc, k, r)
  PROVE  /\ \A j \in JobId : j # k \/ r.state \notin Finished => Calm(j)
         /\ jobs[k].state \in Held /\ jobs'[k].state = r.state
<1>1. jobs[k].state \in Held /\ jobs[k] \in Row
  BY DEF Update, HeldJobs, RowsOf, TypeOK
<1>2. jobs'[k] = [jobs[k] EXCEPT !.state = r.state, !.exit = r.exit, !.silence = 0]
  BY DEF Update, TypeOK
<1>3. jobs'[k].state = r.state
  BY <1>1, <1>2 DEF Row
<1>4. ASSUME r.state \notin Finished
      PROVE  Calm(k)
  BY <1>1, <1>3, <1>4, ReportKinds DEF Calm, Update, Finished
<1>5. ASSUME NEW j \in JobId, j # k
      PROVE  Calm(j)
  <2>1. jobs'[j] = jobs[j] /\ progress'[j] = progress[j]
    BY <1>5 DEF Update, TypeOK
  <2>. QED
    BY <2>1 DEF Calm
<1>. QED
  BY <1>1, <1>3, <1>4, <1>5

LEMMA ResolveIsCalm ==
  ASSUME TypeOK, NEW k \in JobId, Resolve(k)
  PROVE  /\ \A j \in JobId \ {k} : Calm(j)
         /\ progress' = progress /\ jobs'[k].state = "failed"
<1>1. jobs[k] \in Row
  BY DEF Resolve, NoRow, TypeOK
<1>2. jobs'[k] = [jobs[k] EXCEPT !.state = "failed", !.exit = 1]
  BY DEF Resolve, TypeOK
<1>3. jobs'[k].state = "failed"
  BY <1>1, <1>2 DEF Row
<1>4. ASSUME NEW j \in JobId \ {k}
      PROVE  Calm(j)
  <2>1. jobs'[j] = jobs[j] /\ progress' = progress
    BY <1>4 DEF Resolve, TypeOK
  <2>. QED
    BY <2>1 DEF Calm
<1>. QED
  BY <1>3, <1>4 DEF Resolve

LEMMA OthersAreCalm ==
  ASSUME TypeOK, Deploy \/ WatchJobs \/ TimePasses \/ Admits \/ ClaimNothing(Pc, "yes"),
         NEW j \in JobId
  PROVE  Calm(j)
<1>1. CASE WatchJobs \/ ClaimNothing(Pc, "yes")
  BY <1>1, ExpiryIsCalm DEF WatchJobs, ListJobs, ClaimNothing
<1>2. CASE Deploy
  <2>1. PICK r \in Request : InsertJob(Pc, "deploy", r)
    BY <1>2 DEF Deploy, Enqueue
  <2>2. PICK k \in JobId :
          /\ jobs[k] = NoRow
          /\ jobs' = [Expired EXCEPT ![k] =
                        [state |-> "queued", device |-> Pc, action |-> "deploy",
                         request |-> r, exit |-> NoExit, silence |-> 0]]
          /\ progress' = [progress EXCEPT ![k][0] = "queued"]
    BY <2>1 DEF InsertJob
  <2>3. progress'[j][FinalSequence] = progress[j][FinalSequence]
    BY <2>2, Sequences DEF TypeOK
  <2>4. CASE j = k
    <3>1. jobs'[j] = [state |-> "queued", device |-> Pc, action |-> "deploy",
                      request |-> r, exit |-> NoExit, silence |-> 0]
      BY <2>2, <2>4 DEF Expired
    <3>2. jobs'[j].state = "queued"
      BY <3>1
    <3>3. jobs[j].state = "unused"
      BY <2>2, <2>4 DEF NoRow
    <3>. QED
      BY <2>3, <3>2, <3>3 DEF Calm, Held
  <2>5. CASE j # k
    <3>1. jobs'[j] = Expired[j]
      BY <2>2, <2>5 DEF Expired
    <3>. QED
      BY <2>3, <3>1, ExpiryIsCalm
  <2>. QED
    BY <2>4, <2>5
<1>3. CASE TimePasses
  <2>1. progress' = progress
    BY <1>3 DEF TimePasses, Tick
  <2>2. CASE jobs[j].state = "running" /\ jobs[j].silence <= StaleAfter
    <3>1. jobs[j] \in Row
      BY <2>2 DEF TypeOK, NoRow
    <3>2. jobs'[j] = [jobs[j] EXCEPT !.silence = @ + 1]
      BY <1>3, <2>2 DEF TimePasses, Tick
    <3>3. jobs'[j].state = jobs[j].state
      BY <3>1, <3>2 DEF Row
    <3>. QED
      BY <2>1, <3>3 DEF Calm
  <2>3. CASE ~(jobs[j].state = "running" /\ jobs[j].silence <= StaleAfter)
    BY <1>3, <2>1, <2>3 DEF TimePasses, Tick, Calm
  <2>. QED
    BY <2>2, <2>3
<1>4. CASE Admits
  <2>1. CASE Revoke(Pc)
    <3>1. progress' = progress
      BY <2>1 DEF Revoke
    <3>2. CASE j \in QueuedJobs(Pc)
      <4>1. jobs[j].state = "queued" /\ jobs[j] \in Row
        BY <3>2 DEF QueuedJobs, RowsOf, TypeOK
      <4>2. jobs'[j] = [jobs[j] EXCEPT !.state = "cancelled"]
        BY <2>1, <3>2 DEF Revoke
      <4>3. jobs'[j].state = "cancelled"
        BY <4>1, <4>2 DEF Row
      <4>. QED
        BY <3>1, <4>1, <4>3 DEF Calm, Held
    <3>3. CASE j \notin QueuedJobs(Pc)
      BY <2>1, <3>1, <3>3 DEF Revoke, Calm
    <3>. QED
      BY <3>2, <3>3
  <2>2. CASE Join(Pc) \/ Approve(Pc)
    BY <2>2 DEF Join, Approve, Calm
  <2>. QED
    BY <1>4, <2>1, <2>2 DEF Admits
<1>. QED
  BY <1>1, <1>2, <1>3, <1>4

\* What a call tells the server, and what the answer then means.
LEMMA Taking ==
  ASSUME TypeOK, NEW c, NEW answer \in Answers, ServerTakes(c, answer)
  PROVE  /\ \A j \in JobId :
              \/ Calm(j)
              \/ /\ c.kind = "report" /\ c.job = j /\ c.report.state \in Finished
                 /\ jobs'[j].state = c.report.state
         /\ answer.kind = "job" =>
              /\ c.kind = "claim"
              /\ answer.job \in JobId =>
                   /\ answer.job \in OpenJobs(Pc)
                   /\ jobs[answer.job].state = "queued"
                   /\ jobs'[answer.job].state = "running"
         /\ (c.kind = "report" /\ answer.kind = "ok" /\ c.report.state \notin Finished)
              => jobs'[c.job].state \in Held
<1>. DEFINE Result1 == \A j \in JobId :
              \/ Calm(j)
              \/ /\ c.kind = "report" /\ c.job = j /\ c.report.state \in Finished
                 /\ jobs'[j].state = c.report.state
<1>u. ASSUME serverVars' = serverVars
      PROVE  Result1
  BY <1>u DEF serverVars, Calm
<1>1. ASSUME c.kind = "claim", ClaimNothing(Pc, "yes"), answer = [kind |-> "job", job |-> 0]
      PROVE  Result1 /\ answer.job \notin JobId
  BY <1>1, OthersAreCalm DEF JobId
<1>2. ASSUME c.kind = "claim", NEW k \in JobId, Claim(Pc, "yes", k),
             answer = [kind |-> "job", job |-> k]
      PROVE  /\ Result1
             /\ k \in OpenJobs(Pc) /\ jobs[k].state = "queued" /\ jobs'[k].state = "running"
             /\ answer.job = k
  BY <1>2, ClaimIsCalm
<1>3. ASSUME c.kind = "report", c.job \in JobId, c.report \in Report,
             HandleReport(c.job, c.report, answer)
      PROVE  /\ Result1
             /\ answer.kind # "job"
             /\ answer.kind = "ok" /\ c.report.state \notin Finished
                  => jobs'[c.job].state \in Held
  <2>1. CASE Update(Pc, c.job, c.report) /\ answer = [kind |-> "ok"]
    BY <1>3, <2>1, UpdateIsCalm, ReportKinds
  <2>2. CASE Repeats(c.job, c.report) /\ answer = [kind |-> "ok"] /\ UNCHANGED serverVars
    <3>1. c.report.state \notin Finished => jobs'[c.job].state \in Held
      BY <1>3, <2>2, ReportKinds DEF Repeats, serverVars
    <3>. QED
      BY <1>u, <2>2, <3>1
  <2>3. CASE answer = [kind |-> "refused"] /\ UNCHANGED serverVars
    BY <1>u, <2>3
  <2>. QED
    BY <1>3, <2>1, <2>2, <2>3 DEF HandleReport
<1>4. CASE c.kind = "claim" /\ HandleClaim(answer)
  BY <1>1, <1>2, <1>4 DEF HandleClaim
<1>5. CASE c.kind = "report" /\ HandleReport(c.job, c.report, answer)
           /\ c.job \in JobId /\ c.report \in Report
  BY <1>3, <1>5
<1>6. CASE answer = [kind |-> "refused"] /\ UNCHANGED serverVars
  BY <1>u, <1>6
<1>. QED
  BY <1>4, <1>5, <1>6 DEF ServerTakes

-------------------------------------------------------------------------------
(* Types *)

LateOK ==
  /\ \A c \in late : c = ClaimCall \/ \E j \in JobId, r \in Report : c = ReportCall(j, r)
  /\ Cardinality(late) <= MaxLate
  /\ IsFiniteSet(late)

PcPlaces == Waiting \cup {"down", "boot", "idle", "claimed", "start", "running", "exited",
                          "deliver"}

\* ProtocolTypeOK but for the tables.
PcTypeOK ==
  /\ pc \in PcPlaces
  /\ mine \in JobId \cup {0}
  /\ exitCode \in ExitCode \cup {NoExit}
  /\ file \in File
  /\ call \in Call
  /\ LateOK
  /\ alive \subseteq JobId /\ unwatched \subseteq JobId
  /\ starts \in [JobId -> Nat]
  /\ exitOf \in [JobId -> ChildExit \cup {NoExit}]
  /\ crashes \in 0..MaxCrashes

LEMMA TypeParts ==
  ProtocolTypeOK /\ IsFiniteSet(late) <=> TypeOK /\ PcTypeOK
BY DEF ProtocolTypeOK, PcTypeOK, PcPlaces, LateOK, Call

LEMMA JobAnswer ==
  ASSUME NEW answer \in Answers \cup {NoAnswer}, answer.kind = "job"
  PROVE  answer.job \in JobId \cup {0}
<1>1. /\ answer # [kind |-> "ok"] /\ answer # [kind |-> "refused"]
      /\ answer # [kind |-> "none"]
  OBVIOUS
<1>2. answer \in [kind : {"job"}, job : JobId \cup {0}]
  BY <1>1 DEF Answers, NoAnswer
<1>. QED
  BY <1>2

LEMMA LateShrinks ==
  ASSUME LateOK, late' \subseteq late
  PROVE  LateOK'
<1>1. IsFiniteSet(late') /\ Cardinality(late') <= Cardinality(late)
  BY FS_Subset DEF LateOK
<1>2. Cardinality(late) \in Nat /\ Cardinality(late') \in Nat
  <2>1. IsFiniteSet(late)
    BY DEF LateOK
  <2>. QED
    BY <1>1, <2>1, FS_CardinalityType
<1>3. Cardinality(late') <= MaxLate
  BY <1>1, <1>2 DEF LateOK
<1>. QED
  BY <1>1, <1>3 DEF LateOK

LEMMA GiveUpType ==
  ASSUME PcTypeOK, GiveUp
  PROVE  call' = NoCall /\ LateOK'
<1>1. CASE late' = late
  BY <1>1 DEF PcTypeOK, LateOK, GiveUp
<1>2. CASE call # NoCall /\ call.answer = NoAnswer
           /\ Cardinality(late \cup {call}) <= MaxLate /\ late' = late \cup {call}
  BY <1>2, UnansweredCall, FS_AddElement DEF PcTypeOK, LateOK, GiveUp
<1>. QED
  BY <1>1, <1>2 DEF GiveUp

LEMMA LoopHeads ==
  /\ LoopHead["boot wait"] = "boot" /\ LoopHead["claim wait"] = "idle"
  /\ LoopHead["beat wait"] = "running" /\ LoopHead["deliver wait"] = "deliver"
BY DEF LoopHead, Waiting

LEMMA PcTypeStep ==
  ASSUME ProtocolTypeOK, PcTypeOK, WorkInv, [AnyNext]_protocolVars
  PROVE  PcTypeOK'
<1>. USE DEF PcTypeOK, PcPlaces, Waiting, memory, network, machine
<1>l. LateOK /\ UNCHANGED late => LateOK'
  BY DEF LateOK
<1>m. pc \in {"claimed", "start", "running", "exited", "deliver"} => mine \in JobId
  BY DEF WorkInv, HasJob
<1>x. pc \in {"exited", "deliver"} => exitCode \in ExitCode
  BY DEF WorkInv
<1>1. CASE Boot \/ BootDone
  BY <1>1, <1>l DEF Boot, BootDone
<1>2. CASE BootSend
  <2>1. CASE file.kind = "result" /\ Send(ReportCall(file.job, file.report), "boot wait")
    <3>1. ReportCall(file.job, file.report) \in Call
      BY <2>1, CallFields, FileKinds
    <3>. QED
      BY <1>l, <2>1, <3>1 DEF Send
  <2>2. CASE file.kind = "claim" /\ Send(ReportCall(file.job, Interrupted), "boot wait")
    <3>1. ReportCall(file.job, Interrupted) \in Call
      BY <2>2, CallFields, FileKinds, ReportKinds
    <3>. QED
      BY <1>l, <2>2, <3>1 DEF Send
  <2>. QED
    BY <1>2, <2>1, <2>2 DEF BootSend
<1>3. CASE BootAnswered
  BY <1>3, <1>l, CallFields, FileFields DEF BootAnswered, Refused, Answered
<1>4. CASE ClaimSend
  BY <1>4, <1>l, CallFields DEF ClaimSend, Send
<1>5. CASE ClaimAnswered
  <2>1. call.answer \in Answers \cup {NoAnswer} /\ call.answer.kind = "job"
    BY <1>5 DEF Call, ClaimAnswered, Answered
  <2>2. call.answer.job \in JobId \cup {0}
    BY <2>1, JobAnswer
  <2>. QED
    BY <1>5, <1>l, <2>2, CallFields DEF ClaimAnswered, Answered
<1>6. CASE WriteClaim
  <2>1. file' \in File /\ pc' \in {"start", "idle"}
    BY <1>6, <1>m, FileFields DEF WriteClaim, WriteFails
  <2>. QED
    BY <1>6, <1>l, <2>1 DEF WriteClaim
<1>7. CASE StartChild
  <2>1. mine \in JobId /\ 1 \in ExitCode
    BY <1>7, <1>m, JobStoreAssumption DEF StartChild
  <2>2. starts' \in [JobId -> Nat]
    BY <1>7, <2>1 DEF StartChild, Launch
  <2>3. /\ alive' \subseteq JobId /\ unwatched' \subseteq JobId
        /\ exitCode' \in ExitCode \cup {NoExit}
        /\ pc' \in {"running", "exited"}
    BY <1>7, <2>1 DEF StartChild, Launch, LetGo
  <2>. QED
    BY <1>7, <1>l, <2>2, <2>3 DEF StartChild
<1>8. CASE BeatSend
  BY <1>8, <1>l, CallFields, ReportKinds DEF BeatSend, Send
<1>9. CASE BeatAnswered
  BY <1>9, <1>l, CallFields DEF BeatAnswered, Refused, Answered
<1>10. CASE SeeExit
  <2>1. mine \in JobId
    BY <1>10, <1>m DEF SeeExit
  <2>2. exitCode' \in ExitCode
    BY <1>10, <2>1, ReportedCode, JobStoreAssumption DEF SeeExit
  <2>. QED
    BY <1>10, <1>l, <2>2 DEF SeeExit
<1>11. CASE WriteResult
  <2>1. mine \in JobId /\ exitCode \in ExitCode
    BY <1>11, <1>m, <1>x DEF WriteResult
  <2>2. Result(mine, ResultOf(exitCode)) \in File
    BY <2>1, FileFields, ReportKinds
  <2>3. file' \in File /\ pc' \in {"deliver", "idle"}
    BY <1>11, <2>2, FileFields DEF WriteResult, WriteFails
  <2>. QED
    BY <1>11, <1>l, <2>3 DEF WriteResult
<1>12. CASE DeliverSend
  <2>1. mine \in JobId /\ exitCode \in ExitCode
    BY <1>12, <1>m, <1>x DEF DeliverSend
  <2>2. ReportCall(mine, ResultOf(exitCode)) \in Call
    BY <2>1, CallFields, ReportKinds
  <2>. QED
    BY <1>12, <1>l, <2>2 DEF DeliverSend, Send
<1>13. CASE DeliverAnswered
  BY <1>13, <1>l, CallFields, FileFields DEF DeliverAnswered, Refused, Answered
<1>14. CASE Timeout
  <2>1. call' = NoCall /\ LateOK'
    BY <1>14, GiveUpType DEF Timeout
  <2>. QED
    BY <1>14, <2>1, CallFields, LoopHeads DEF Timeout
<1>15. CASE ServerResponds
  BY <1>15, <1>l, Answering DEF ServerResponds
<1>16. CASE ServerHandlesLate
  <2>1. late' \subseteq late
    BY <1>16 DEF ServerHandlesLate
  <2>. QED
    BY <1>16, <2>1, LateShrinks DEF ServerHandlesLate
<1>17. CASE ChildExits
  BY <1>17, <1>l DEF ChildExits
<1>18. CASE AgentStops
  <2>1. call' = NoCall /\ LateOK'
    BY <1>18, GiveUpType DEF AgentStops, AgentEnds
  <2>2. crashes' \in 0..MaxCrashes
    BY <1>18 DEF AgentStops
  <2>3. file' \in File /\ alive' \subseteq JobId
    BY <1>18, FileFields DEF AgentStops
  <2>. QED
    BY <1>18, <2>1, <2>2, <2>3, CallFields DEF AgentStops, AgentEnds
<1>19. CASE OutsideStep
  BY <1>19, <1>l, OutsideStays DEF outside
<1>20. CASE UNCHANGED protocolVars
  BY <1>20, <1>l DEF protocolVars
<1>21. CASE WaitFails
  <2>1. mine \in JobId /\ 1 \in ExitCode
    BY <1>21, <1>m, JobStoreAssumption DEF WaitFails
  <2>. QED
    BY <1>21, <1>l, <2>1 DEF WaitFails, LetGo
<1>. QED
  BY <1>1, <1>2, <1>3, <1>4, <1>5, <1>6, <1>7, <1>8, <1>9, <1>10, <1>11, <1>12, <1>13,
     <1>14, <1>15, <1>16, <1>17, <1>18, <1>19, <1>20, <1>21 DEF AnyNext, AgentWork

-------------------------------------------------------------------------------
(* A job whose installer ended stays so *)

\* The step starts the installer of the job.
Starts(j) ==
  /\ pc = "start" /\ mine = j /\ pc' \in {"running", "exited"}
  /\ UNCHANGED <<mine, file, call>>

\* The step answers the agent's poll with the job.
Hands(j) ==
  /\ call.kind = "claim" /\ call # NoCall
  /\ j \in OpenJobs(Pc) /\ jobs[j].state = "queued" /\ jobs'[j].state = "running"

LEMMA MachineStep ==
  ASSUME PcTypeOK, [AnyNext]_protocolVars, NEW j \in JobId
  PROVE  /\ j \in Watched' => j \in Watched \/ (Starts(j) /\ pc' = "running")
         /\ j \in alive' => j \in alive \/ (Starts(j) /\ starts'[j] = starts[j] + 1)
         /\ j \in unwatched => j \in unwatched'
         /\ j \in unwatched' => \/ j \in unwatched
                                \/ Starts(j) /\ starts'[j] = starts[j] + 1
                                \/ j \in alive /\ pc = "running" /\ mine = j
         /\ starts'[j] = starts[j] \/ (Starts(j) /\ starts'[j] = starts[j] + 1)
         /\ exitOf'[j] = exitOf[j] \/ j \in alive
<1>. USE DEF Watched
<1>1. CASE UNCHANGED machine
  BY <1>1 DEF machine
<1>2. CASE StartChild
  <2>1. UNCHANGED <<mine, file, call, exitOf>> /\ pc = "start" /\ pc' \in {"running", "exited"}
    BY <1>2 DEF StartChild, LetGo, network
  <2>2. CASE Launch
    <3>1. CASE mine = j
      BY <1>2, <2>1, <2>2, <3>1 DEF Starts, PcTypeOK, StartChild, Launch, LetGo
    <3>2. CASE mine # j
      BY <1>2, <2>1, <2>2, <3>2 DEF PcTypeOK, StartChild, Launch, LetGo
    <3>. QED
      BY <3>1, <3>2
  <2>3. CASE UNCHANGED <<alive, starts, unwatched>>
    BY <2>1, <2>3
  <2>. QED
    BY <1>2, <2>2, <2>3 DEF StartChild
<1>3. CASE ChildExits
  BY <1>3 DEF ChildExits, PcTypeOK
<1>4. CASE AgentStops
  BY <1>4 DEF AgentStops, AgentEnds
<1>5. CASE Boot \/ BootDone \/ BootSend \/ BootAnswered \/ ClaimSend \/ ClaimAnswered
  BY <1>1, <1>5 DEF Boot, BootDone, BootSend, BootAnswered, ClaimSend, ClaimAnswered, Refused,
                    Answered, Send
<1>6. CASE WriteClaim \/ BeatSend \/ BeatAnswered \/ SeeExit \/ WriteResult
  BY <1>1, <1>6 DEF WriteClaim, BeatSend, BeatAnswered, SeeExit, WriteResult, Refused,
                    Answered, Send
<1>7. CASE DeliverSend \/ DeliverAnswered \/ Timeout \/ ServerResponds \/ ServerHandlesLate
  BY <1>1, <1>7 DEF DeliverSend, DeliverAnswered, Timeout, ServerResponds, ServerHandlesLate,
                    Refused, Answered, Send
<1>8. CASE OutsideStep \/ UNCHANGED protocolVars
  BY <1>1, <1>8, OutsideStays DEF outside, protocolVars
<1>9. CASE WaitFails
  BY <1>9 DEF WaitFails, LetGo
<1>. QED
  BY <1>2, <1>3, <1>4, <1>5, <1>6, <1>7, <1>8, <1>9 DEF AnyNext, AgentWork

\* The agent has nothing of a claim at hand.
LEMMA EmptyHand ==
  ASSUME call.answer.kind # "job", pc \notin {"claimed", "start"}, NEW j
  PROVE  ~AtHand(j)
BY DEF AtHand

\* Only a job that was queued comes to the agent's hand.
LEMMA HandStep ==
  ASSUME ProtocolTypeOK, PcTypeOK, [AnyNext]_protocolVars,
         NEW j \in JobId, AtHand(j)'
  PROVE  AtHand(j) \/ Hands(j)
<1>t. TypeOK /\ (call # NoCall => call.kind # "none")
  BY CallKinds DEF ProtocolTypeOK, PcTypeOK
<1>1. CASE UNCHANGED <<pc, mine, call>>
  BY <1>1 DEF AtHand
<1>2. CASE BootSend \/ BeatSend \/ DeliverSend \/ ClaimSend
  <2>1. call'.answer = NoAnswer /\ pc' \in Waiting
    <3>1. \A k, r : ReportCall(k, r).answer = NoAnswer
      BY DEF ReportCall
    <3>2. CASE BootSend
      BY <3>1, <3>2 DEF BootSend, Send, Waiting
    <3>3. CASE BeatSend
      BY <3>1, <3>3 DEF BeatSend, Send, Waiting
    <3>4. CASE DeliverSend
      BY <3>1, <3>4 DEF DeliverSend, Send, Waiting
    <3>5. CASE ClaimSend
      BY <3>5, CallFields DEF ClaimSend, Send, Waiting
    <3>. QED
      BY <1>2, <3>2, <3>3, <3>4, <3>5
  <2>. QED
    BY <2>1, CallFields DEF AtHand, Waiting
<1>3. CASE ClaimAnswered
  <2>1. call' = NoCall /\ call.answer.kind = "job"
    BY <1>3 DEF ClaimAnswered, Answered
  <2>2. pc' = "claimed" /\ mine' = j
    BY <1>3, <2>1, CallFields DEF AtHand, ClaimAnswered, Answered
  <2>. QED
    BY <1>3, <2>1, <2>2 DEF AtHand, ClaimAnswered
<1>4. CASE WriteClaim
  BY <1>4 DEF AtHand, WriteClaim, WriteFails, memory, network
<1>5. CASE StartChild \/ WaitFails \/ SeeExit \/ WriteResult
  BY <1>5 DEF AtHand, StartChild, WaitFails, LetGo, SeeExit, WriteResult, WriteFails, memory,
              network
<1>6. CASE BootAnswered \/ BeatAnswered \/ DeliverAnswered
  BY <1>6, CallFields DEF AtHand, BootAnswered, BeatAnswered, DeliverAnswered, Refused, Answered
<1>7. CASE Timeout
  BY <1>7, CallFields, LoopHeads DEF AtHand, Timeout, GiveUp, Waiting
<1>8. CASE ServerResponds
  <2>1. PICK answer \in Answers : ServerTakes(call, answer) /\ call'.answer = answer
    BY <1>8, Answering
  <2>2. answer.kind = "job" /\ answer.job = j => Hands(j)
    BY <1>8, <1>t, <2>1, Taking DEF Hands, ServerResponds
  <2>. QED
    BY <1>8, <2>1, <2>2 DEF AtHand, ServerResponds, memory
<1>9. CASE AgentStops
  BY <1>9, CallFields DEF AtHand, AgentStops, AgentEnds, GiveUp
<1>10. CASE Boot \/ BootDone
  BY <1>10 DEF AtHand, Boot, BootDone, network
<1>11. CASE ServerHandlesLate \/ ChildExits \/ OutsideStep \/ UNCHANGED protocolVars
  BY <1>1, <1>11, OutsideStays DEF ServerHandlesLate, ChildExits, outside, protocolVars,
                                   memory, network
<1>. QED
  BY <1>2, <1>3, <1>4, <1>5, <1>6, <1>7, <1>8, <1>9, <1>10, <1>11 DEF AnyNext, AgentWork

LEMMA OverStays ==
  ASSUME ProtocolInv, [AnyNext]_protocolVars, NEW j \in JobId, Over(j)
  PROVE  Over(j)' /\ (EndedWell(j) => EndedWell(j)')
<1>1. PcTypeOK
  BY TypeParts DEF ProtocolInv
<1>2. Known(j)'
  BY KnownStays DEF ProtocolInv, Over
<1>3. ~AtHand(j)'
  BY <1>1, HandStep DEF ProtocolInv, Over, Known, Hands
<1>4. ~Starts(j)
  BY DEF Over, AtHand, Starts
<1>5. /\ j \notin Watched' /\ starts'[j] = starts[j]
      /\ j \in unwatched => j \in unwatched'
      /\ j \notin unwatched => j \notin unwatched' /\ exitOf'[j] = exitOf[j]
  BY <1>1, <1>4, MachineStep DEF Over, Watched
<1>. QED
  BY <1>2, <1>3, <1>5 DEF Over, EndedWell

LEMMA TrueStays ==
  ASSUME ProtocolInv, [AnyNext]_protocolVars,
         NEW j \in JobId, NEW r, TrueReport(j, r)
  PROVE  TrueReport(j, r)'
BY OverStays DEF TrueReport

-------------------------------------------------------------------------------
(* The agent's place, its call and its work *)

LEMMA CallStep ==
  ASSUME ProtocolTypeOK, PcTypeOK, CallInv, [AnyNext]_protocolVars
  PROVE  CallInv'
<1>t. TypeOK /\ call \in Call
  BY DEF ProtocolTypeOK, PcTypeOK
<1>1. CASE UNCHANGED <<pc, call, file>>
  BY <1>1 DEF CallInv
<1>2. CASE Boot \/ BootDone
  BY <1>2, CallFields DEF CallInv, Boot, BootDone, Waiting, network
<1>3. CASE BootSend
  <2>1. PICK report : call' = ReportCall(file.job, report)
    BY <1>3 DEF BootSend, Send
  <2>2. call'.kind = "report" /\ call'.job = file.job /\ call'.answer = NoAnswer
    BY <2>1 DEF ReportCall
  <2>. QED
    BY <1>3, <2>2, CallFields DEF CallInv, BootSend, Send, Waiting
<1>4. CASE BootAnswered
  BY <1>4, CallFields DEF CallInv, BootAnswered, Refused, Answered, Waiting
<1>5. CASE ClaimSend
  BY <1>5, CallFields DEF CallInv, ClaimSend, Send, Waiting
<1>6. CASE ClaimAnswered
  BY <1>6, CallFields DEF CallInv, ClaimAnswered, Answered, Waiting
<1>7. CASE WriteClaim \/ StartChild \/ WaitFails \/ SeeExit \/ WriteResult
  BY <1>7, CallFields DEF CallInv, WriteClaim, StartChild, WaitFails, LetGo, SeeExit,
                          WriteResult, WriteFails, Waiting, network
<1>8. CASE BeatSend
  <2>1. call'.kind = "report" /\ call'.answer = NoAnswer
    BY <1>8 DEF BeatSend, Send, ReportCall
  <2>. QED
    BY <1>8, <2>1, CallFields DEF CallInv, BeatSend, Send, Waiting
<1>9. CASE BeatAnswered
  BY <1>9, CallFields DEF CallInv, BeatAnswered, Refused, Answered, Waiting
<1>10. CASE DeliverSend
  <2>1. call'.kind = "report" /\ call'.answer = NoAnswer
    BY <1>10 DEF DeliverSend, Send, ReportCall
  <2>. QED
    BY <1>10, <2>1, CallFields DEF CallInv, DeliverSend, Send, Waiting
<1>11. CASE DeliverAnswered
  BY <1>11, CallFields DEF CallInv, DeliverAnswered, Refused, Answered, Waiting
<1>12. CASE Timeout
  <2>1. call' = NoCall /\ pc' \in {"boot", "idle", "running", "deliver"}
    BY <1>12, LoopHeads DEF Timeout, GiveUp, Waiting
  <2>. QED
    BY <2>1, CallFields DEF CallInv, Waiting
<1>13. CASE ServerResponds
  <2>1. PICK answer \in Answers :
          /\ ServerTakes(call, answer)
          /\ call'.answer = answer
          /\ call'.kind = call.kind
          /\ call.kind = "report" => call'.job = call.job
    BY <1>13, Answering
  <2>2. answer.kind = "job" => call.kind = "claim"
    BY <1>t, <2>1, Taking
  <2>3. call # NoCall /\ pc' = pc /\ file' = file
    BY <1>13 DEF ServerResponds
  <2>4. pc \in Waiting
    BY <2>3 DEF CallInv
  <2>. QED
    BY <2>1, <2>2, <2>3, <2>4 DEF CallInv, Waiting
<1>14. CASE AgentStops
  BY <1>14, CallFields DEF CallInv, AgentStops, AgentEnds, GiveUp, Waiting
<1>15. CASE ServerHandlesLate \/ ChildExits \/ OutsideStep \/ UNCHANGED protocolVars
  BY <1>1, <1>15, OutsideStays DEF ServerHandlesLate, ChildExits, outside, protocolVars,
                                   network
<1>. QED
  BY <1>2, <1>3, <1>4, <1>5, <1>6, <1>7, <1>8, <1>9, <1>10, <1>11, <1>12, <1>13, <1>14,
     <1>15 DEF AnyNext, AgentWork

\* The agent goes on with the work it had, or has none.
LEMMA SameWork ==
  ASSUME ProtocolInv, [AnyNext]_protocolVars, UNCHANGED <<mine, exitCode, file>>,
         pc' \in HasJob => pc \in HasJob,
         pc' \in {"start", "running", "beat wait"} => pc \in {"start", "running", "beat wait"},
         pc' \in {"running", "beat wait"} => pc \in {"running", "beat wait"},
         pc' \in {"exited", "deliver", "deliver wait"} =>
           pc \in {"exited", "deliver", "deliver wait"},
         pc' \in {"running", "beat wait"} => UNCHANGED unwatched,
         pc' \in {"running", "beat wait"} =>
           \A j \in JobId : j \in alive \/ exitOf[j] # NoExit
                              => j \in alive' \/ exitOf'[j] # NoExit
  PROVE  WorkInv'
<1>. USE DEF HasJob
<1>1. CASE pc' \notin HasJob
  BY <1>1 DEF WorkInv
<1>2. CASE pc' \in HasJob
  <2>1. PICK m \in JobId : m = mine /\ Known(m)
    BY <1>2 DEF ProtocolInv, WorkInv
  <2>2. mine' = m /\ Known(m)'
    BY <2>1, KnownStays DEF ProtocolInv
  <2>3. pc' \in {"start", "running", "beat wait"} => file' = Claimed(mine)'
    BY <2>1 DEF ProtocolInv, WorkInv, Claimed
  <2>4. pc' \in {"running", "beat wait"} =>
          m \notin unwatched' /\ (m \in alive' \/ exitOf'[m] # NoExit)
    BY <2>1 DEF ProtocolInv, WorkInv
  <2>5. ASSUME pc' \in {"exited", "deliver", "deliver wait"}
        PROVE  exitCode' \in ExitCode /\ TrueReport(mine, ResultOf(exitCode))'
    <3>1. PICK code \in ExitCode : code = exitCode /\ TrueReport(m, ResultOf(code))
      BY <2>1, <2>5 DEF ProtocolInv, WorkInv
    <3>2. TrueReport(m, ResultOf(code))'
      BY <3>1, TrueStays
    <3>. QED
      BY <2>2, <3>1, <3>2 DEF TrueReport, Over, Watched, EndedWell, AtHand, Known, ResultOf
  <2>. QED
    BY <2>2, <2>3, <2>4, <2>5 DEF WorkInv, Known
<1>. QED
  BY <1>1, <1>2

\* Unless the agent stops, an installer that is gone has left an exit code.
LEMMA InstallerKept ==
  ASSUME PcTypeOK, [AnyNext]_protocolVars, pc' # "down",
         NEW j \in JobId, j \in alive \/ exitOf[j] # NoExit
  PROVE  j \in alive' \/ exitOf'[j] # NoExit
<1>1. CASE ChildExits
  <2>1. PICK k \in alive, code \in ChildExit :
          alive' = alive \ {k} /\ exitOf' = [exitOf EXCEPT ![k] = code]
    BY <1>1 DEF ChildExits
  <2>2. code # NoExit
    BY JobStoreAssumption DEF ChildExit, NoExit
  <2>. QED
    BY <2>1, <2>2 DEF PcTypeOK
<1>2. CASE StartChild \/ WaitFails
  BY <1>2 DEF StartChild, Launch, WaitFails
<1>3. CASE UNCHANGED machine
  BY <1>3 DEF machine
<1>4. CASE Boot \/ BootDone \/ BootSend \/ BootAnswered \/ ClaimSend \/ ClaimAnswered
  BY <1>3, <1>4 DEF Boot, BootDone, BootSend, BootAnswered, ClaimSend, ClaimAnswered,
                    Refused, Answered, Send
<1>5. CASE WriteClaim \/ BeatSend \/ BeatAnswered \/ SeeExit \/ WriteResult
  BY <1>3, <1>5 DEF WriteClaim, BeatSend, BeatAnswered, SeeExit, WriteResult, Refused,
                    Answered, Send
<1>6. CASE DeliverSend \/ DeliverAnswered \/ Timeout \/ ServerResponds \/ ServerHandlesLate
  BY <1>3, <1>6 DEF DeliverSend, DeliverAnswered, Timeout, ServerResponds,
                    ServerHandlesLate, Refused, Answered, Send
<1>7. CASE OutsideStep \/ UNCHANGED protocolVars
  BY <1>3, <1>7, OutsideStays DEF outside, protocolVars
<1>8. CASE AgentStops
  BY <1>8 DEF AgentStops, AgentEnds
<1>. QED
  BY <1>1, <1>2, <1>4, <1>5, <1>6, <1>7, <1>8 DEF AnyNext, AgentWork

LEMMA WorkStep ==
  ASSUME ProtocolInv, [AnyNext]_protocolVars
  PROVE  WorkInv'
<1>. USE DEF HasJob, Waiting
<1>p. PcTypeOK /\ WorkInv /\ CallInv /\ TypeOK
  BY TypeParts DEF ProtocolInv, ProtocolTypeOK
<1>k. pc' # "down" => \A j \in JobId : j \in alive \/ exitOf[j] # NoExit
                                         => j \in alive' \/ exitOf'[j] # NoExit
  BY <1>p, InstallerKept
<1>1. CASE AgentStops
  BY <1>1 DEF AgentStops, AgentEnds, WorkInv
<1>2. CASE ClaimAnswered
  <2>1. PICK m \in JobId \cup {0} : m = call.answer.job
    BY <1>p, <1>2, JobAnswer DEF ClaimAnswered, Answered, PcTypeOK, Call
  <2>2. CASE m = 0
    BY <1>2, <2>1, <2>2 DEF ClaimAnswered, WorkInv
  <2>3. CASE m # 0
    <3>1. m \in JobId /\ AtHand(m)
      BY <1>2, <2>1, <2>3 DEF AtHand, ClaimAnswered, Answered
    <3>2. Known(m)
      BY <3>1 DEF ProtocolInv, InstallerInv
    <3>3. Known(m)'
      BY <3>1, <3>2, KnownStays DEF ProtocolInv
    <3>. QED
      BY <1>2, <2>1, <2>3, <3>1, <3>3 DEF ClaimAnswered, WorkInv, Known
  <2>. QED
    BY <2>2, <2>3
<1>3. CASE pc \in {"claimed", "start", "running", "exited"}
           /\ (WriteClaim \/ StartChild \/ WaitFails \/ SeeExit \/ WriteResult)
  <2>1. PICK m \in JobId : m = mine /\ Known(m)
    BY <1>p, <1>3 DEF WorkInv
  <2>2. Known(m)'
    BY <2>1, KnownStays DEF ProtocolInv
  <2>3. mine' = m
    BY <1>3, <2>1 DEF WriteClaim, StartChild, WaitFails, SeeExit, WriteResult, memory
  <2>4. CASE WriteClaim
    BY <2>1, <2>2, <2>3, <2>4 DEF WriteClaim, WriteFails, WorkInv, Known, Claimed
  <2>5. CASE StartChild /\ pc' = "running"
    <3>1. /\ m \in alive' /\ unwatched' = unwatched /\ UNCHANGED file /\ pc = "start"
      BY <2>1, <2>5 DEF StartChild, Launch, LetGo
    <3>2. m \notin unwatched
      BY <2>1, <3>1 DEF ProtocolInv, InstallerInv, AtHand
    <3>. QED
      BY <1>p, <2>1, <2>2, <2>3, <2>5, <3>1, <3>2 DEF WorkInv, Known, Claimed
  <2>6. CASE StartChild /\ pc' = "exited"
    <3>1. AtHand(m) /\ exitCode' = 1 /\ 1 \in ExitCode
      BY <2>1, <2>6, JobStoreAssumption DEF AtHand, StartChild, LetGo
    <3>2. m \in unwatched' \/ (Watched' = {} /\ starts'[m] = 0)
      BY <2>1, <2>6, <3>1 DEF StartChild, LetGo, ProtocolInv, InstallerInv, Watched
    <3>3. call.answer.kind # "job"
      BY <1>p, <2>6 DEF CallInv, StartChild
    <3>4. ~AtHand(m)'
      BY <2>6, <3>3 DEF AtHand, StartChild, network
    <3>5. Over(m)'
      BY <2>2, <3>2, <3>4 DEF Over, Watched
    <3>6. TrueReport(m, ResultOf(1))'
      BY <3>1, <3>5, ReportKinds DEF TrueReport
    <3>. QED
      BY <2>2, <2>3, <2>6, <3>1, <3>6
      DEF WorkInv, TrueReport, Over, Watched, EndedWell, AtHand, Known, ResultOf
  <2>7. CASE SeeExit
    <3>1. m \notin alive /\ exitOf[m] # NoExit /\ pc = "running" /\ pc' = "exited"
          /\ UNCHANGED <<alive, unwatched, starts, exitOf, call>> /\ m \notin unwatched
      BY <1>p, <2>1, <2>7 DEF SeeExit, WorkInv, machine, network
    <3>2. PICK code \in ExitCode : code = exitCode' /\ (code = 0 => exitOf[m] = 0)
      <4>1. exitOf[m] \in ChildExit \cup {NoExit} /\ 1 \in ExitCode
        BY <1>p, JobStoreAssumption DEF PcTypeOK
      <4>2. exitCode' \in {Reported(exitOf[m]), 1}
        BY <2>1, <2>7 DEF SeeExit
      <4>. QED
        BY <4>1, <4>2, ReportedCode
    <3>3. ~AtHand(m)'
      BY <1>p, <3>1 DEF AtHand, CallInv
    <3>4. Over(m)'
      BY <2>2, <3>1, <3>3 DEF Over, Watched
    <3>5. TrueReport(m, ResultOf(code))'
      BY <3>1, <3>2, <3>4, ReportKinds DEF TrueReport, EndedWell
    <3>. QED
      BY <2>2, <2>3, <3>1, <3>2, <3>5
      DEF WorkInv, TrueReport, Over, Watched, EndedWell, AtHand, Known, ResultOf
  <2>8. CASE WriteResult
    <3>1. PICK code \in ExitCode : code = exitCode /\ TrueReport(m, ResultOf(code))
      BY <1>p, <2>1, <2>8 DEF WriteResult, WorkInv
    <3>2. TrueReport(m, ResultOf(code))'
      BY <2>1, <3>1, TrueStays
    <3>3. exitCode' = code /\ pc' \in {"deliver", "idle"}
      BY <2>8, <3>1 DEF WriteResult, WriteFails, memory
    <3>. QED
      BY <2>2, <2>3, <3>1, <3>2, <3>3
      DEF WorkInv, TrueReport, Over, Watched, EndedWell, AtHand, Known, ResultOf
  <2>9. CASE WaitFails
    <3>1. /\ m \in unwatched' /\ exitCode' = 1 /\ 1 \in ExitCode
          /\ pc = "running" /\ pc' = "exited" /\ UNCHANGED call
      BY <2>1, <2>9, JobStoreAssumption DEF WaitFails, LetGo, network
    <3>2. ~AtHand(m)'
      BY <1>p, <3>1 DEF AtHand, CallInv
    <3>3. Over(m)'
      BY <2>2, <3>1, <3>2 DEF Over, Watched
    <3>4. TrueReport(m, ResultOf(1))'
      BY <3>1, <3>3, ReportKinds DEF TrueReport
    <3>. QED
      BY <2>2, <2>3, <3>1, <3>4
      DEF WorkInv, TrueReport, Over, Watched, EndedWell, AtHand, Known, ResultOf
  <2>. QED
    BY <1>3, <2>4, <2>5, <2>6, <2>7, <2>8, <2>9 DEF StartChild, LetGo
<1>4. CASE BootAnswered
  BY <1>4 DEF BootAnswered, Refused, Answered, WorkInv
<1>5. CASE DeliverAnswered /\ pc' = "idle"
  BY <1>5 DEF WorkInv
<1>6. ASSUME UNCHANGED <<mine, exitCode, file, unwatched>>, pc' = pc
      PROVE  WorkInv'
  BY <1>6, <1>k, SameWork
<1>7. CASE Boot \/ BootDone \/ BootSend \/ ClaimSend
  BY <1>7 DEF Boot, BootDone, BootSend, ClaimSend, Send, WorkInv
<1>8. CASE BeatSend \/ BeatAnswered
  <2>1. /\ UNCHANGED <<mine, exitCode, file, unwatched>>
        /\ pc \in {"running", "beat wait"} /\ pc' \in {"running", "beat wait"}
    BY <1>8 DEF BeatSend, BeatAnswered, Send, Refused, Answered, memory, machine
  <2>. QED
    BY <1>k, <2>1, SameWork
<1>9. CASE DeliverSend \/ (DeliverAnswered /\ pc' # "idle")
  <2>1. /\ UNCHANGED <<mine, exitCode, file>>
        /\ pc \in {"deliver", "deliver wait"} /\ pc' \in {"deliver", "deliver wait"}
    BY <1>9 DEF DeliverSend, DeliverAnswered, Send, Refused, Answered, memory
  <2>. QED
    BY <1>k, <2>1, SameWork
<1>10. CASE Timeout
  <2>1. /\ UNCHANGED <<mine, exitCode, file, unwatched>>
        /\ pc' = LoopHead[pc] /\ pc \in Waiting
    BY <1>10 DEF Timeout, memory, machine
  <2>2. CASE pc \in {"boot wait", "claim wait"}
    BY <2>1, <2>2, LoopHeads DEF WorkInv
  <2>3. CASE pc = "beat wait"
    BY <1>k, <2>1, <2>3, LoopHeads, SameWork
  <2>4. CASE pc = "deliver wait"
    BY <1>k, <2>1, <2>4, LoopHeads, SameWork
  <2>. QED
    BY <2>1, <2>2, <2>3, <2>4
<1>11. CASE ServerResponds \/ ServerHandlesLate \/ ChildExits
  BY <1>6, <1>11 DEF ServerResponds, ServerHandlesLate, ChildExits, memory, machine
<1>12. CASE OutsideStep \/ UNCHANGED protocolVars
  BY <1>6, <1>12, OutsideStays DEF outside, protocolVars, memory, machine
<1>13. WriteClaim \/ StartChild \/ WaitFails \/ SeeExit \/ WriteResult
       => pc \in {"claimed", "start", "running", "exited"}
  BY DEF WriteClaim, StartChild, WaitFails, SeeExit, WriteResult
<1>. QED
  BY <1>1, <1>2, <1>3, <1>4, <1>5, <1>7, <1>8, <1>9, <1>10, <1>11, <1>12, <1>13
  DEF AnyNext, AgentWork

-------------------------------------------------------------------------------
(* One installer *)

\* Nobody closes a job whose installer is watched: a report of its result does not
\* exist yet, and the administrator has inspected the PC.
LEMMA WatchedIsHeld ==
  ASSUME ProtocolInv, [AnyNext]_protocolVars, NEW j \in Watched, jobs[j].state \in Held
  PROVE  jobs'[j].state \in Held
<1>p. PcTypeOK /\ TypeOK /\ j \in JobId /\ j \in alive /\ ProtocolTypeOK
  BY TypeParts DEF ProtocolInv, PcTypeOK, ProtocolTypeOK, Watched
<1>1. CASE PcStep
  BY <1>1, PcStepsLeaveTables
<1>2. CASE ServerResponds \/ ServerHandlesLate
  <2>1. PICK c \in late \cup {call}, answer \in Answers : ServerTakes(c, answer)
    BY <1>2, <1>p, Answering, HandlingLate
  <2>2. ~(c.kind = "report" /\ c.job = j /\ c.report.state \in Finished)
    BY DEF ProtocolInv, ReportInv, TrueReport, Over
  <2>3. Calm(j)
    BY <1>p, <2>1, <2>2, Taking
  <2>. QED
    BY <2>3 DEF Calm
<1>3. CASE Deploy \/ WatchJobs \/ TimePasses \/ Admits
  BY <1>3, <1>p, OthersAreCalm DEF Calm
<1>4. CASE ResolveInspected
  <2>1. PICK k \in JobId \ alive : Resolve(k)
    BY <1>4 DEF ResolveInspected
  <2>. QED
    BY <1>p, <2>1, ResolveIsCalm DEF Calm
<1>5. CASE UNCHANGED protocolVars
  BY <1>5 DEF protocolVars, serverVars
<1>. QED
  BY <1>1, <1>2, <1>3, <1>4, <1>5 DEF AnyNext, OutsideStep, PcStep

\* The claim of a job whose installer is watched stays in ActiveJob.json until the job
\* was reported interrupted, which leaves it held.
LEMMA KeptStays ==
  ASSUME ProtocolInv, [AnyNext]_protocolVars, NEW j \in Watched, j \in Watched', Kept(j)
  PROVE  Kept(j)' \/ jobs'[j].state \in Held
<1>. USE DEF Kept
<1>p. /\ PcTypeOK /\ j \in JobId /\ CallInv /\ WorkInv /\ InstallerInv
      /\ file.kind = "claim" /\ file.job = j /\ j \in alive /\ j \notin unwatched'
  BY TypeParts, FileFields DEF ProtocolInv, PcTypeOK, ProtocolTypeOK, Watched
<1>f. ASSUME file' = file, pc' \in {"down", "boot", "boot wait", "start", "running", "beat wait"}
      PROVE  Kept(j)'
  BY <1>f DEF Claimed
<1>1. CASE UNCHANGED <<pc, file>>
  BY <1>1, <1>f
<1>2. CASE Boot \/ BootSend \/ BeatSend \/ BeatAnswered
  BY <1>2, <1>f DEF Boot, BootSend, BeatSend, BeatAnswered, Refused, Answered, Send
<1>3. CASE BootDone
  BY <1>3, <1>p, FileFields DEF BootDone
<1>4. CASE BootAnswered
  <2>1. CASE Refused("boot wait", "boot")
    BY <1>f, <2>1 DEF Refused
  <2>2. CASE Answered("boot wait", "ok")
    <3>1. call.job = j /\ call.kind = "report" /\ call.answer.kind = "ok"
      BY <1>p, <2>2 DEF Answered, CallInv, Waiting
    <3>2. jobs[j].state \in Held
      BY <1>p, <3>1 DEF InstallerInv
    <3>. QED
      BY <3>2, WatchedIsHeld
  <2>. QED
    BY <1>4, <2>1, <2>2 DEF BootAnswered
<1>5. CASE StartChild
  <2>1. AtHand(mine) /\ mine \in JobId
    BY <1>5, <1>p DEF StartChild, AtHand, WorkInv, HasJob
  <2>. QED
    BY <1>p, <2>1 DEF InstallerInv
<1>6. CASE SeeExit \/ WaitFails
  <2>1. file = Claimed(mine) /\ mine \in JobId
    BY <1>6, <1>p DEF SeeExit, WaitFails, WorkInv, HasJob
  <2>2. Claimed(j).job = j /\ Claimed(mine).job = mine
    BY DEF Claimed
  <2>3. mine = j
    BY <2>1, <2>2
  <2>. QED
    BY <1>p, <1>6, <2>3 DEF SeeExit, WaitFails, LetGo
<1>7. CASE ClaimSend \/ ClaimAnswered \/ WriteClaim \/ WriteResult \/ DeliverSend
           \/ DeliverAnswered
  BY <1>7 DEF ClaimSend, ClaimAnswered, WriteClaim, WriteResult, DeliverSend, DeliverAnswered,
              Refused, Answered
<1>8. CASE Timeout
  BY <1>8, <1>f, LoopHeads DEF Timeout, Waiting
<1>9. CASE AgentStops
  BY <1>9, <1>f DEF AgentStops, AgentEnds
<1>10. CASE ServerResponds \/ ServerHandlesLate \/ ChildExits
  BY <1>1, <1>10 DEF ServerResponds, ServerHandlesLate, ChildExits
<1>11. CASE OutsideStep \/ UNCHANGED protocolVars
  BY <1>1, <1>11, OutsideStays DEF outside, protocolVars
<1>. QED
  BY <1>2, <1>3, <1>4, <1>5, <1>6, <1>7, <1>8, <1>9, <1>10, <1>11 DEF AnyNext, AgentWork

LEMMA CallChange ==
  ASSUME [AnyNext]_protocolVars
  PROVE  call' = call \/ call'.answer.kind = "none" \/ ServerResponds
<1>1. CASE Boot \/ BootDone \/ WriteClaim \/ StartChild \/ WaitFails \/ SeeExit \/ WriteResult
  BY <1>1 DEF Boot, BootDone, WriteClaim, StartChild, WaitFails, SeeExit, WriteResult, network
<1>2. CASE BootSend \/ BeatSend \/ DeliverSend
  <2>1. PICK j, r : call' = ReportCall(j, r)
    BY <1>2 DEF BootSend, BeatSend, DeliverSend, Send
  <2>. QED
    BY <2>1 DEF ReportCall, NoAnswer
<1>3. CASE ClaimSend
  BY <1>3, CallFields DEF ClaimSend, Send
<1>4. CASE BootAnswered \/ ClaimAnswered \/ BeatAnswered \/ DeliverAnswered
  BY <1>4, CallFields DEF BootAnswered, ClaimAnswered, BeatAnswered, DeliverAnswered, Refused,
                          Answered
<1>5. CASE Timeout \/ AgentStops
  BY <1>5, CallFields DEF Timeout, AgentStops, AgentEnds, GiveUp
<1>6. CASE ServerHandlesLate \/ ChildExits \/ OutsideStep \/ UNCHANGED protocolVars
  BY <1>6, OutsideStays DEF ServerHandlesLate, ChildExits, outside, protocolVars, network
<1>. QED
  BY <1>1, <1>2, <1>3, <1>4, <1>5, <1>6 DEF AnyNext, AgentWork

LEMMA InstallersStep ==
  ASSUME ProtocolInv, [AnyNext]_protocolVars
  PROVE  InstallerInv'
<1>p. /\ PcTypeOK /\ TypeOK /\ CallInv /\ WorkInv /\ InstallerInv /\ Watched \subseteq JobId
      /\ ProtocolTypeOK /\ StoreInv /\ PcTypeOK'
  BY TypeParts, PcTypeStep DEF ProtocolInv, PcTypeOK, ProtocolTypeOK, Watched
<1>c. CallInv'
  BY <1>p, CallStep
<1>m. ASSUME NEW j \in JobId
      PROVE  /\ j \in Watched' => j \in Watched \/ (Starts(j) /\ pc' = "running")
             /\ starts'[j] = starts[j] \/ (Starts(j) /\ starts'[j] = starts[j] + 1)
             /\ j \in (alive \cup unwatched)' =>
                  \/ j \in alive \cup unwatched
                  \/ Starts(j) /\ starts'[j] = starts[j] + 1
  BY <1>p, MachineStep
<1>h. ASSUME NEW j \in JobId, Starts(j)
      PROVE  Watched = {} /\ starts[j] = 0 /\ Known(j) /\ file = Claimed(j) /\ call = NoCall
  BY <1>p, <1>h DEF Starts, AtHand, InstallerInv, WorkInv, CallInv, Waiting
<1>k. \A j \in JobId : Known(j) => Known(j)'
  BY <1>p, KnownStays
<1>j. Watched' \subseteq JobId /\ (alive \cup unwatched)' \subseteq JobId
  BY <1>p DEF PcTypeOK, Watched
<1>1. ASSUME NEW i \in Watched', NEW j \in Watched'
      PROVE  i = j
  <2>1. (i \in Watched \/ Starts(i)) /\ (j \in Watched \/ Starts(j))
    BY <1>j, <1>m
  <2>2. CASE i \in Watched /\ j \in Watched
    BY <1>p, <2>2 DEF InstallerInv
  <2>3. CASE Starts(i) \/ Starts(j)
    BY <1>h, <1>j, <2>1, <2>3 DEF Starts
  <2>. QED
    BY <2>1, <2>2, <2>3
<1>2. ASSUME NEW j \in JobId
      PROVE  starts'[j] <= 1
  BY <1>p, <1>m, <1>h DEF InstallerInv, PcTypeOK
<1>3. ASSUME NEW j \in JobId, ~Known(j)'
      PROVE  starts'[j] = 0
  BY <1>p, <1>m, <1>h, <1>k, <1>3 DEF InstallerInv
<1>4. ASSUME NEW j \in JobId, AtHand(j)'
      PROVE  Watched' = {} /\ starts'[j] = 0 /\ Known(j)'
  <2>1. \A i \in JobId : ~Starts(i)
    BY <1>c, <1>4 DEF AtHand, Starts, CallInv
  <2>2. Watched' \subseteq Watched /\ starts'[j] = starts[j]
    BY <1>j, <1>m, <2>1
  <2>3. CASE AtHand(j)
    BY <1>p, <1>k, <2>2, <2>3 DEF InstallerInv
  <2>4. CASE Hands(j)
    <3>1. Known(j)' /\ starts[j] = 0
      BY <1>p, <2>4 DEF Hands, Known, InstallerInv
    <3>2. pc = "claim wait"
      BY <1>p, <2>4 DEF Hands, CallInv, Waiting
    <3>3. ASSUME NEW i \in Watched
          PROVE  FALSE
      <4>1. jobs[i].state \in Held /\ i \in JobId
        BY <1>p, <3>2 DEF InstallerInv, Kept, Watched
      <4>2. jobs[i] # NoRow
        BY <4>1 DEF NoRow, Held
      <4>3. i \in OpenJobs(Pc)
        BY <1>p, <4>1, <4>2 DEF StoreInv, OpenJobs, RowsOf, Open
      <4>4. i = j
        BY <1>p, <2>4, <4>3 DEF Hands, StoreInv, SafeInv, OneOpenJob
      <4>. QED
        BY <2>4, <4>1, <4>4 DEF Hands, Held
    <3>. QED
      BY <2>2, <3>1, <3>3
  <2>. QED
    BY <1>p, <1>4, <2>3, <2>4, HandStep
<1>5. ASSUME NEW j \in Watched'
      PROVE  Known(j)' /\ (jobs'[j].state \in Held \/ Kept(j)')
  <2>1. CASE Starts(j) /\ pc' = "running"
    BY <1>h, <1>j, <1>k, <2>1 DEF Starts, Kept, Claimed
  <2>2. CASE j \in Watched
    BY <1>k, <1>j, <1>p, <2>2, WatchedIsHeld, KeptStays DEF InstallerInv
  <2>. QED
    BY <1>j, <1>m, <2>1, <2>2
<1>6. ASSUME call'.kind = "report", call'.answer.kind = "ok", call'.job \in Watched'
      PROVE  jobs'[call'.job].state \in Held
  <2>1. PICK m \in Watched' : m = call'.job
    BY <1>6
  <2>2. CASE call' = call
    <3>1. ~Starts(m)
      BY <1>6, <1>h, <1>j, <2>2, CallFields
    <3>2. m \in Watched
      BY <1>j, <1>m, <3>1
    <3>3. jobs[m].state \in Held
      BY <1>6, <1>p, <2>1, <2>2, <3>2 DEF InstallerInv
    <3>. QED
      BY <2>1, <3>2, <3>3, WatchedIsHeld
  <2>3. CASE ServerResponds
    <3>1. PICK answer \in Answers :
            /\ ServerTakes(call, answer) /\ call'.answer = answer /\ call'.kind = call.kind
            /\ call.kind = "report" => call'.job = call.job
      BY <1>p, <2>3, Answering
    <3>2. m \in Watched /\ call.kind = "report" /\ call.job = m /\ answer.kind = "ok"
      BY <1>6, <2>1, <2>3, <3>1 DEF ServerResponds, machine, Watched
    <3>3. call.report.state \notin Finished
      BY <3>2 DEF ProtocolInv, ReportInv, TrueReport, Over
    <3>. QED
      BY <1>p, <2>1, <3>1, <3>2, <3>3, Taking
  <2>. QED
    BY <1>6, <2>2, <2>3, CallChange
<1>7. ASSUME NEW j \in (alive \cup unwatched)'
      PROVE  starts'[j] # 0
  <2>1. j \in JobId /\ starts[j] \in Nat
    BY <1>j, <1>p DEF PcTypeOK
  <2>. QED
    BY <1>m, <1>p, <2>1 DEF InstallerInv
<1>. QED
  BY <1>1, <1>2, <1>3, <1>4, <1>5, <1>6, <1>7 DEF InstallerInv

-------------------------------------------------------------------------------
(* Every result that is anywhere is a true one *)

\* A report is sent from the file, as a heartbeat, or as the result.
LEMMA NewReport ==
  ASSUME [AnyNext]_protocolVars, call'.kind = "report"
  PROVE  call' = call \/ ServerResponds \/ BootSend \/ BeatSend \/ DeliverSend
<1>1. CASE Boot \/ BootDone \/ WriteClaim \/ StartChild \/ WaitFails \/ SeeExit \/ WriteResult
  BY <1>1 DEF Boot, BootDone, WriteClaim, StartChild, WaitFails, SeeExit, WriteResult, network
<1>2. CASE ClaimSend
  BY <1>2, CallFields DEF ClaimSend, Send
<1>3. CASE BootAnswered \/ ClaimAnswered \/ BeatAnswered \/ DeliverAnswered
  BY <1>3, CallFields DEF BootAnswered, ClaimAnswered, BeatAnswered, DeliverAnswered, Refused,
                          Answered
<1>4. CASE Timeout \/ AgentStops
  BY <1>4, CallFields DEF Timeout, AgentStops, AgentEnds, GiveUp
<1>5. CASE ServerHandlesLate \/ ChildExits \/ OutsideStep \/ UNCHANGED protocolVars
  BY <1>5, OutsideStays DEF ServerHandlesLate, ChildExits, outside, protocolVars, network
<1>. QED
  BY <1>1, <1>2, <1>3, <1>4, <1>5 DEF AnyNext, AgentWork

LEMMA LateChange ==
  ASSUME [AnyNext]_protocolVars, NEW c \in late'
  PROVE  c \in late \/ (c = call /\ call # NoCall)
<1>1. CASE Boot \/ BootDone \/ WriteClaim \/ StartChild \/ WaitFails \/ SeeExit \/ WriteResult
  BY <1>1 DEF Boot, BootDone, WriteClaim, StartChild, WaitFails, SeeExit, WriteResult, network
<1>2. CASE BootSend \/ BeatSend \/ DeliverSend \/ ClaimSend
  BY <1>2 DEF BootSend, BeatSend, DeliverSend, ClaimSend, Send
<1>3. CASE BootAnswered \/ ClaimAnswered \/ BeatAnswered \/ DeliverAnswered
  BY <1>3 DEF BootAnswered, ClaimAnswered, BeatAnswered, DeliverAnswered, Refused, Answered
<1>4. CASE Timeout \/ AgentStops
  BY <1>4 DEF Timeout, AgentStops, AgentEnds, GiveUp
<1>5. CASE ServerResponds \/ ServerHandlesLate \/ ChildExits
  BY <1>5 DEF ServerResponds, ServerHandlesLate, ChildExits, network
<1>6. CASE OutsideStep \/ UNCHANGED protocolVars
  BY <1>6, OutsideStays DEF outside, protocolVars, network
<1>. QED
  BY <1>1, <1>2, <1>3, <1>4, <1>5, <1>6 DEF AnyNext, AgentWork

LEMMA FileChange ==
  ASSUME [AnyNext]_protocolVars, file'.kind = "result"
  PROVE  \/ file' = file
         \/ pc = "exited" /\ file' = Result(mine, ResultOf(exitCode))
<1>1. CASE UNCHANGED file
  BY <1>1
<1>2. CASE BootAnswered \/ DeliverAnswered
  BY <1>2, FileFields DEF BootAnswered, DeliverAnswered, Refused
<1>3. CASE WriteClaim
  BY <1>3, FileFields DEF WriteClaim, WriteFails, Claimed
<1>4. CASE WriteResult
  BY <1>4, FileFields DEF WriteResult, WriteFails
<1>5. CASE AgentStops
  BY <1>5, FileFields DEF AgentStops
<1>6. CASE Boot \/ BootDone \/ BootSend \/ ClaimSend \/ ClaimAnswered \/ StartChild
  BY <1>6 DEF Boot, BootDone, BootSend, ClaimSend, ClaimAnswered, StartChild, Send
<1>7. CASE BeatSend \/ BeatAnswered \/ WaitFails \/ SeeExit \/ DeliverSend \/ Timeout
  BY <1>7 DEF BeatSend, BeatAnswered, WaitFails, SeeExit, DeliverSend, Timeout, Send, Refused
<1>8. CASE ServerResponds \/ ServerHandlesLate \/ ChildExits
  BY <1>8 DEF ServerResponds, ServerHandlesLate, ChildExits
<1>9. CASE OutsideStep \/ UNCHANGED protocolVars
  BY <1>9, OutsideStays DEF outside, protocolVars
<1>. QED
  BY <1>2, <1>3, <1>4, <1>5, <1>6, <1>7, <1>8, <1>9 DEF AnyNext, AgentWork

LEMMA ReportStep ==
  ASSUME ProtocolInv, [AnyNext]_protocolVars
  PROVE  ReportInv'
<1>p. /\ PcTypeOK /\ TypeOK /\ CallInv /\ WorkInv /\ ReportInv /\ ProtocolTypeOK
  BY TypeParts DEF ProtocolInv, ProtocolTypeOK
<1>o. \A j \in JobId : Over(j) => Over(j)' /\ (EndedWell(j) => EndedWell(j)')
  BY OverStays
<1>t. ASSUME NEW j \in JobId, NEW r, TrueReport(j, r)
      PROVE  TrueReport(j, r)'
  BY <1>t, TrueStays
<1>c. ASSUME NEW c \in Call, c.kind = "report", TrueReport(c.job, c.report)
      PROVE  TrueReport(c.job, c.report)'
  <2>1. c.job \in JobId
    BY <1>c DEF Call
  <2>. QED
    BY <1>c, <1>t, <2>1
<1>w. pc \in {"exited", "deliver"} =>
        /\ mine \in JobId /\ ResultOf(exitCode) \in Report
        /\ TrueReport(mine, ResultOf(exitCode))
  BY <1>p, ReportKinds DEF WorkInv, HasJob
<1>1. ASSUME call'.kind = "report"
      PROVE  TrueReport(call.job, call.report)'
  <2>1. CASE call' = call
    BY <1>1, <1>c, <1>p, <2>1 DEF PcTypeOK, ReportInv, TrueReport, Over, Watched, EndedWell, AtHand, Known
  <2>2. CASE ServerResponds
    <3>1. /\ call.kind = "report"
          /\ call'.job = call.job /\ call'.report = call.report
      BY <1>1, <1>p, <2>2, Answering
    <3>2. PICK j \in JobId, report \in Report : j = call.job /\ report = call.report
      BY <1>p, <3>1 DEF PcTypeOK, Call
    <3>3. TrueReport(j, report)'
      BY <1>p, <1>t, <3>1, <3>2 DEF ReportInv
    <3>. QED
      BY <3>1, <3>2, <3>3 DEF TrueReport, Over, Watched, EndedWell, AtHand, Known
  <2>3. ASSUME NEW j \in JobId, NEW report \in Report, call' = ReportCall(j, report),
               TrueReport(j, report)
        PROVE  TrueReport(call.job, call.report)'
    <3>1. call'.job = j /\ call'.report = report
      BY <2>3, CallFields
    <3>2. TrueReport(j, report)'
      BY <1>t, <2>3
    <3>. QED
      BY <3>1, <3>2 DEF TrueReport, Over, Watched, EndedWell, AtHand, Known
  <2>4. CASE BootSend
    <3>1. file.kind = "claim" => /\ file.job \in JobId /\ call' = ReportCall(file.job, Interrupted)
      BY <1>p, <2>4, FileKinds DEF BootSend, Send, PcTypeOK
    <3>2. file.kind = "result" =>
            /\ file.job \in JobId /\ file.report \in Report
            /\ call' = ReportCall(file.job, file.report)
            /\ TrueReport(file.job, file.report)
      BY <1>p, <2>4, FileKinds DEF BootSend, Send, PcTypeOK, ReportInv
    <3>3. \A j \in JobId : TrueReport(j, Interrupted)
      BY ReportKinds DEF TrueReport, Finished
    <3>. QED
      BY <2>3, <2>4, <3>1, <3>2, <3>3, ReportKinds DEF BootSend
  <2>5. CASE BeatSend
    <3>1. mine \in JobId /\ call' = ReportCall(mine, StillRunning)
      BY <1>p, <2>5 DEF BeatSend, Send, WorkInv, HasJob
    <3>2. TrueReport(mine, StillRunning)
      BY ReportKinds DEF TrueReport, Finished
    <3>. QED
      BY <2>3, <3>1, <3>2, ReportKinds
  <2>6. CASE DeliverSend
    <3>1. call' = ReportCall(mine, ResultOf(exitCode)) /\ pc = "deliver"
      BY <2>6 DEF DeliverSend, Send
    <3>. QED
      BY <1>w, <2>3, <3>1
  <2>7. call' = call \/ ServerResponds \/ BootSend \/ BeatSend \/ DeliverSend
    BY <1>1, NewReport
  <2>. QED
    BY <2>1, <2>2, <2>4, <2>5, <2>6, <2>7
<1>2. ASSUME NEW c \in late', c.kind = "report"
      PROVE  TrueReport(c.job, c.report)'
  <2>1. c \in late \/ (c = call /\ call # NoCall)
    BY LateChange
  <2>2. c \in Call /\ TrueReport(c.job, c.report)
    BY <1>2, <1>p, <2>1, LateCall DEF PcTypeOK, ReportInv
  <2>. QED
    BY <1>2, <1>c, <2>2
<1>3. ASSUME file'.kind = "result"
      PROVE  TrueReport(file.job, file.report)'
  <2>1. PICK j \in JobId, report \in Report :
          file'.job = j /\ file'.report = report /\ TrueReport(j, report)
    <3>1. CASE file' = file
      BY <1>3, <1>p, <3>1, FileKinds DEF PcTypeOK, ReportInv
    <3>2. CASE pc = "exited" /\ file' = Result(mine, ResultOf(exitCode))
      BY <1>w, <3>2, FileFields
    <3>. QED
      BY <1>3, <3>1, <3>2, FileChange
  <2>2. TrueReport(j, report)'
    BY <1>t, <2>1
  <2>. QED
    BY <2>1, <2>2 DEF TrueReport, Over, Watched, EndedWell, AtHand, Known
<1>4. ASSUME NEW j \in JobId
      PROVE  /\ progress'[j][FinalSequence] # NoEvent => Over(j)'
             /\ jobs'[j].state = "succeeded" => Over(j)' /\ EndedWell(j)'
  <2>1. CASE Calm(j)
    BY <1>p, <1>o, <2>1 DEF Calm, ReportInv
  <2>2. CASE UNCHANGED <<jobs, progress>>
    BY <1>p, <1>o, <2>2 DEF ReportInv
  <2>3. CASE ServerResponds \/ ServerHandlesLate
    <3>1. PICK c \in late \cup {call}, answer \in Answers : ServerTakes(c, answer)
      BY <1>p, <2>3, Answering, HandlingLate
    <3>2. CASE c.kind = "report" /\ c.job = j /\ c.report.state \in Finished
               /\ jobs'[j].state = c.report.state
      <4>1. Over(j) /\ (c.report.state = "succeeded" => EndedWell(j))
        BY <1>p, <3>2 DEF ReportInv, TrueReport
      <4>. QED
        BY <1>o, <3>2, <4>1
    <3>. QED
      BY <1>p, <2>1, <3>1, <3>2, Taking
  <2>4. CASE ResolveInspected
    <3>1. PICK k \in JobId : Resolve(k)
      BY <2>4 DEF ResolveInspected
    <3>2. CASE j = k
      BY <1>p, <1>o, <3>1, <3>2, ResolveIsCalm DEF ReportInv
    <3>. QED
      BY <1>p, <2>1, <3>1, <3>2, ResolveIsCalm
  <2>. QED
    BY <1>p, <2>1, <2>2, <2>3, <2>4, PcStepsLeaveTables, OthersAreCalm
    DEF AnyNext, OutsideStep, PcStep, protocolVars, serverVars
<1>. QED
  BY <1>1, <1>2, <1>3, <1>4 DEF ReportInv

-------------------------------------------------------------------------------
(* The theorems *)

\* Nothing has run on the PC, whatever the server knows of it.
LEMMA AgentStart ==
  ASSUME TypeOK, AgentInit, approved \subseteq {Pc},
         jobs = [j \in JobId |-> NoRow],
         progress = [j \in JobId |-> [s \in Sequence |-> NoEvent]]
  PROVE  ProtocolInv
<1>. USE DEF AgentInit
<1>2. \A j \in JobId : jobs[j] = NoRow /\ jobs[j].state = "unused"
  BY DEF NoRow
<1>3. \A d \in Device : RowsOf(d) = {}
  BY <1>2 DEF RowsOf
<1>4. SafeInv
  BY <1>3 DEF SafeInv, OneOpenJob, OneJobPerRequest, OpenJobHasApprovedAgent, OpenJobs
<1>5. \A j \in JobId, s \in Sequence : progress[j][s] = NoEvent
  OBVIOUS
<1>6. LogInv
  BY <1>2, <1>5, Sequences DEF LogInv, LogMatchesJob, NoEvent
<1>7. StoreInv
  BY <1>2, <1>4, <1>6 DEF StoreInv
<1>8. PcTypeOK
  <2>1. LateOK
    BY FS_EmptySet DEF LateOK
  <2>2. 0 \in 0..MaxCrashes
    OBVIOUS
  <2>. QED
    BY <2>1, <2>2, CallFields, FileFields DEF PcTypeOK, PcPlaces
<1>9. CallInv /\ WorkInv
  BY CallFields DEF CallInv, WorkInv, Waiting, HasJob
<1>10. \A j \in JobId : ~AtHand(j) /\ ~Known(j)
  BY <1>2, CallFields DEF AtHand, Known
<1>11. InstallerInv
  BY <1>10, CallFields DEF InstallerInv, Watched
<1>12. ReportInv
  BY <1>2, <1>5, Sequences, CallFields, FileFields DEF ReportInv
<1>. QED
  BY <1>7, <1>8, <1>9, <1>11, <1>12, TypeParts DEF ProtocolInv

LEMMA ProtocolStart == ProtocolInit => ProtocolInv
<1>. SUFFICES ASSUME ProtocolInit
              PROVE  ProtocolInv
  OBVIOUS
<1>1. TypeOK
  BY DEF ProtocolInit, TypeOK, Sequence, Event, NoEvent
<1>. QED
  BY <1>1, AgentStart DEF ProtocolInit

LEMMA ProtocolStep ==
  ASSUME ProtocolInv, [AnyNext]_protocolVars
  PROVE  ProtocolInv'
<1>p. ProtocolTypeOK /\ PcTypeOK /\ StoreInv /\ CallInv /\ WorkInv
  BY TypeParts DEF ProtocolInv
<1>1. StoreInv' /\ PcTypeOK'
  BY <1>p, StoreStep, PcTypeStep
<1>2. ProtocolTypeOK' /\ IsFiniteSet(late)'
  BY <1>1, TypeParts DEF StoreInv, ProtocolTypeOK, PcTypeOK, PcPlaces, LateOK, Call
<1>3. CallInv' /\ WorkInv' /\ InstallerInv' /\ ReportInv'
  BY <1>p, CallStep, WorkStep, InstallersStep, ReportStep
<1>. QED
  BY <1>1, <1>2, <1>3 DEF ProtocolInv

LEMMA ProtocolInvariant == ProtocolSafety => []ProtocolInv
<1>1. ProtocolInv /\ [ProtocolNext]_protocolVars => ProtocolInv'
  BY ProtocolIsAny, ProtocolStep DEF ProtocolInv
<1>. QED
  BY <1>1, ProtocolStart, PTL DEF ProtocolSafety

\* The agent's memory, its file, the calls on their way and the server's tables
\* keep their types; in particular what is reported is a report.
THEOREM ProtocolTypeCorrect == ProtocolSafety => []ProtocolTypeOK
BY ProtocolInvariant, PTL DEF ProtocolInv

\* What JobStoreProofs shows of the tables holds with this agent as their client,
\* from the start in which its PC is approved.
THEOREM StoreStaysSafe ==
  ProtocolSafety => [](OneOpenJob /\ OneJobPerRequest /\ OpenJobHasApprovedAgent
                       /\ LogMatchesJob)
<1>1. ProtocolInv => OneOpenJob /\ OneJobPerRequest /\ OpenJobHasApprovedAgent /\ LogMatchesJob
  BY DEF ProtocolInv, StoreInv, SafeInv, LogInv
<1>. QED
  BY <1>1, ProtocolInvariant, PTL

\* The agent, its crashes and its late calls put the tables through the life of a slot
\* and nothing else: a job is handed out at most once, and its outcome stays.
THEOREM AgentFillsSlot == ProtocolSafety => ImplementsSlot
<1>1. ProtocolInit => Slot!Init
  BY SlotStart DEF ProtocolInit
<1>2. ProtocolInv /\ [ProtocolNext]_protocolVars => [Slot!Next]_(Slot!vars)
  <2>. SUFFICES ASSUME ProtocolInv, [ProtocolNext]_protocolVars
                PROVE  [Slot!Next]_(Slot!vars)
    OBVIOUS
  <2>1. TypeOK /\ SafeInv /\ ProtocolTypeOK
    BY DEF ProtocolInv, StoreInv
  <2>. QED
    BY <2>1, ProtocolIsAny, StepOfStore, StepOfSlot
<1>. QED
  BY <1>1, <1>2, ProtocolInvariant, PTL DEF ProtocolSafety, ImplementsSlot, Slot!Spec

LEMMA ProtocolIsSafe == ProtocolInv => OneInstallerEver /\ ClosedMeansEnded
<1>. SUFFICES ASSUME ProtocolInv
              PROVE  OneInstallerEver /\ ClosedMeansEnded
  OBVIOUS
<1>1. ASSUME Watched = {}
      PROVE  OneInstallerEver
  <2>1. Cardinality(Watched) = 0
    BY <1>1, FS_EmptySet
  <2>. QED
    BY <2>1 DEF ProtocolInv, InstallerInv, OneInstallerEver, Watched
<1>2. ASSUME Watched # {}
      PROVE  OneInstallerEver
  <2>1. PICK j \in Watched : Watched = {j}
    BY <1>2 DEF ProtocolInv, InstallerInv
  <2>2. Cardinality(Watched) = 1
    BY <2>1, FS_Singleton
  <2>. QED
    BY <2>2 DEF ProtocolInv, InstallerInv, OneInstallerEver, Watched
<1>3. ClosedMeansEnded
  BY DEF ProtocolInv, ReportInv, Over, EndedWell, ClosedMeansEnded
<1>. QED
  BY <1>1, <1>2, <1>3

\* Whatever is lost, late, repeated or stopped, and whether or not ActiveJob.json can
\* be written, no job's installer is started twice, and of the installers that the
\* catch of Agent.ps1:50 did not let go no two run at the same time.
THEOREM InstallerStartsOnce == ProtocolSafety => []OneInstallerEver
BY ProtocolIsSafe, ProtocolInvariant, PTL

\* The log is closed only when the installer has ended, was not started and will not
\* be, or was let go by the catch of Agent.ps1:50; a job is called succeeded only when
\* the agent saw its installer end with code 0.
THEOREM ClosedJobsEnded == ProtocolSafety => []ClosedMeansEnded
BY ProtocolIsSafe, ProtocolInvariant, PTL
===============================================================================
