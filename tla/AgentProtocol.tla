---------------------------- MODULE AgentProtocol -----------------------------
(***************************************************************************)
(* One PC and the job service.  Scripts/Agent.ps1 polls for a job, records *)
(* it in ActiveJob.json, runs the installer as a child process, records    *)
(* the result and repeats it until the server accepts it.                  *)
(*                                                                         *)
(* The server is JobStore, one action per call it handles.  A call of the  *)
(* agent may be handled or not before the agent gives it up after ten      *)
(* seconds; a call given up unhandled may still be handled at any later    *)
(* time, with nobody listening.  The agent or its machine may stop at any  *)
(* point and start again; ActiveJob.json survives.                         *)
(***************************************************************************)
EXTENDS JobStore, FiniteSets

CONSTANTS Pc,             \* the device id of this PC
          MaxLate,        \* bound: calls given up and still on their way
          MaxCrashes,     \* bound: stops of the agent
          FaultyDisk,     \* may a write of ActiveJob.json fail or be cut short?
          AdminResolves   \* does an administrator resolve interrupted jobs?

ASSUME AgentAssumption ==
  /\ Pc \in Device
  /\ MaxLate \in Nat /\ MaxCrashes \in Nat
  /\ FaultyDisk \in BOOLEAN /\ AdminResolves \in BOOLEAN

VARIABLES pc,        \* where Agent.ps1 is
          mine,      \* $jobId, or 0
          exitCode,  \* $exitCode, or NoExit
          file,      \* ActiveJob.json
          call,      \* the request the agent waits for, or NoCall
          late,      \* requests given up by the agent, not handled yet
          alive,     \* jobs whose installer process exists
          unwatched, \* history: jobs whose installer the agent let go while it ran
          starts,    \* how often a job's installer was started
          exitOf,    \* how it ended, NoExit if it did not end by itself
          crashes    \* stops so far

serverVars == <<agentVars, jobs, progress>>
memory == <<mine, exitCode>>
network == <<call, late>>
machine == <<alive, unwatched, starts, exitOf>>
protocolVars == <<serverVars, pc, memory, file, network, machine, crashes>>

-------------------------------------------------------------------------------
(* Values *)

NoFile == [kind |-> "none"]
TornFile == [kind |-> "torn"]
Claimed(j) == [kind |-> "claim", job |-> j]
Result(j, r) == [kind |-> "result", job |-> j, report |-> r]
File == {NoFile, TornFile} \cup {Claimed(j) : j \in JobId}
        \cup {Result(j, r) : j \in JobId, r \in Report}

Interrupted == [state |-> "interrupted", exit |-> NoExit]
StillRunning == [state |-> "running", exit |-> NoExit]

\* What the installer's process may end with: -2 stands for the codes Windows
\* shows as negative numbers, which the agent reports as 1.
ChildExit == ExitCode \cup {-2}

\* Mutant: they are reported as they are.
ReportedRaw(code) == code

Reported(code) == IF code < 0 THEN 1 ELSE code
ResultOf(code) ==
  [state |-> IF code = 0 THEN "succeeded" ELSE "failed", exit |-> code]

\* An answer is a job id, 0 for no job, or "ok" or "refused" for a report.
NoAnswer == [kind |-> "none"]
NoCall == [kind |-> "none", answer |-> NoAnswer]
ClaimCall == [kind |-> "claim", answer |-> NoAnswer]
ReportCall(j, r) == [kind |-> "report", job |-> j, report |-> r, answer |-> NoAnswer]

Waiting == {"boot wait", "claim wait", "beat wait", "deliver wait"}
LoopHead == [w \in Waiting |-> CASE w = "boot wait" -> "boot"
                                 [] w = "claim wait" -> "idle"
                                 [] w = "beat wait" -> "running"
                                 [] w = "deliver wait" -> "deliver"]

\* Nothing has run on the PC yet.
AgentInit ==
  /\ pc = "down"
  /\ mine = 0
  /\ exitCode = NoExit
  /\ file = NoFile
  /\ call = NoCall
  /\ late = {}
  /\ alive = {}
  /\ unwatched = {}
  /\ starts = [j \in JobId |-> 0]
  /\ exitOf = [j \in JobId |-> NoExit]
  /\ crashes = 0

ProtocolInit ==
  /\ registered = {Pc}
  /\ approved = {Pc}
  /\ setupReady = {Pc}
  /\ served = {Pc}
  /\ codes = [c \in Code |-> "unissued"]
  /\ jobs = [j \in JobId |-> NoRow]
  /\ progress = [j \in JobId |-> [s \in Sequence |-> NoEvent]]
  /\ AgentInit

-------------------------------------------------------------------------------
(* The server handles a call *)

Handled(c, answer) == [c EXCEPT !.answer = answer]

HandleClaim(answer) ==
  \/ /\ ClaimNothing(Pc, "yes")
     /\ answer = [kind |-> "job", job |-> 0]
  \/ \E j \in JobId :
       /\ Claim(Pc, "yes", j)
       /\ answer = [kind |-> "job", job |-> j]

HandleReport(j, report, answer) ==
  \/ /\ Update(Pc, j, report)
     /\ answer = [kind |-> "ok"]
  \/ /\ Repeats(j, report)
     /\ answer = [kind |-> "ok"]
     /\ UNCHANGED serverVars
  \/ /\ ~Repeats(j, report)
     /\ j \notin HeldJobs(Pc)
     /\ answer = [kind |-> "refused"]
     /\ UNCHANGED serverVars

Handle(c, answer) ==
  CASE c.kind = "claim" -> HandleClaim(answer)
    [] c.kind = "report" -> HandleReport(c.job, c.report, answer)

Answers == {[kind |-> "ok"], [kind |-> "refused"]}
           \cup [kind : {"job"}, job : JobId \cup {0}]

ServerAnswers ==
  /\ call # NoCall
  /\ call.answer = NoAnswer
  /\ \E answer \in Answers :
       /\ Handle(call, answer)
       /\ call' = Handled(call, answer)
  /\ UNCHANGED <<pc, memory, file, late, machine, crashes>>

ServerHandlesLate ==
  /\ \E c \in late :
       /\ \E answer \in Answers : Handle(c, answer)
       /\ late' = late \ {c}
  /\ UNCHANGED <<pc, memory, file, call, machine, crashes>>

\* A call given up before it was handled is lost or still on its way.
GiveUp ==
  /\ call' = NoCall
  /\ \/ late' = late
     \/ /\ call # NoCall
        /\ call.answer = NoAnswer
        /\ Cardinality(late \cup {call}) <= MaxLate
        /\ late' = late \cup {call}

\* The agent's turn: it sends a call, or it has the answer to the one it sent.
Send(c, where) ==
  /\ call' = c
  /\ pc' = where
  /\ UNCHANGED <<serverVars, memory, file, late, machine, crashes>>

Answered(where, kind) ==
  /\ pc = where
  /\ call # NoCall
  /\ call.answer.kind = kind
  /\ call' = NoCall
  /\ UNCHANGED <<serverVars, late, machine, crashes>>

Refused(where, back) ==
  /\ Answered(where, "refused")
  /\ pc' = back
  /\ UNCHANGED <<memory, file>>

\* Ten seconds have passed; the catch of the loop the call is in goes round.
Timeout ==
  /\ pc \in Waiting
  /\ GiveUp
  /\ pc' = LoopHead[pc]
  /\ UNCHANGED <<serverVars, memory, file, machine, crashes>>

-------------------------------------------------------------------------------
(* The startup loop: what a previous run left in ActiveJob.json *)

Boot ==
  /\ pc = "down"
  /\ pc' = "boot"
  /\ UNCHANGED <<serverVars, memory, file, network, machine, crashes>>

BootDone ==
  /\ pc = "boot"
  /\ file = NoFile
  /\ pc' = "idle"
  /\ UNCHANGED <<serverVars, memory, file, network, machine, crashes>>

\* Mutant: a claim left behind is taken up again.
BootResumes ==
  /\ pc = "boot"
  /\ \/ /\ file.kind = "result"
        /\ Send(ReportCall(file.job, file.report), "boot wait")
     \/ /\ file.kind = "claim"
        /\ pc' = "start"
        /\ mine' = file.job
        /\ UNCHANGED <<serverVars, exitCode, file, network, machine, crashes>>

\* Mutant: whatever was left behind is called an interruption.
BootForgets ==
  /\ pc = "boot"
  /\ file.kind \in {"claim", "result"}
  /\ Send(ReportCall(file.job, Interrupted), "boot wait")

\* Mutant: an installer nobody waited for is called a failure.
BootCallsFailed ==
  /\ pc = "boot"
  /\ \/ /\ file.kind = "result"
        /\ Send(ReportCall(file.job, file.report), "boot wait")
     \/ /\ file.kind = "claim"
        /\ Send(ReportCall(file.job, ResultOf(1)), "boot wait")

\* A file that cannot be parsed keeps the agent in this loop.
BootSend ==
  /\ pc = "boot"
  /\ \/ /\ file.kind = "result"
        /\ Send(ReportCall(file.job, file.report), "boot wait")
     \/ /\ file.kind = "claim"
        /\ Send(ReportCall(file.job, Interrupted), "boot wait")

\* Mutant: the file is kept and reported again.
BootKeepsFile ==
  \/ /\ Answered("boot wait", "ok")
     /\ pc' = "boot"
     /\ UNCHANGED <<memory, file>>
  \/ Refused("boot wait", "boot")

BootAnswered ==
  \/ /\ Answered("boot wait", "ok")
     /\ file' = NoFile
     /\ pc' = "boot"
     /\ UNCHANGED memory
  \/ Refused("boot wait", "boot")

-------------------------------------------------------------------------------
(* The main loop *)

ClaimSend == pc = "idle" /\ Send(ClaimCall, "claim wait")

ClaimAnswered ==
  /\ Answered("claim wait", "job")
  /\ IF call.answer.job = 0
     THEN pc' = "idle" /\ UNCHANGED mine
     ELSE pc' = "claimed" /\ mine' = call.answer.job
  /\ UNCHANGED <<exitCode, file>>

\* A write that fails throws to the end of the loop body; the file then holds
\* what it held before or a part of the new text.
WriteFails ==
  /\ FaultyDisk
  /\ file' \in {file, TornFile}
  /\ pc' = "idle"

WriteClaim ==
  /\ pc = "claimed"
  /\ \/ file' = Claimed(mine) /\ pc' = "start"
     \/ WriteFails
  /\ UNCHANGED <<serverVars, memory, network, machine, crashes>>

\* Start-Process has made the installer's process.
Launch ==
  /\ alive' = alive \cup {mine}
  /\ starts' = [starts EXCEPT ![mine] = @ + 1]

\* The one catch around the start and the wait: the job has failed, and nobody looks
\* at its installer again.
LetGo ==
  /\ exitCode' = 1
  /\ pc' = "exited"
  /\ unwatched' = unwatched \cup {mine}

\* Without a process or without its handle there is nothing to wait for.
StartChild ==
  /\ pc = "start"
  /\ \/ Launch /\ pc' = "running" /\ UNCHANGED <<exitCode, unwatched>>
     \/ Launch /\ LetGo
     \/ exitCode' = 1 /\ pc' = "exited" /\ UNCHANGED <<alive, starts, unwatched>>
  /\ UNCHANGED <<serverVars, mine, file, network, exitOf, crashes>>

BeatSend ==
  /\ pc = "running"
  /\ mine \in alive
  /\ Send(ReportCall(mine, StillRunning), "beat wait")

BeatAnswered ==
  \/ /\ Answered("beat wait", "ok")
     /\ pc' = "running"
     /\ UNCHANGED <<memory, file>>
  \/ Refused("beat wait", "running")

\* The installer ends by itself.
ChildExits ==
  /\ \E j \in alive, code \in ChildExit :
       /\ alive' = alive \ {j}
       /\ exitOf' = [exitOf EXCEPT ![j] = code]
  /\ UNCHANGED <<serverVars, pc, memory, file, network, unwatched, starts, crashes>>

\* The wait for an installer that is still at work throws.
WaitFails ==
  /\ pc = "running"
  /\ mine \in alive
  /\ LetGo
  /\ UNCHANGED <<serverVars, mine, file, network, alive, starts, exitOf, crashes>>

\* An exit code that cannot be read counts as 1.
SeeExit ==
  /\ pc = "running"
  /\ mine \notin alive
  /\ exitCode' \in {Reported(exitOf[mine]), 1}
  /\ pc' = "exited"
  /\ UNCHANGED <<serverVars, mine, file, network, machine, crashes>>

WriteResult ==
  /\ pc = "exited"
  /\ \/ file' = Result(mine, ResultOf(exitCode)) /\ pc' = "deliver"
     \/ WriteFails
  /\ UNCHANGED <<serverVars, memory, network, machine, crashes>>

DeliverSend ==
  /\ pc = "deliver"
  /\ Send(ReportCall(mine, ResultOf(exitCode)), "deliver wait")

DeliverAnswered ==
  \/ /\ Answered("deliver wait", "ok")
     /\ file' = NoFile
     /\ pc' = "idle"
     /\ UNCHANGED memory
  \/ Refused("deliver wait", "deliver")

-------------------------------------------------------------------------------
(* Stops, the administrator and the clock *)

\* The agent's process ends, and with it what it knew.
AgentEnds ==
  /\ pc' = "down"
  /\ mine' = 0
  /\ exitCode' = NoExit
  /\ GiveUp
  /\ UNCHANGED <<serverVars, unwatched, starts, exitOf>>

\* The installer is a process of its own: it goes on unless the machine stops too.
Crash ==
  /\ crashes < MaxCrashes
  /\ pc # "down"
  /\ crashes' = crashes + 1
  /\ AgentEnds
  /\ alive' \in {alive, {}}
  /\ \/ file' = file
     \/ FaultyDisk /\ pc \in {"claimed", "exited"} /\ file' = TornFile

outside == <<pc, memory, file, network, machine, crashes>>

Deploy == (\E r \in Request : Enqueue(Pc, "deploy", r, TRUE)) /\ UNCHANGED outside

WatchJobs == ListJobs /\ UNCHANGED outside

TimePasses == Tick /\ UNCHANGED outside

\* The portal asks the administrator to confirm that the installer has ended.
ResolveInspected ==
  /\ AdminResolves
  /\ \E j \in JobId \ alive : Resolve(j)
  /\ UNCHANGED outside

\* What a running agent does next.
AgentWork ==
  \/ BootDone \/ BootSend \/ BootAnswered
  \/ ClaimSend \/ ClaimAnswered \/ WriteClaim \/ StartChild
  \/ BeatSend \/ BeatAnswered \/ WaitFails \/ SeeExit \/ WriteResult
  \/ DeliverSend \/ DeliverAnswered \/ Timeout

ProtocolNext ==
  \/ Boot \/ AgentWork \/ ServerAnswers \/ ServerHandlesLate
  \/ ChildExits \/ Crash
  \/ Deploy \/ WatchJobs \/ TimePasses \/ ResolveInspected

ProtocolSafety == ProtocolInit /\ [][ProtocolNext]_protocolVars

\* The agent runs whenever its machine does and is started again by its task; a
\* call repeated for ever is handled and answered at some time; the installer ends;
\* clocks run.
Fairness ==
  /\ WF_protocolVars(Boot) /\ WF_protocolVars(BootDone) /\ WF_protocolVars(BootSend)
  /\ WF_protocolVars(ClaimSend) /\ WF_protocolVars(WriteClaim)
  /\ WF_protocolVars(StartChild) /\ WF_protocolVars(SeeExit)
  /\ WF_protocolVars(WriteResult) /\ WF_protocolVars(DeliverSend)
  /\ WF_protocolVars(Timeout) /\ WF_protocolVars(ChildExits)
  /\ WF_protocolVars(TimePasses)
  /\ SF_protocolVars(ServerAnswers)
  /\ SF_protocolVars(BootAnswered) /\ SF_protocolVars(ClaimAnswered)
  /\ SF_protocolVars(DeliverAnswered)

ProtocolSpec == ProtocolSafety /\ Fairness

-------------------------------------------------------------------------------
(* Properties *)

ProtocolTypeOK ==
  /\ TypeOK
  /\ pc \in Waiting \cup {"down", "boot", "idle", "claimed", "start", "running",
                          "exited", "deliver"}
  /\ mine \in JobId \cup {0}
  /\ exitCode \in ExitCode \cup {NoExit}
  /\ file \in File
  /\ call \in [kind : {"none"}, answer : {NoAnswer}]
              \cup [kind : {"claim"}, answer : Answers \cup {NoAnswer}]
              \cup [kind : {"report"}, job : JobId, report : Report,
                    answer : Answers \cup {NoAnswer}]
  /\ \A c \in late : c = ClaimCall \/ \E j \in JobId, r \in Report : c = ReportCall(j, r)
  /\ Cardinality(late) <= MaxLate
  /\ alive \subseteq JobId /\ unwatched \subseteq JobId
  /\ starts \in [JobId -> Nat]
  /\ exitOf \in [JobId -> ChildExit \cup {NoExit}]
  /\ crashes \in 0..MaxCrashes

\* Whatever is lost, repeated, delayed or stopped, a job's installer is started at
\* most once ("A persisted claim is never automatically executed a second time",
\* Agent.ps1:18), and never beside another one.  Except one: an installer that the
\* catch of Agent.ps1:50 let go runs on while the agent reports its job failed and
\* takes the next one.
OneInstallerEver ==
  /\ \A j \in JobId : starts[j] <= 1
  /\ Cardinality(alive \ unwatched) <= 1

\* A closing event in the log of a job means that its installer has ended, or was let
\* go by the catch of Agent.ps1:50; and success means that the agent saw it end with
\* exit code 0, however stale the report that said so.  (The log of a resolved job is
\* not closed: the agent may have been about to start the installer when the
\* administrator looked.)
ClosedMeansEnded ==
  \A j \in JobId :
    /\ progress[j][FinalSequence] # NoEvent
         => starts[j] = 0 \/ exitOf[j] # NoExit \/ j \in unwatched
    /\ jobs[j].state = "succeeded" => exitOf[j] = 0 /\ j \notin unwatched

\* A result in ActiveJob.json reaches the server, restarts included
\* (docs/V2_PLAN.md: results not sent before a restart are sent again).
ResultDelivered ==
  \A j \in JobId :
    (file.kind = "result" /\ file.job = j) ~> jobs[j].state \in Finished

\* No job is called running for ever, although the answer to its claim was lost, its
\* agent stopped, or a stale heartbeat calls a parked job running once more.
RunningEnds ==
  \A j \in JobId : jobs[j].state = "running" ~> jobs[j].state # "running"

\* However often it stops, the agent comes back to asking for work.
AgentReturns == []<>(pc = "idle")

\* A queued job does not wait for ever (docs/NEXT_WORK_PLAN.md: a failed job can be
\* requested anew once its state was inspected).
QueuedIsClaimed ==
  \A j \in JobId : jobs[j].state = "queued" ~> jobs[j].state # "queued"

===============================================================================
