----------------------------- MODULE Registration -----------------------------
(***************************************************************************)
(* How a PC gets its agent and keeps it.  InstallAgent asks the server for *)
(* keys, stops the agent, replaces its files, writes the keys to three     *)
(* places one after the other and starts the agent again; an administrator *)
(* approves and revokes; the agent meanwhile goes on as in AgentProtocol,  *)
(* with the key it read at its start.                                      *)
(*                                                                         *)
(* A key is the number of the call that issued it; 0 stands for none.      *)
(* Every call of the agent is authenticated against the row of its PC; a   *)
(* row that is gone, or was made anew, answers 401.  A call of             *)
(* InstallAgent that is given up is lost or handled at any later time.     *)
(* Calls of the agent are handled before it gives them up, or never.       *)
(* InstallAgent may end between any two of its steps and is run again.     *)
(***************************************************************************)
EXTENDS AgentProtocol

CONSTANT MaxTrouble     \* bound: lost calls, ends of InstallAgent, power cuts,
                        \* revocations nobody asked for, runs nobody needs

ASSUME RegistrationAssumption == MaxTrouble \in Nat

VARIABLES agentKey, clientKey,  \* the row of the PC in agents
          lastKey,              \* keys issued so far
          saved,                \* AgentToken in Agent.json
          reportKey,            \* ReportToken in Monitoring.json
          shortcut,             \* the key in the link on the desktop
          task,                 \* DuctTapeAgent
          loaded,               \* the key the running agent has read
          place,                \* the next step of InstallAgent
          hand,                 \* $registered
          stray,                \* its calls that were given up, still on their way
          strayed,              \* one was handled since the last key was answered
          cutShort,             \* a run ended between Monitoring.json and Agent.json
          finished,             \* the key of the last complete run, if none came after
          asked,                \* a run failed and asked for the PC to be revoked
          trouble

row == <<agentKey, clientKey, lastKey>>
disk == <<saved, reportKey, shortcut>>
history == <<strayed, cutShort, finished, asked>>
regVars == <<row, disk, task, loaded, place, hand, stray, history, trouble>>
agentOutside == <<pc, memory, file, network, machine, crashes>>
allVars == <<protocolVars, regVars>>

Key == 0..lastKey
Asking == {"status", "reconnect", "join"}
Replacing == {"monitoring", "agent file", "task", "link", "start"}

RegTypeOK ==
  /\ ProtocolTypeOK
  /\ agentKey \in Key /\ clientKey \in Key
  /\ agentKey # 0 <=> Pc \in registered
  /\ lastKey \in Nat
  /\ saved \in Key /\ reportKey \in Key /\ shortcut \in Key /\ loaded \in Key
  /\ task \in {"none", "off", "on"}
  /\ place \in {"out", "stop", "check"} \cup Asking \cup Replacing
  /\ hand \in [agent : Key, client : Key]
  /\ stray \subseteq {"reconnect", "join"}
  /\ strayed \in BOOLEAN /\ cutShort \in BOOLEAN /\ asked \in BOOLEAN
  /\ finished \in Key
  /\ trouble \in 0..MaxTrouble

Empty == [agent |-> 0, client |-> 0]

RegInit ==
  /\ Init
  /\ AgentInit
  /\ agentKey = 0 /\ clientKey = 0 /\ lastKey = 0
  /\ saved = 0 /\ reportKey = 0 /\ shortcut = 0
  /\ task = "none"
  /\ loaded = 0
  /\ place = "out"
  /\ hand = Empty
  /\ stray = {}
  /\ strayed = FALSE /\ cutShort = FALSE
  /\ finished = 0
  /\ asked = FALSE
  /\ trouble = 0

Trouble == trouble < MaxTrouble /\ trouble' = trouble + 1

-------------------------------------------------------------------------------
(* The server *)

NewKey == lastKey + 1

IssuePair ==
  /\ Join(Pc)
  /\ agentKey' = NewKey /\ clientKey' = NewKey /\ lastKey' = NewKey

\* Mutant: the keys are written whether or not there is a row.
IssueClientKeyUpserts ==
  /\ OpenJobs(Pc) = {}
  /\ agentKey' = IF agentKey = 0 THEN NewKey ELSE agentKey
  /\ clientKey' = NewKey /\ lastKey' = NewKey
  /\ UNCHANGED serverVars

\* Only the key of the page is replaced; the agent keeps its own.
IssueClientKey ==
  /\ Pc \in registered
  /\ OpenJobs(Pc) = {}
  /\ clientKey' = NewKey /\ lastKey' = NewKey
  /\ UNCHANGED <<serverVars, agentKey>>

\* The agent's calls: 401, or what AgentProtocol says.
ServerAnswersAgent ==
  /\ \/ loaded = agentKey /\ ServerAnswers
     \/ /\ loaded # agentKey
        /\ call # NoCall /\ call.answer = NoAnswer
        /\ call' = Handled(call, [kind |-> "refused"])
        /\ UNCHANGED <<serverVars, pc, memory, file, late, machine, crashes>>
  /\ UNCHANGED regVars

\* A report with the token of Monitoring.json: the tokens of schools and the shared one
\* aside, it is taken from the agent of an approved PC.
ReportTaken == reportKey # 0 /\ reportKey = agentKey /\ Pc \in approved

\* What InstallAgent gave up: a reconnect was authenticated when it was sent, and is
\* about the PC, whichever key its row has by now.
ServerHandlesStray ==
  /\ \/ /\ "join" \in stray
        /\ stray' = stray \ {"join"}
        /\ \/ IssuePair
           \/ Pc \in registered /\ UNCHANGED <<serverVars, row>>
        /\ UNCHANGED strayed
     \/ /\ "reconnect" \in stray
        /\ stray' = stray \ {"reconnect"}
        /\ \/ IssueClientKey /\ strayed' = TRUE
           \/ /\ Pc \notin registered \/ OpenJobs(Pc) # {}
              /\ UNCHANGED <<serverVars, row, strayed>>
  /\ UNCHANGED <<agentOutside, disk, task, loaded, place, hand, cutShort, finished,
                 asked, trouble>>

-------------------------------------------------------------------------------
(* InstallAgent *)

Goto(next) == place' = next

\* A run that fails says so and asks for the PC to be revoked if it was registered.
Fail == Goto("out") /\ asked' = TRUE

\* A run is needed until one is complete, and when the server does not know the PC.
Needed == finished = 0 \/ agentKey # finished

\* A run that finds ActiveJob.json does nothing.
Begin ==
  /\ place = "out"
  /\ file = NoFile
  /\ IF Needed THEN UNCHANGED trouble ELSE Trouble
  /\ Goto(IF saved = 0 THEN "join" ELSE "status")
  /\ finished' = 0
  /\ UNCHANGED <<protocolVars, row, disk, task, loaded, hand, stray, strayed, cutShort,
                 asked>>

InstallerKeeps == UNCHANGED <<agentOutside, disk, task, loaded, stray, cutShort, finished,
                              trouble>>

\* The list of jobs comes with the status; a list expires.
AskStatus ==
  /\ place = "status"
  /\ \/ saved = agentKey /\ OpenJobs(Pc) = {} /\ Goto("reconnect") /\ UNCHANGED asked
     \/ saved = agentKey /\ OpenJobs(Pc) # {} /\ Fail
     \/ saved # agentKey /\ Goto("join") /\ UNCHANGED asked
  /\ IF saved = agentKey THEN ListJobs ELSE UNCHANGED serverVars
  /\ InstallerKeeps
  /\ UNCHANGED <<row, hand, strayed>>

Reconnect ==
  /\ place = "reconnect"
  /\ \/ /\ saved = agentKey
        /\ IssueClientKey
        /\ hand' = [agent |-> saved, client |-> NewKey]
        /\ strayed' = FALSE
        /\ Goto("stop")
        /\ UNCHANGED asked
     \/ /\ saved = agentKey /\ OpenJobs(Pc) # {}
        /\ Fail
        /\ UNCHANGED <<serverVars, row, hand, strayed>>
     \/ /\ saved # agentKey
        /\ Goto("join")
        /\ UNCHANGED <<serverVars, row, hand, strayed, asked>>
  /\ InstallerKeeps

JoinAgain ==
  /\ place = "join"
  /\ \/ /\ IssuePair
        /\ hand' = [agent |-> NewKey, client |-> NewKey]
        /\ strayed' = FALSE
        /\ Goto("stop")
        /\ UNCHANGED asked
     \/ /\ Pc \in registered
        /\ Fail
        /\ UNCHANGED <<serverVars, row, hand, strayed>>
  /\ InstallerKeeps

\* No answer within ten seconds.
CallGivenUp ==
  /\ place \in Asking
  /\ Trouble
  /\ \/ UNCHANGED stray
     \/ place = "join" /\ stray' = stray \cup {"join"}
     \/ place = "reconnect" /\ saved = agentKey /\ stray' = stray \cup {"reconnect"}
  /\ Fail
  /\ UNCHANGED <<protocolVars, row, disk, task, loaded, hand, strayed, cutShort, finished>>

\* Only the agent is stopped: the installer of a job goes on or not.
StopAgent ==
  /\ place = "stop"
  /\ IF task = "none"
     THEN UNCHANGED <<protocolVars, task>>
     ELSE /\ AgentEnds
          /\ alive' \in {alive, {}}
          /\ task' = "off"
          /\ UNCHANGED <<file, crashes>>
  /\ Goto("check")
  /\ UNCHANGED <<row, disk, loaded, hand, stray, history, trouble>>

\* Mutant: it does not look a second time.
CheckBlind ==
  /\ place = "check"
  /\ Goto("monitoring")
  /\ UNCHANGED <<protocolVars, row, disk, task, loaded, hand, stray, history, trouble>>

\* A job was started after the server was asked: the agent goes on with it.
CheckAgain ==
  /\ place = "check"
  /\ \/ file = NoFile /\ Goto("monitoring") /\ UNCHANGED <<task, asked>>
     \/ file # NoFile /\ Fail /\ task' = IF task = "none" THEN "none" ELSE "on"
  /\ UNCHANGED <<protocolVars, row, disk, loaded, hand, stray, strayed, cutShort,
                 finished, trouble>>

\* The steps of the replacement; each leaves the server and the agent alone.
Step(from, to) ==
  /\ place = from
  /\ Goto(to)
  /\ UNCHANGED <<protocolVars, row, loaded, stray, strayed, cutShort, trouble>>

\* Mutant: a token is only put where there was none.
WriteMonitoringOnce ==
  /\ Step("monitoring", "agent file")
  /\ reportKey' = IF reportKey = 0 THEN hand.agent ELSE reportKey
  /\ UNCHANGED <<saved, shortcut, task, hand, finished, asked>>

\* A token that is not the agent's own may be a school's and is kept.
WriteMonitoring ==
  /\ Step("monitoring", "agent file")
  /\ reportKey' = IF reportKey \in {0, saved} THEN hand.agent ELSE reportKey
  /\ UNCHANGED <<saved, shortcut, task, hand, finished, asked>>

WriteAgentFile ==
  /\ Step("agent file", "task")
  /\ saved' = hand.agent
  /\ UNCHANGED <<reportKey, shortcut, task, hand, finished, asked>>

RegisterTask ==
  /\ Step("task", "link")
  /\ task' = IF task = "none" THEN "off" ELSE task
  /\ UNCHANGED <<disk, hand, finished, asked>>

WriteLink ==
  /\ Step("link", "start")
  /\ shortcut' = hand.client
  /\ UNCHANGED <<saved, reportKey, task, hand, finished, asked>>

StartAgent ==
  /\ Step("start", "out")
  /\ task' = "on"
  /\ hand' = Empty
  /\ finished' = hand.agent
  /\ asked' = FALSE
  /\ UNCHANGED disk

\* The run ends before its next step.
RunEnds ==
  /\ hand' = Empty
  /\ cutShort' = (cutShort \/ (place = "agent file" /\ reportKey # saved))
  /\ UNCHANGED <<row, disk, stray, strayed, finished, loaded>>

\* A copy, a write or the task scheduler fails, or the window is closed.
InstallerEnds ==
  /\ place \notin Asking \cup {"out"}
  /\ Trouble
  /\ RunEnds
  /\ \/ Fail
     \/ Goto("out") /\ UNCHANGED asked
  /\ UNCHANGED <<protocolVars, task>>

InstallerStep ==
  \/ AskStatus \/ Reconnect \/ JoinAgain
  \/ StopAgent \/ CheckAgain \/ WriteMonitoring \/ WriteAgentFile
  \/ RegisterTask \/ WriteLink \/ StartAgent

-------------------------------------------------------------------------------
(* The PC, the administrator and the agent *)

\* The task is started with the machine.
PowerCut ==
  /\ Trouble
  /\ RunEnds
  /\ Goto("out")
  /\ task' = IF task = "none" THEN "none" ELSE "on"
  /\ AgentEnds
  /\ alive' = {}
  /\ UNCHANGED <<file, crashes, asked>>

\* A PC whose agent InstallAgent has left stopped is switched on again some day.
SwitchedOn ==
  /\ place = "out" /\ task = "off"
  /\ task' = "on"
  /\ UNCHANGED <<protocolVars, row, disk, loaded, place, hand, stray, history, trouble>>

AgentCrash ==
  /\ crashes < MaxCrashes
  /\ pc # "down"
  /\ crashes' = crashes + 1
  /\ AgentEnds
  /\ UNCHANGED <<alive, file, regVars>>

\* The agent reads Agent.json once.
AgentStarts ==
  /\ task = "on" /\ saved # 0
  /\ Boot
  /\ loaded' = saved
  /\ UNCHANGED <<row, disk, task, place, hand, stray, history, trouble>>

AgentWorks == AgentWork /\ UNCHANGED regVars

AgentHears ==
  /\ BootAnswered \/ ClaimAnswered \/ BeatAnswered \/ DeliverAnswered
  /\ UNCHANGED regVars

InstallerOfJobEnds == ChildExits /\ UNCHANGED regVars

ApprovePc ==
  /\ Approve(Pc)
  /\ Pc \notin approved
  /\ UNCHANGED <<agentOutside, regVars>>

\* Mutant: the row is kept, without its approval.
RevokeKeepsRow(wanted) ==
  /\ Pc \in registered
  /\ HeldJobs(Pc) = {}
  /\ wanted = asked
  /\ IF asked THEN UNCHANGED trouble ELSE Trouble
  /\ approved' = approved \ {Pc}
  /\ asked' = FALSE
  /\ UNCHANGED <<registered, setupReady, served, codes, jobs, progress, agentOutside, row,
                 disk, task, loaded, place, hand, stray, strayed, cutShort, finished>>

\* Asked for by the message of a run that failed, or not.
RevokePc(wanted) ==
  /\ Pc \in registered
  /\ Revoke(Pc)
  /\ wanted = asked
  /\ IF asked THEN UNCHANGED trouble ELSE Trouble
  /\ agentKey' = 0 /\ clientKey' = 0
  /\ asked' = FALSE
  /\ UNCHANGED <<agentOutside, lastKey, disk, task, loaded, place, hand, stray, strayed,
                 cutShort, finished>>

OrderJob == Deploy /\ UNCHANGED regVars
Look == WatchJobs /\ UNCHANGED regVars
Clock == TimePasses /\ UNCHANGED regVars
ResolveJob == ResolveInspected /\ UNCHANGED regVars

RegNext ==
  \/ Begin \/ InstallerStep \/ CallGivenUp \/ InstallerEnds
  \/ ServerAnswersAgent \/ ServerHandlesStray
  \/ PowerCut \/ SwitchedOn \/ AgentCrash \/ AgentStarts \/ AgentWorks
  \/ InstallerOfJobEnds
  \/ ApprovePc \/ (\E wanted \in BOOLEAN : RevokePc(wanted))
  \/ OrderJob \/ Look \/ Clock \/ ResolveJob

RegSafety == RegInit /\ [][RegNext]_allVars

\* Who starts a run again until one is complete, approves, revokes when asked, looks
\* at the jobs and resolves does so at some time; the machine is switched on again,
\* however often InstallAgent is run in between; the rest as in AgentProtocol.
RegFairness ==
  /\ WF_allVars(Begin)
  /\ WF_allVars(InstallerStep)
  /\ WF_allVars(ApprovePc) /\ WF_allVars(RevokePc(TRUE)) /\ WF_allVars(ResolveJob)
  /\ WF_allVars(Clock) /\ WF_allVars(Look)
  /\ SF_allVars(SwitchedOn)
  /\ WF_allVars(AgentStarts) /\ WF_allVars(AgentWorks) /\ WF_allVars(InstallerOfJobEnds)
  /\ SF_allVars(ServerAnswersAgent)
  /\ SF_allVars(AgentHears)

RegSpec == RegSafety /\ RegFairness

-------------------------------------------------------------------------------
(* Properties *)

\* After a complete run, while the server knows the PC by the keys of that run, the
\* three places agree with the row, with two exceptions: a reconnect that was given
\* up and handled later has replaced the key of the page (agent_jobs.py:223), and a
\* run that ended between Monitoring.json and Agent.json has left a token there that
\* every later run takes for a school's and keeps (InstallAgent.ps1:68).
KeysMatch ==
  finished # 0 /\ agentKey = finished =>
    /\ saved = finished
    /\ shortcut = clientKey \/ strayed
    /\ reportKey = finished \/ cutShort

\* InstallAgent replaces nothing while a job is in progress on the PC, also when one was
\* claimed after it asked the server ("파일을 변경하지 않았습니다", InstallAgent.ps1:48).
\* An installer runs on in two cases only: its agent crashed and, back again, reported
\* it interrupted, within the moment between the reconnect and the stop; or the catch
\* of Agent.ps1:50 let it go, after which neither ActiveJob.json nor the server's list
\* of jobs, the two things the script looks at, know of it.  (A heartbeat handled late,
\* which this module leaves out, could call the interrupted job running once more.)
NoJobWhileReplacing ==
  place \in Replacing =>
    /\ file = NoFile
    /\ \A j \in alive \ unwatched : jobs[j].state = "interrupted"

\* Whatever was lost, cut short or revoked, the PC is always served again: its agent
\* asks for work with a key the server knows, and its reports are taken (but for the
\* token of KeysMatch).  Unless the agent repeats for ever the report of a job that has
\* ended for the server: one that was resolved, or whose PC was revoked before the
\* answer came.
PcIsServed ==
  \/ []<>(/\ pc = "idle" /\ loaded = agentKey /\ Pc \in approved
          /\ ReportTaken \/ cutShort)
  \/ <>[](file # NoFile /\ jobs[file.job].state \in Finished)

===============================================================================
