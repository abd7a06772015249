-------------------------- MODULE RegistrationProofs ---------------------------
(***************************************************************************)
(* Proofs about Registration, for any number of runs of InstallAgent, keys *)
(* issued, calls lost and stops of the PC.                                 *)
(*                                                                         *)
(* The agent of Registration takes the steps of AgentProtocol or one of    *)
(* those AgentProtocolProofs adds to them (AnyNext), so the invariant      *)
(* proved there holds here too, from tables in which the PC is not even    *)
(* known.  What is added is about InstallAgent: which keys the three       *)
(* places hold at each of its steps, and what runs on the PC meanwhile.    *)
(***************************************************************************)
EXTENDS Registration, AgentProtocolProofs

USE RegistrationAssumption

-------------------------------------------------------------------------------
(* The inductive invariant *)

\* RegTypeOK but for the variables of AgentProtocol.
RegVarsOK ==
  /\ agentKey \in Key /\ clientKey \in Key
  /\ agentKey # 0 <=> Pc \in registered
  /\ lastKey \in Nat
  /\ saved \in Key /\ reportKey \in Key /\ shortcut \in Key /\ loaded \in Key
  /\ task \in {"none", "off", "on"}
  /\ place \in {"out", "stop", "check"} \cup Asking \cup Replacing
  /\ hand \in [agent : Key, client : Key]
  /\ stray \subseteq {"reconnect", "join"}
  /\ strayed \in BOOLEAN /\ cutShort \in BOOLEAN /\ asked \in BOOLEAN
  /\ finished \in Key
  /\ trouble \in 0..MaxTrouble

\* A run has its keys and has not written all of them yet.
Installing == {"stop", "check"} \cup Replacing

\* The keys a run carries, and where they are by now.
HandInv ==
  /\ place \in Installing =>
       /\ hand.agent # 0
       /\ agentKey = hand.agent => hand.client = clientKey \/ strayed
  /\ place \in {"task", "link", "start"} => saved = hand.agent
  /\ place = "start" => shortcut = hand.client

\* Monitoring.json is written before Agent.json.
TokenInv ==
  \/ cutShort
  \/ place = "agent file" /\ reportKey = hand.agent
  \/ place # "agent file" /\ reportKey = saved

FinishedInv ==
  finished # 0 =>
    /\ place = "out"
    /\ saved = finished
    /\ agentKey = finished => shortcut = clientKey \/ strayed

\* The agent is down from the stop to the start, and has left no claim behind.
StoppedInv ==
  /\ task = "none" => pc = "down"
  /\ place \in {"check"} \cup Replacing => pc = "down" /\ task # "on"
  /\ place \in Replacing => file = NoFile

\* What the agent reports of a job follows from where it is.
CallsInv ==
  /\ pc = "exited" => file = Claimed(mine)
  /\ pc \in {"deliver", "deliver wait"} => file.kind = "result"
  /\ file.kind = "result" => file.report.state \in Finished
  /\ call.kind = "report" /\ call.report.state = "running" => pc = "beat wait"
  /\ pc = "beat wait" => call.job = mine

\* An installer that was not let go and whose claim is not in ActiveJob.json any more
\* was reported interrupted, and is called nothing else while it runs.
ParkedInv ==
  /\ \A j \in Watched : jobs[j].state = "interrupted" \/ file = Claimed(j)
  /\ pc = "boot wait" /\ call.answer.kind = "ok" /\ call.job \in Watched
       => jobs[call.job].state = "interrupted"

RegInv ==
  /\ ProtocolInv
  /\ RegVarsOK
  /\ HandInv /\ TokenInv /\ FinishedInv
  /\ StoppedInv /\ CallsInv /\ ParkedInv

LEMMA RegTypeParts == RegTypeOK <=> ProtocolTypeOK /\ RegVarsOK
BY DEF RegTypeOK, RegVarsOK

-------------------------------------------------------------------------------
(* The steps *)

\* The steps that leave InstallAgent, its keys and its files alone.
InstallerRests ==
  \/ ServerAnswersAgent \/ AgentCrash \/ AgentWorks \/ InstallerOfJobEnds
  \/ ApprovePc \/ OrderJob \/ Look \/ Clock \/ ResolveJob
  \/ UNCHANGED allVars

\* The steps that leave the agent and the server's tables alone.
LocalStep ==
  \/ Begin \/ Reconnect \/ CallGivenUp \/ CheckAgain
  \/ WriteMonitoring \/ WriteAgentFile \/ RegisterTask \/ WriteLink \/ StartAgent
  \/ InstallerEnds \/ SwitchedOn

LEMMA StepKinds ==
  ASSUME [RegNext]_allVars
  PROVE  \/ InstallerRests \/ LocalStep \/ AskStatus \/ JoinAgain \/ StopAgent
         \/ ServerHandlesStray \/ PowerCut \/ AgentStarts
         \/ \E wanted \in BOOLEAN : RevokePc(wanted)
BY DEF RegNext, InstallerStep, InstallerRests, LocalStep

LEMMA LocalStepsLeaveProtocol == LocalStep => UNCHANGED protocolVars
<1>1. Begin \/ CallGivenUp \/ CheckAgain \/ InstallerEnds \/ SwitchedOn
        => UNCHANGED protocolVars
  BY DEF Begin, CallGivenUp, CheckAgain, InstallerEnds, SwitchedOn
<1>2. WriteMonitoring \/ WriteAgentFile \/ RegisterTask \/ WriteLink \/ StartAgent
        => UNCHANGED protocolVars
  BY DEF WriteMonitoring, WriteAgentFile, RegisterTask, WriteLink, StartAgent, Step
<1>3. Reconnect => UNCHANGED protocolVars
  BY DEF Reconnect, IssueClientKey, InstallerKeeps, agentOutside, protocolVars
<1>. QED
  BY <1>1, <1>2, <1>3 DEF LocalStep

LEMMA AnswersAgent == ServerAnswersAgent => ServerResponds
BY DEF ServerAnswersAgent, ServerAnswers, ServerResponds, Answers

LEMMA RestingLeavesKeys ==
  ASSUME ProtocolTypeOK, InstallerRests
  PROVE  UNCHANGED regVars /\ registered' = registered
<1>1. CASE ServerAnswersAgent
  <2>1. PICK answer \in Answers : ServerTakes(call, answer)
    BY <1>1, AnswersAgent, Answering
  <2>2. registered' = registered
    BY <2>1 DEF ServerTakes, HandleClaim, HandleReport, ClaimNothing, Claim, Update,
                serverVars, agentVars
  <2>. QED
    BY <1>1, <2>2 DEF ServerAnswersAgent
<1>2. CASE AgentCrash \/ AgentWorks \/ InstallerOfJobEnds
  BY <1>2, PcStepsLeaveTables
  DEF AgentCrash, AgentEnds, AgentWorks, InstallerOfJobEnds, PcStep, serverVars, agentVars
<1>3. CASE ApprovePc
  BY <1>3 DEF ApprovePc, Approve
<1>4. CASE OrderJob \/ Look \/ Clock \/ ResolveJob
  BY <1>4 DEF OrderJob, Deploy, Enqueue, InsertJob, Look, WatchJobs, ListJobs, Clock,
              TimePasses, Tick, ResolveJob, ResolveInspected, Resolve, agentVars
<1>5. CASE UNCHANGED allVars
  BY <1>5 DEF allVars, protocolVars, serverVars, agentVars
<1>. QED
  BY <1>1, <1>2, <1>3, <1>4, <1>5 DEF InstallerRests

\* AnyNext without the handling of late calls, which is no step of Registration.
PromptNext ==
  \/ Boot \/ AgentWork \/ ServerResponds
  \/ ChildExits \/ AgentStops \/ OutsideStep

LEMMA PromptIsAny == [PromptNext]_protocolVars => [AnyNext]_protocolVars
BY DEF PromptNext, AnyNext

\* Every step is one the invariant of AgentProtocolProofs is kept by.
LEMMA RegIsPrompt ==
  ASSUME ProtocolTypeOK, [RegNext]_allVars
  PROVE  [PromptNext]_protocolVars
<1>. USE DEF PromptNext, OutsideStep
<1>a. ASSUME AgentEnds, alive' \in {alive, {}}, file' = file,
             crashes' = crashes \/ (crashes < MaxCrashes /\ crashes' = crashes + 1)
      PROVE  AgentStops
  BY <1>a, CrashCounted DEF AgentStops, ProtocolTypeOK
<1>1. CASE InstallerRests
  <2>1. CASE ServerAnswersAgent
    BY <2>1, AnswersAgent
  <2>2. CASE AgentCrash
    BY <1>a, <2>2 DEF AgentCrash
  <2>3. CASE ApprovePc
    BY <2>3 DEF ApprovePc, Admits, agentOutside, outside
  <2>4. CASE AgentWorks \/ InstallerOfJobEnds \/ OrderJob \/ Look \/ Clock \/ ResolveJob
    BY <2>4 DEF AgentWorks, InstallerOfJobEnds, OrderJob, Look, Clock, ResolveJob
  <2>5. CASE UNCHANGED allVars
    BY <2>5 DEF allVars
  <2>. QED
    BY <1>1, <2>1, <2>2, <2>3, <2>4, <2>5 DEF InstallerRests
<1>2. CASE LocalStep
  BY <1>2, LocalStepsLeaveProtocol
<1>3. CASE AskStatus
  BY <1>3 DEF AskStatus, InstallerKeeps, agentOutside, WatchJobs, outside, protocolVars
<1>4. CASE JoinAgain
  BY <1>4 DEF JoinAgain, IssuePair, InstallerKeeps, agentOutside, Admits, outside,
              protocolVars
<1>5. CASE StopAgent
  BY <1>5, <1>a DEF StopAgent
<1>6. CASE ServerHandlesStray
  BY <1>6 DEF ServerHandlesStray, IssuePair, IssueClientKey, agentOutside, Admits, outside,
              protocolVars
<1>7. CASE PowerCut
  BY <1>7, <1>a DEF PowerCut
<1>8. CASE AgentStarts
  BY <1>8 DEF AgentStarts
<1>9. ASSUME NEW wanted \in BOOLEAN, RevokePc(wanted)
      PROVE  Admits
  BY <1>9 DEF RevokePc, Admits, agentOutside, outside
<1>. QED
  BY <1>1, <1>2, <1>3, <1>4, <1>5, <1>6, <1>7, <1>8, <1>9, StepKinds

-------------------------------------------------------------------------------
(* Types *)

\* Later states know at least the keys of earlier ones.
LEMMA KeysStay ==
  ASSUME lastKey \in Nat, lastKey' \in Nat, lastKey <= lastKey', NEW k \in Key
  PROVE  k \in Key'
BY DEF Key

LEMMA NewKeyIsNew ==
  ASSUME lastKey \in Nat
  PROVE  /\ NewKey \in Nat /\ NewKey # 0 /\ lastKey <= NewKey
         /\ \A k \in Key : k # NewKey
         /\ lastKey' = NewKey => NewKey \in Key'
BY DEF NewKey, Key

LEMMA NoKey ==
  ASSUME lastKey \in Nat
  PROVE  0 \in Key /\ Empty \in [agent : Key, client : Key]
<1>1. 0 \in Key
  BY DEF Key
<1>. QED
  BY <1>1 DEF Empty

LEMMA TroubleCounted ==
  ASSUME trouble \in 0..MaxTrouble, Trouble
  PROVE  trouble' \in 0..MaxTrouble
BY DEF Trouble

\* What is asked of a step that leaves the row and the keys alone.
LEMMA SameKeys ==
  ASSUME RegVarsOK, UNCHANGED row, registered' = registered
  PROVE  /\ agentKey' \in Key' /\ clientKey' \in Key' /\ lastKey' \in Nat
         /\ agentKey' # 0 <=> Pc \in registered'
         /\ Key' = Key
BY DEF RegVarsOK, row, Key

LEMMA RegTypeStep ==
  ASSUME ProtocolTypeOK, RegVarsOK, [RegNext]_allVars
  PROVE  RegVarsOK'
<1>. USE DEF RegVarsOK, Asking, Replacing
<1>n. lastKey \in Nat /\ NewKey \in Nat
  BY NewKeyIsNew
<1>e. 0 \in Key /\ Empty \in [agent : Key, client : Key]
  BY NoKey
<1>r. UNCHANGED serverVars => registered' = registered
  BY DEF serverVars, agentVars
<1>p. UNCHANGED protocolVars => registered' = registered
  BY <1>r DEF protocolVars
<1>1. CASE InstallerRests
  BY <1>1, RestingLeavesKeys DEF regVars, row, disk, history, Key
<1>2. CASE LocalStep
  <2>r. registered' = registered
    BY <1>2, <1>p, LocalStepsLeaveProtocol
  <2>1. CASE Begin
    BY <2>r, <2>1, SameKeys, TroubleCounted DEF Begin, Goto, disk, Key
  <2>2. CASE Reconnect
    <3>1. CASE IssueClientKey /\ hand' = [agent |-> saved, client |-> NewKey]
               /\ strayed' = FALSE /\ Goto("stop") /\ UNCHANGED asked
      <4>1. lastKey' = NewKey /\ clientKey' = NewKey /\ agentKey' = agentKey
        BY <3>1 DEF IssueClientKey
      <4>2. \A k \in Key : k \in Key'
        BY <1>n, <4>1, KeysStay, NewKeyIsNew
      <4>3. NewKey \in Key'
        BY <4>1, NewKeyIsNew
      <4>4. hand' \in [agent : Key', client : Key']
        BY <3>1, <4>2, <4>3
      <4>. QED
        BY <1>n, <2>r, <2>2, <3>1, <4>1, <4>2, <4>3, <4>4
        DEF Reconnect, InstallerKeeps, Goto, disk
    <3>2. CASE UNCHANGED <<row, hand, strayed>> /\ (Fail \/ (Goto("join") /\ UNCHANGED asked))
      BY <2>r, <2>2, <3>2, SameKeys DEF Reconnect, InstallerKeeps, Goto, Fail, disk
    <3>. QED
      BY <2>2, <3>1, <3>2 DEF Reconnect
  <2>3. CASE CallGivenUp
    BY <2>r, <2>3, SameKeys, TroubleCounted DEF CallGivenUp, Goto, Fail, disk
  <2>4. CASE CheckAgain
    BY <2>r, <2>4, SameKeys DEF CheckAgain, Goto, Fail, disk
  <2>5. CASE WriteMonitoring \/ WriteAgentFile \/ WriteLink
    BY <2>r, <2>5, SameKeys
    DEF WriteMonitoring, WriteAgentFile, WriteLink, Step, Goto, row, Key
  <2>6. CASE RegisterTask
    BY <2>r, <2>6, SameKeys DEF RegisterTask, Step, Goto, disk
  <2>7. CASE StartAgent
    <3>1. finished' \in Key
      BY <2>7 DEF StartAgent
    <3>. QED
      BY <1>e, <2>r, <2>7, <3>1, SameKeys DEF StartAgent, Step, Goto, disk
  <2>8. CASE InstallerEnds
    <3>1. place' = "out" /\ cutShort' \in BOOLEAN /\ asked' \in BOOLEAN
      BY <2>8 DEF InstallerEnds, RunEnds, Goto, Fail
    <3>. QED
      BY <1>e, <2>r, <2>8, <3>1, SameKeys, TroubleCounted DEF InstallerEnds, RunEnds, disk
  <2>9. CASE SwitchedOn
    BY <2>r, <2>9, SameKeys DEF SwitchedOn, disk, history
  <2>. QED
    BY <1>2, <2>1, <2>2, <2>3, <2>4, <2>5, <2>6, <2>7, <2>8, <2>9 DEF LocalStep
<1>3. CASE AskStatus
  <2>1. registered' = registered
    BY <1>3, <1>r DEF AskStatus, ListJobs, agentVars
  <2>. QED
    BY <1>3, <2>1, SameKeys DEF AskStatus, InstallerKeeps, Goto, Fail, disk
<1>4. ASSUME IssuePair
      PROVE  /\ agentKey' \in Key' /\ clientKey' \in Key' /\ lastKey' \in Nat
             /\ agentKey' # 0 <=> Pc \in registered'
             /\ NewKey \in Key' /\ \A k \in Key : k \in Key'
  <2>1. /\ agentKey' = NewKey /\ clientKey' = NewKey /\ lastKey' = NewKey
        /\ registered' = registered \cup {Pc}
    BY <1>4 DEF IssuePair, Join
  <2>2. NewKey \in Key' /\ NewKey # 0 /\ \A k \in Key : k \in Key'
    BY <1>n, <2>1, NewKeyIsNew, KeysStay
  <2>. QED
    BY <1>n, <2>1, <2>2
<1>5. CASE JoinAgain
  <2>1. CASE IssuePair /\ hand' = [agent |-> NewKey, client |-> NewKey] /\ strayed' = FALSE
             /\ Goto("stop") /\ UNCHANGED asked
    <3>1. hand' \in [agent : Key', client : Key']
      BY <1>4, <2>1
    <3>. QED
      BY <1>4, <1>5, <2>1, <3>1 DEF JoinAgain, InstallerKeeps, Goto, disk
  <2>2. CASE Fail /\ UNCHANGED <<serverVars, row, hand, strayed>>
    BY <1>5, <1>r, <2>2, SameKeys DEF JoinAgain, InstallerKeeps, Goto, Fail, disk
  <2>. QED
    BY <1>5, <2>1, <2>2 DEF JoinAgain
<1>6. CASE StopAgent
  <2>1. registered' = registered
    BY <1>6, <1>r, <1>p DEF StopAgent, AgentEnds
  <2>. QED
    BY <1>6, <2>1, SameKeys DEF StopAgent, Goto, disk, history
<1>7. CASE ServerHandlesStray
  <2>k. UNCHANGED <<disk, task, loaded, place, hand, cutShort, finished, asked, trouble>>
        /\ stray' \subseteq stray /\ strayed' \in BOOLEAN
    BY <1>7 DEF ServerHandlesStray
  <2>1. CASE IssuePair
    <3>1. hand \in [agent : Key', client : Key']
      BY <1>4, <2>1
    <3>. QED
      BY <1>4, <2>k, <2>1, <3>1 DEF disk
  <2>2. CASE IssueClientKey
    <3>1. /\ lastKey' = NewKey /\ clientKey' = NewKey /\ agentKey' = agentKey
          /\ registered' = registered
      BY <1>r, <2>2 DEF IssueClientKey
    <3>2. NewKey \in Key' /\ \A k \in Key : k \in Key'
      BY <1>n, <3>1, KeysStay, NewKeyIsNew
    <3>3. hand \in [agent : Key', client : Key']
      BY <3>2
    <3>. QED
      BY <1>n, <2>k, <3>1, <3>2, <3>3 DEF disk
  <2>3. CASE UNCHANGED <<serverVars, row>>
    BY <1>r, <2>k, <2>3, SameKeys DEF disk
  <2>. QED
    BY <1>7, <2>1, <2>2, <2>3 DEF ServerHandlesStray
<1>8. CASE PowerCut
  <2>1. registered' = registered
    BY <1>8, <1>r DEF PowerCut, AgentEnds
  <2>. QED
    BY <1>8, <1>e, <2>1, SameKeys, TroubleCounted DEF PowerCut, RunEnds, Goto, disk
<1>9. CASE AgentStarts
  <2>1. registered' = registered
    BY <1>9, <1>r DEF AgentStarts, Boot
  <2>. QED
    BY <1>9, <2>1, SameKeys DEF AgentStarts, disk, history
<1>10. ASSUME NEW wanted \in BOOLEAN, RevokePc(wanted)
       PROVE  RegVarsOK'
  <2>1. registered' = registered \ {Pc}
    BY <1>10 DEF RevokePc, Revoke
  <2>2. Key' = Key
    BY <1>10 DEF RevokePc, Key
  <2>3. hand' \in [agent : Key', client : Key']
    BY <1>10, <2>2 DEF RevokePc
  <2>. QED
    BY <1>10, <1>e, <2>1, <2>2, <2>3, TroubleCounted DEF RevokePc, disk
<1>. QED
  BY <1>1, <1>2, <1>3, <1>5, <1>6, <1>7, <1>8, <1>9, <1>10, StepKinds

-------------------------------------------------------------------------------
(* The keys *)

KeyInv == HandInv /\ TokenInv /\ FinishedInv

\* A key of the row that is replaced is no longer the key of any run; only a stray
\* reconnect replaces the key of the page alone.
RowChanges ==
  \/ UNCHANGED <<agentKey, clientKey>> /\ (strayed => strayed')
  \/ agentKey' = agentKey /\ strayed'
  \/ agentKey' \notin Key \ {0}

LEMMA KeysOfRow ==
  ASSUME RegVarsOK, KeyInv, RowChanges,
         UNCHANGED <<disk, place, hand, cutShort, finished>>
  PROVE  KeyInv'
<1>1. hand.agent \in Key /\ finished \in Key
  BY DEF RegVarsOK
<1>2. ASSUME place \in Installing, agentKey' = hand.agent
      PROVE  hand.client = clientKey' \/ strayed'
  <2>1. hand.agent # 0
    BY <1>2 DEF KeyInv, HandInv
  <2>2. agentKey = hand.agent => hand.client = clientKey \/ strayed
    BY <1>2 DEF KeyInv, HandInv
  <2>. QED
    BY <1>1, <1>2, <2>1, <2>2 DEF RowChanges
<1>3. HandInv'
  BY <1>2 DEF KeyInv, HandInv, disk
<1>4. TokenInv'
  BY DEF KeyInv, TokenInv, disk
<1>5. FinishedInv'
  BY <1>1 DEF RowChanges, KeyInv, FinishedInv, disk
<1>. QED
  BY <1>3, <1>4, <1>5 DEF KeyInv

LEMMA KeyStep ==
  ASSUME ProtocolTypeOK, RegVarsOK, KeyInv, [RegNext]_allVars
  PROVE  KeyInv'
<1>. USE DEF Asking, Replacing, Installing, Goto
<1>n. NewKey \notin Key /\ NewKey # 0
  BY NewKeyIsNew DEF RegVarsOK
<1>1. CASE InstallerRests
  BY <1>1, RestingLeavesKeys, KeysOfRow DEF regVars, row, disk, history, RowChanges
<1>2. CASE Begin
  BY <1>2 DEF Begin, KeyInv, HandInv, TokenInv, FinishedInv, disk
<1>a. ASSUME place \in Asking, place' \in {"out"} \cup Asking, UNCHANGED disk,
             UNCHANGED <<cutShort, finished>>
      PROVE  KeyInv'
  BY <1>a DEF KeyInv, HandInv, TokenInv, FinishedInv, disk
<1>b. ASSUME place \in Asking, place' = "stop", UNCHANGED <<disk, cutShort, finished>>,
             hand'.agent # 0, agentKey' = hand'.agent => hand'.client = clientKey'
      PROVE  KeyInv'
  BY <1>b DEF KeyInv, HandInv, TokenInv, FinishedInv, disk
<1>3. CASE AskStatus
  BY <1>3, <1>a DEF AskStatus, InstallerKeeps, Fail
<1>4. CASE Reconnect
  <2>1. CASE /\ saved = agentKey /\ IssueClientKey /\ Goto("stop")
             /\ hand' = [agent |-> saved, client |-> NewKey]
    <3>1. saved # 0
      BY <2>1 DEF IssueClientKey, RegVarsOK
    <3>. QED
      BY <1>4, <1>b, <2>1, <3>1 DEF Reconnect, InstallerKeeps, IssueClientKey
  <2>2. CASE Fail \/ Goto("join")
    BY <1>4, <1>a, <2>2 DEF Reconnect, InstallerKeeps, Fail
  <2>. QED
    BY <1>4, <2>1, <2>2 DEF Reconnect
<1>5. CASE JoinAgain
  <2>1. CASE IssuePair /\ Goto("stop") /\ hand' = [agent |-> NewKey, client |-> NewKey]
    BY <1>5, <1>b, <1>n, <2>1 DEF JoinAgain, InstallerKeeps, IssuePair
  <2>2. CASE Fail
    BY <1>5, <1>a, <2>2 DEF JoinAgain, InstallerKeeps, Fail
  <2>. QED
    BY <1>5, <2>1, <2>2 DEF JoinAgain
<1>6. CASE CallGivenUp
  BY <1>6, <1>a DEF CallGivenUp, Fail
<1>c. ASSUME place \in Installing, place' \in {"out", "stop", "check", "monitoring"},
             place # "agent file", UNCHANGED <<row, disk, hand, strayed, cutShort, finished>>
      PROVE  KeyInv'
  BY <1>c DEF KeyInv, HandInv, TokenInv, FinishedInv, row, disk
<1>7. CASE StopAgent
  BY <1>7, <1>c DEF StopAgent, history
<1>8. CASE CheckAgain
  BY <1>8, <1>c DEF CheckAgain, Fail
<1>9. CASE WriteMonitoring \/ WriteAgentFile
  BY <1>9 DEF WriteMonitoring, WriteAgentFile, Step, KeyInv, HandInv, TokenInv, FinishedInv,
              row
<1>10. CASE RegisterTask \/ WriteLink
  BY <1>10 DEF RegisterTask, WriteLink, Step, KeyInv, HandInv, TokenInv, FinishedInv, row,
               disk
<1>11. CASE StartAgent
  BY <1>11 DEF StartAgent, Step, KeyInv, HandInv, TokenInv, FinishedInv, row, disk
<1>12. CASE (InstallerEnds \/ PowerCut) /\ RunEnds
  <2>1. place' = "out" /\ UNCHANGED <<row, disk, strayed, finished>>
        /\ cutShort' = (cutShort \/ (place = "agent file" /\ reportKey # saved))
    BY <1>12 DEF InstallerEnds, PowerCut, RunEnds, Fail
  <2>. QED
    BY <2>1 DEF KeyInv, HandInv, TokenInv, FinishedInv, row, disk
<1>13. CASE ServerHandlesStray
  <2>1. UNCHANGED <<disk, place, hand, cutShort, finished>>
    BY <1>13 DEF ServerHandlesStray
  <2>2. RowChanges
    BY <1>13, <1>n DEF ServerHandlesStray, IssuePair, IssueClientKey, RowChanges, row
  <2>. QED
    BY <2>1, <2>2, KeysOfRow
<1>14. CASE SwitchedOn \/ AgentStarts
  BY <1>14, KeysOfRow DEF SwitchedOn, AgentStarts, RowChanges, row, disk, history
<1>15. ASSUME NEW wanted \in BOOLEAN, RevokePc(wanted)
       PROVE  KeyInv'
  BY <1>15, KeysOfRow DEF RevokePc, RowChanges, disk
<1>16. InstallerEnds \/ PowerCut => RunEnds
  BY DEF InstallerEnds, PowerCut
<1>. QED
  BY <1>1, <1>2, <1>3, <1>4, <1>5, <1>6, <1>7, <1>8, <1>9, <1>10, <1>11, <1>12, <1>13,
     <1>14, <1>15, <1>16, StepKinds DEF LocalStep

-------------------------------------------------------------------------------
(* The PC while InstallAgent works on it *)

LEMMA WorkingIsUp == AgentWork => pc # "down"
<1>1. BootDone \/ BootSend \/ BootAnswered \/ ClaimSend \/ ClaimAnswered => pc # "down"
  BY DEF BootDone, BootSend, BootAnswered, ClaimSend, ClaimAnswered, Answered, Refused
<1>2. WriteClaim \/ StartChild \/ BeatSend \/ BeatAnswered \/ WaitFails \/ SeeExit
        => pc # "down"
  BY DEF WriteClaim, StartChild, BeatSend, BeatAnswered, WaitFails, SeeExit, Answered, Refused
<1>3. WriteResult \/ DeliverSend \/ DeliverAnswered \/ Timeout => pc # "down"
  BY DEF WriteResult, DeliverSend, DeliverAnswered, Timeout, Answered, Refused, Waiting
<1>. QED
  BY <1>1, <1>2, <1>3 DEF AgentWork

\* Only its task starts an agent that is down.
LEMMA DownStays ==
  ASSUME InstallerRests, pc = "down"
  PROVE  pc' = "down" /\ file' = file
<1>1. CASE ServerAnswersAgent
  BY <1>1, AnswersAgent DEF ServerResponds
<1>2. CASE AgentCrash \/ AgentWorks
  BY <1>2, WorkingIsUp DEF AgentCrash, AgentWorks
<1>3. CASE InstallerOfJobEnds \/ ApprovePc
  BY <1>3 DEF InstallerOfJobEnds, ChildExits, ApprovePc, agentOutside
<1>4. CASE OrderJob \/ Look \/ Clock \/ ResolveJob
  BY <1>4, OutsideStays DEF OrderJob, Look, Clock, ResolveJob, OutsideStep, outside
<1>5. CASE UNCHANGED allVars
  BY <1>5 DEF allVars, protocolVars
<1>. QED
  BY <1>1, <1>2, <1>3, <1>4, <1>5 DEF InstallerRests

LEMMA StoppedStep ==
  ASSUME ProtocolTypeOK, RegVarsOK, StoppedInv, [RegNext]_allVars
  PROVE  StoppedInv'
<1>. USE DEF StoppedInv, Asking, Replacing, Goto
<1>1. CASE InstallerRests
  <2>1. UNCHANGED <<task, place>>
    BY <1>1, RestingLeavesKeys DEF regVars
  <2>. QED
    BY <1>1, <2>1, DownStays
<1>2. CASE LocalStep
  <2>. UNCHANGED <<pc, file>>
    BY <1>2, LocalStepsLeaveProtocol DEF protocolVars
  <2>1. CASE Begin \/ Reconnect \/ CallGivenUp
    BY <2>1 DEF Begin, Reconnect, CallGivenUp, InstallerKeeps, Fail
  <2>2. CASE CheckAgain \/ InstallerEnds \/ SwitchedOn
    BY <2>2 DEF CheckAgain, InstallerEnds, SwitchedOn, Fail, RegVarsOK
  <2>3. CASE WriteMonitoring \/ WriteAgentFile
    BY <2>3 DEF WriteMonitoring, WriteAgentFile, Step
  <2>4. CASE RegisterTask \/ WriteLink \/ StartAgent
    BY <2>4 DEF RegisterTask, WriteLink, StartAgent, Step
  <2>. QED
    BY <1>2, <2>1, <2>2, <2>3, <2>4 DEF LocalStep
<1>3. CASE AskStatus \/ JoinAgain
  BY <1>3 DEF AskStatus, JoinAgain, InstallerKeeps, agentOutside, Fail
<1>4. CASE StopAgent
  BY <1>4 DEF StopAgent, AgentEnds, protocolVars
<1>5. CASE ServerHandlesStray
  BY <1>5 DEF ServerHandlesStray, agentOutside
<1>6. CASE PowerCut
  BY <1>6 DEF PowerCut, AgentEnds
<1>7. CASE AgentStarts
  BY <1>7 DEF AgentStarts, Boot
<1>8. ASSUME NEW wanted \in BOOLEAN, RevokePc(wanted)
      PROVE  StoppedInv'
  BY <1>8 DEF RevokePc, agentOutside
<1>. QED
  BY <1>1, <1>2, <1>3, <1>4, <1>5, <1>6, <1>7, <1>8, StepKinds

-------------------------------------------------------------------------------
(* Installers that outlived the claim of their job *)

\* The agent's calls say what its place and its file say.
LEMMA CallsStep ==
  ASSUME ProtocolTypeOK, PcTypeOK, CallInv, WorkInv, CallsInv, [PromptNext]_protocolVars
  PROVE  CallsInv'
<1>. USE DEF CallsInv, Waiting, HasJob
<1>0. CASE UNCHANGED <<pc, mine, file, call>>
  BY <1>0
<1>n. NoCall.kind # "report"
  BY CallFields
<1>1. CASE Boot \/ BootDone
  BY <1>1 DEF Boot, BootDone, memory, network
<1>2. CASE BootSend
  <2>1. PICK report \in Report :
          /\ call' = ReportCall(file.job, report) /\ file.job \in JobId
          /\ report.state # "running"
    BY <1>2, FileKinds, ReportKinds DEF BootSend, Send, PcTypeOK, Finished
  <2>2. call'.report.state # "running"
    BY <2>1, CallFields
  <2>. QED
    BY <1>2, <2>2 DEF BootSend, Send, memory
<1>3. CASE BootAnswered \/ ClaimAnswered \/ BeatAnswered \/ DeliverAnswered
  <2>1. call' = NoCall
    BY <1>3 DEF BootAnswered, ClaimAnswered, BeatAnswered, DeliverAnswered, Refused, Answered
  <2>2. pc' \in {"boot", "idle", "claimed", "running"} \/ (pc' = "deliver" /\ pc = "deliver wait")
    BY <1>3 DEF BootAnswered, ClaimAnswered, BeatAnswered, DeliverAnswered, Refused, Answered
  <2>3. file' = file \/ file' = NoFile
    BY <1>3 DEF BootAnswered, ClaimAnswered, BeatAnswered, DeliverAnswered, Refused
  <2>4. pc' = "deliver" => file' = file
    BY <1>3 DEF BootAnswered, ClaimAnswered, BeatAnswered, DeliverAnswered, Refused
  <2>. QED
    BY <1>n, <2>1, <2>2, <2>3, <2>4, FileFields
<1>4. CASE ClaimSend
  BY <1>4, CallFields DEF ClaimSend, Send
<1>5. CASE WriteClaim
  <2>1. call' = NoCall /\ pc' \in {"start", "idle"}
    BY <1>5 DEF WriteClaim, WriteFails, CallInv, network
  <2>2. file'.kind = "result" => file' = file
    BY <1>5, FileFields DEF WriteClaim, WriteFails, Claimed
  <2>. QED
    BY <1>n, <2>1, <2>2
<1>6. CASE StartChild \/ WaitFails \/ SeeExit
  BY <1>6 DEF StartChild, WaitFails, LetGo, SeeExit, WorkInv, CallInv, network, memory
<1>7. CASE BeatSend
  <2>1. mine \in JobId /\ StillRunning \in Report
    BY <1>7, ReportKinds DEF BeatSend, WorkInv
  <2>. QED
    BY <1>7, <2>1, CallFields DEF BeatSend, Send, memory
<1>8. CASE WriteResult
  <2>1. mine \in JobId /\ exitCode \in ExitCode
    BY <1>8 DEF WriteResult, WorkInv
  <2>2. \/ file' = Result(mine, ResultOf(exitCode)) /\ pc' = "deliver"
        \/ file' \in {file, TornFile} /\ pc' = "idle"
    BY <1>8 DEF WriteResult, WriteFails
  <2>r. PICK result \in Report : result = ResultOf(exitCode) /\ result.state \in Finished
    BY <2>1, ReportKinds
  <2>w. Result(mine, result).kind = "result" /\ Result(mine, result).report = result
    BY <2>1, FileFields
  <2>3. file'.kind = "result" => file'.report.state \in Finished
    BY <2>2, <2>r, <2>w, FileFields
  <2>4. pc' = "deliver" => file'.kind = "result"
    BY <2>2, <2>r, <2>w
  <2>. QED
    BY <1>8, <1>n, <2>2, <2>3, <2>4 DEF WriteResult, CallInv, network
<1>9. CASE DeliverSend
  <2>1. /\ mine \in JobId /\ ResultOf(exitCode) \in Report
        /\ ResultOf(exitCode).state \in Finished
    BY <1>9, ReportKinds DEF DeliverSend, WorkInv
  <2>2. call'.report.state # "running"
    BY <1>9, <2>1, CallFields DEF DeliverSend, Send, Finished
  <2>. QED
    BY <1>9, <2>2 DEF DeliverSend, Send
<1>10. CASE Timeout
  BY <1>10, <1>n, LoopHeads DEF Timeout, GiveUp
<1>11. CASE ServerResponds
  <2>1. PICK answer \in Answers :
          /\ call'.kind = call.kind
          /\ call.kind = "report" => call'.job = call.job /\ call'.report = call.report
    BY <1>11, Answering
  <2>2. call # NoCall /\ UNCHANGED <<pc, mine, file>>
    BY <1>11 DEF ServerResponds, memory
  <2>. QED
    BY <2>1, <2>2 DEF CallInv
<1>12. CASE ChildExits \/ OutsideStep \/ UNCHANGED protocolVars
  BY <1>0, <1>12, OutsideStays DEF ChildExits, outside, protocolVars, memory, network
<1>13. CASE AgentStops
  BY <1>13, <1>n, FileFields DEF AgentStops, AgentEnds, GiveUp
<1>. QED
  BY <1>1, <1>2, <1>3, <1>4, <1>5, <1>6, <1>7, <1>8, <1>9, <1>10, <1>11, <1>12, <1>13
  DEF PromptNext, AgentWork

LEMMA ExpiryKeepsParked ==
  ASSUME NEW j \in JobId, jobs[j].state = "interrupted"
  PROVE  Expired[j] = jobs[j]
BY DEF Expired

\* Who calls a parked job something else while its installer runs must have seen the
\* installer end, or be the agent that still watches it.
LEMMA ParkedStays ==
  ASSUME ProtocolInv, CallsInv, [PromptNext]_protocolVars, NEW j \in Watched,
         jobs[j].state = "interrupted", file # Claimed(j) \/ pc = "boot wait"
  PROVE  jobs'[j].state = "interrupted"
<1>p. /\ PcTypeOK /\ TypeOK /\ j \in JobId /\ j \in alive /\ ProtocolTypeOK
      /\ CallInv /\ WorkInv
  BY TypeParts DEF ProtocolInv, PcTypeOK, ProtocolTypeOK, Watched
<1>e. Expired[j] = jobs[j]
  BY <1>p, ExpiryKeepsParked
<1>1. CASE PcStep
  BY <1>1, PcStepsLeaveTables
<1>2. CASE ServerResponds
  <2>1. PICK answer \in Answers : ServerTakes(call, answer)
    BY <1>2, <1>p, Answering
  <2>2. CASE UNCHANGED serverVars
    BY <2>2 DEF serverVars
  <2>3. CASE HandleClaim(answer)
    <3>1. ASSUME NEW k \in JobId, Claim(Pc, "yes", k)
          PROVE  jobs'[j].state = "interrupted"
      <4>1. k # j
        BY <3>1 DEF Claim, QueuedJobs
      <4>. QED
        BY <1>e, <1>p, <3>1, <4>1 DEF Claim, Expired
    <3>2. ClaimNothing(Pc, "yes") => jobs'[j].state = "interrupted"
      BY <1>e DEF ClaimNothing
    <3>. QED
      BY <2>3, <3>1, <3>2 DEF HandleClaim
  <2>4. CASE /\ call.kind = "report" /\ call.job \in JobId /\ call.report \in Report
             /\ Update(Pc, call.job, call.report)
    <3>1. CASE call.job # j
      BY <1>p, <2>4, <3>1 DEF Update, TypeOK
    <3>2. CASE call.job = j
      <4>1. call.report.state \notin Finished
        BY <2>4, <3>2 DEF ProtocolInv, ReportInv, TrueReport, Over
      <4>2. call.report.state # "running"
        <5>1. CASE pc = "beat wait"
          BY <1>p, <3>2, <5>1 DEF CallsInv, WorkInv
        <5>. QED
          BY <2>4, <5>1 DEF CallsInv
      <4>3. call.report.state = "interrupted"
        BY <2>4, <4>1, <4>2, ReportKinds DEF Held
      <4>. QED
        BY <1>p, <2>4, <3>2, <4>3, UpdateIsCalm
    <3>. QED
      BY <3>1, <3>2
  <2>. QED
    BY <2>1, <2>2, <2>3, <2>4 DEF ServerTakes, HandleReport
<1>3. CASE Deploy
  <2>1. PICK r \in Request : InsertJob(Pc, "deploy", r)
    BY <1>3 DEF Deploy, Enqueue
  <2>2. PICK k \in JobId :
          /\ jobs[k] = NoRow
          /\ jobs' = [Expired EXCEPT ![k] =
                        [state |-> "queued", device |-> Pc, action |-> "deploy",
                         request |-> r, exit |-> NoExit, silence |-> 0]]
    BY <2>1 DEF InsertJob
  <2>3. j # k
    <3>1. NoRow.state = "unused"
      BY DEF NoRow
    <3>. QED
      BY <2>2, <3>1
  <2>. QED
    BY <1>e, <1>p, <2>2, <2>3 DEF Expired
<1>4. CASE WatchJobs
  BY <1>4, <1>e DEF WatchJobs, ListJobs
<1>5. CASE TimePasses
  BY <1>5, <1>p DEF TimePasses, Tick
<1>6. CASE Admits
  <2>1. j \notin QueuedJobs(Pc)
    BY DEF QueuedJobs
  <2>. QED
    BY <1>6, <1>p, <2>1 DEF Admits, Join, Approve, Revoke
<1>7. CASE ResolveInspected
  <2>1. PICK k \in JobId \ alive : Resolve(k)
    BY <1>7 DEF ResolveInspected
  <2>. QED
    BY <1>p, <2>1 DEF Resolve, TypeOK
<1>8. CASE UNCHANGED protocolVars
  BY <1>8 DEF protocolVars, serverVars
<1>. QED
  BY <1>1, <1>2, <1>3, <1>4, <1>5, <1>6, <1>7, <1>8 DEF PromptNext, OutsideStep, PcStep

\* Where ActiveJob.json is written, and where a report from it is waited for.
LEMMA FileAndPlace ==
  ASSUME [PromptNext]_protocolVars
  PROVE  /\ file' # file => \/ pc \in {"claimed", "exited", "deliver wait"}
                            \/ pc = "boot wait" /\ call.answer.kind = "ok"
         /\ pc' = "boot wait" => pc = "boot wait" \/ BootSend
<1>1. CASE Boot \/ BootDone \/ BootSend \/ ClaimSend \/ BeatSend \/ DeliverSend
  BY <1>1 DEF Boot, BootDone, BootSend, ClaimSend, BeatSend, DeliverSend, Send
<1>2. CASE BootAnswered \/ ClaimAnswered \/ BeatAnswered \/ DeliverAnswered
  BY <1>2 DEF BootAnswered, ClaimAnswered, BeatAnswered, DeliverAnswered, Refused, Answered
<1>3. CASE WriteClaim \/ StartChild \/ WaitFails \/ SeeExit \/ WriteResult
  BY <1>3 DEF WriteClaim, StartChild, WaitFails, LetGo, SeeExit, WriteResult, WriteFails
<1>4. CASE Timeout
  BY <1>4, LoopHeads DEF Timeout, Waiting
<1>5. CASE ServerResponds \/ ChildExits
  BY <1>5 DEF ServerResponds, ChildExits
<1>6. CASE AgentStops
  BY <1>6 DEF AgentStops, AgentEnds
<1>7. CASE OutsideStep \/ UNCHANGED protocolVars
  BY <1>7, OutsideStays DEF outside, protocolVars
<1>. QED
  BY <1>1, <1>2, <1>3, <1>4, <1>5, <1>6, <1>7 DEF PromptNext, AgentWork

LEMMA ParkedStep ==
  ASSUME ProtocolInv, CallsInv, ParkedInv, [PromptNext]_protocolVars
  PROVE  ParkedInv'
<1>p. /\ PcTypeOK /\ PcTypeOK' /\ TypeOK /\ ProtocolTypeOK /\ CallInv /\ WorkInv
      /\ [AnyNext]_protocolVars
  BY TypeParts, PcTypeStep, PromptIsAny DEF ProtocolInv, ProtocolTypeOK
<1>a. Watched \subseteq JobId /\ Watched' \subseteq JobId
  BY <1>p DEF PcTypeOK, Watched
<1>m. \A j \in Watched' : j \in Watched \/ Starts(j)
  BY <1>a, <1>p, MachineStep
<1>1. ASSUME NEW j \in Watched', file' # Claimed(j)
      PROVE  jobs'[j].state = "interrupted"
  <2>1. ~Starts(j)
    BY <1>1, <1>p DEF Starts, WorkInv
  <2>2. j \in Watched /\ j \in JobId
    BY <1>a, <1>m, <2>1
  <2>3. CASE file # Claimed(j)
    BY <2>2, <2>3, ParkedStays DEF ParkedInv
  <2>4. CASE file = Claimed(j)
    <3>1. file.kind = "claim" /\ file.job = j /\ file' # file
      BY <1>1, <2>2, <2>4, FileFields
    <3>2. pc # "claimed"
      BY <1>p, <2>2 DEF ProtocolInv, InstallerInv, AtHand, WorkInv, HasJob
    <3>3. pc # "exited"
      <4>1. ASSUME pc = "exited"
            PROVE  mine \in JobId /\ mine = j /\ mine \notin Watched
        <5>1. mine \in JobId /\ exitCode \in ExitCode /\ TrueReport(mine, ResultOf(exitCode))
          BY <1>p, <4>1 DEF WorkInv, HasJob
        <5>2. mine \notin Watched
          BY <5>1, ReportKinds DEF TrueReport, Over
        <5>3. file = Claimed(mine)
          BY <4>1 DEF CallsInv
        <5>4. mine = j
          BY <3>1, <5>1, <5>3, FileFields
        <5>. QED
          BY <5>1, <5>2, <5>4
      <4>. QED
        BY <2>2, <4>1
    <3>4. pc # "deliver wait"
      BY <3>1 DEF CallsInv
    <3>5. pc = "boot wait" /\ call.answer.kind = "ok"
      BY <3>1, <3>2, <3>3, <3>4, FileAndPlace
    <3>6. call.job = j
      BY <1>p, <3>1, <3>5 DEF CallInv
    <3>7. jobs[j].state = "interrupted"
      BY <2>2, <3>5, <3>6 DEF ParkedInv
    <3>. QED
      BY <2>2, <3>5, <3>7, ParkedStays
  <2>. QED
    BY <2>3, <2>4
<1>2. ASSUME pc' = "boot wait", call'.answer.kind = "ok", call'.job \in Watched'
      PROVE  jobs'[call'.job].state = "interrupted"
  <2>1. pc = "boot wait"
    <3>1. ~BootSend
      <4>1. BootSend => \E j, r : call' = ReportCall(j, r)
        BY DEF BootSend, Send
      <4>2. \A j, r : ReportCall(j, r).answer.kind = "none"
        BY DEF ReportCall, NoAnswer
      <4>. QED
        BY <1>2, <4>1, <4>2
    <3>. QED
      BY <1>2, <3>1, FileAndPlace
  <2>2. call.kind = "report"
    BY <1>p, <2>1 DEF CallInv, Waiting
  <2>3. CASE call' = call
    <3>1. PICK j \in Watched : j = call.job
      BY <1>2, <1>m, <2>1, <2>3 DEF Starts
    <3>2. jobs[j].state = "interrupted"
      BY <1>2, <2>1, <2>3, <3>1 DEF ParkedInv
    <3>. QED
      BY <2>1, <2>3, <3>1, <3>2, ParkedStays
  <2>4. CASE ServerResponds
    <3>1. PICK answer \in Answers :
            /\ ServerTakes(call, answer) /\ call'.answer = answer
            /\ call'.job = call.job
      BY <1>p, <2>2, <2>4, Answering
    <3>2. Watched' = Watched
      BY <2>4 DEF ServerResponds, machine, Watched
    <3>3. call.report \in Report /\ call.report.state \notin Finished
          /\ call.report.state # "running"
      <4>1. call.report \in Report
        BY <1>p, <2>2, CallKinds, CallFields DEF PcTypeOK
      <4>2. TrueReport(call.job, call.report)
        BY <2>2 DEF ProtocolInv, ReportInv
      <4>. QED
        BY <1>2, <2>1, <2>2, <3>1, <3>2, <4>1, <4>2 DEF TrueReport, Over, CallsInv
    <3>4. call.report.state = "interrupted"
      BY <3>3, ReportKinds DEF Held
    <3>5. answer.kind = "ok"
      BY <1>2, <3>1
    <3>6. HandleReport(call.job, call.report, answer) /\ call.job \in JobId
      BY <2>2, <3>1, <3>5 DEF ServerTakes
    <3>7. CASE Update(Pc, call.job, call.report)
      BY <1>p, <3>1, <3>3, <3>4, <3>6, <3>7, UpdateIsCalm
    <3>8. CASE Repeats(call.job, call.report) /\ UNCHANGED serverVars
      BY <3>1, <3>4, <3>8 DEF Repeats, serverVars
    <3>. QED
      BY <3>5, <3>6, <3>7, <3>8 DEF HandleReport
  <2>. QED
    BY <1>2, <1>p, <2>3, <2>4, CallChange
<1>. QED
  BY <1>1, <1>2 DEF ParkedInv

-------------------------------------------------------------------------------
(* The theorems *)

LEMMA RegStart == RegInit => RegInv
<1>. SUFFICES ASSUME RegInit
              PROVE  RegInv
  OBVIOUS
<1>1. TypeOK
  BY DEF RegInit, Init, TypeOK, Sequence, Event, NoEvent
<1>2. ProtocolInv
  BY <1>1, AgentStart DEF RegInit, Init
<1>3. RegVarsOK
  <2>1. lastKey \in Nat /\ lastKey = 0
    BY DEF RegInit
  <2>2. 0 \in Key /\ Empty \in [agent : Key, client : Key]
    BY <2>1, NoKey
  <2>3. 0 \in 0..MaxTrouble
    OBVIOUS
  <2>. QED
    BY <2>1, <2>2, <2>3 DEF RegInit, Init, RegVarsOK
<1>4. HandInv /\ TokenInv /\ FinishedInv
  BY DEF RegInit, HandInv, TokenInv, FinishedInv, Installing, Replacing
<1>5. StoppedInv /\ CallsInv /\ ParkedInv
  BY CallFields, FileFields
  DEF RegInit, AgentInit, StoppedInv, CallsInv, ParkedInv, Replacing, Watched
<1>. QED
  BY <1>2, <1>3, <1>4, <1>5 DEF RegInv

LEMMA RegStep ==
  ASSUME RegInv, [RegNext]_allVars
  PROVE  RegInv'
<1>p. /\ ProtocolInv /\ ProtocolTypeOK /\ PcTypeOK /\ CallInv /\ WorkInv /\ RegVarsOK
      /\ KeyInv /\ StoppedInv /\ CallsInv /\ ParkedInv
  BY TypeParts DEF RegInv, ProtocolInv, KeyInv
<1>s. [PromptNext]_protocolVars /\ [AnyNext]_protocolVars
  BY <1>p, RegIsPrompt, PromptIsAny
<1>1. ProtocolInv'
  BY <1>p, <1>s, ProtocolStep
<1>2. RegVarsOK' /\ KeyInv' /\ StoppedInv'
  BY <1>p, RegTypeStep, KeyStep, StoppedStep
<1>3. CallsInv' /\ ParkedInv'
  BY <1>p, <1>s, CallsStep, ParkedStep
<1>. QED
  BY <1>1, <1>2, <1>3 DEF RegInv, KeyInv

LEMMA RegInvariant == RegSafety => []RegInv
BY RegStart, RegStep, PTL DEF RegSafety

\* The agent's variables keep their types, and of the keys: the server's row of the PC
\* is there exactly when the agent has a key in it.
THEOREM RegTypeCorrect == RegSafety => []RegTypeOK
<1>1. RegInv => RegTypeOK
  BY RegTypeParts DEF RegInv, ProtocolInv
<1>. QED
  BY <1>1, RegInvariant, PTL

\* After a complete run the three places agree with the row, but for a reconnect handled
\* late and a token left by a run that was cut short, however many runs, lost calls and
\* revocations there were before.
THEOREM KeysAgree == RegSafety => []KeysMatch
<1>1. RegInv => KeysMatch
  BY DEF RegInv, FinishedInv, TokenInv, KeysMatch
<1>. QED
  BY <1>1, RegInvariant, PTL

\* While InstallAgent replaces the files no job is in ActiveJob.json, and an installer
\* that still runs belongs to a job that was reported interrupted, or was let go by the
\* catch of Agent.ps1:50.  It is a theorem of Registration, in which every call of the
\* agent is handled before the agent gives it up, or never.
THEOREM ReplacesIdlePc == RegSafety => []NoJobWhileReplacing
<1>1. RegInv => NoJobWhileReplacing
  <2>. SUFFICES ASSUME RegInv, place \in Replacing
                PROVE  file = NoFile /\ \A j \in Watched : jobs[j].state = "interrupted"
    BY DEF NoJobWhileReplacing, Watched
  <2>1. file = NoFile
    BY DEF RegInv, StoppedInv
  <2>2. ASSUME NEW j \in Watched
        PROVE  file # Claimed(j)
    <3>1. j \in JobId
      BY DEF RegInv, ProtocolInv, ProtocolTypeOK, Watched
    <3>. QED
      BY <2>1, <3>1, FileFields
  <2>. QED
    BY <2>1, <2>2 DEF RegInv, ParkedInv
<1>. QED
  BY <1>1, RegInvariant, PTL

\* What InstallerStartsOnce and ClosedJobsEnded say of installers and logs, with their
\* exception of the catch of Agent.ps1:50, through registrations, replacements of the
\* agent, power cuts and revocations too.
THEOREM RegisteredAgentIsSafe == RegSafety => [](OneInstallerEver /\ ClosedMeansEnded)
<1>1. RegInv => OneInstallerEver /\ ClosedMeansEnded
  BY ProtocolIsSafe DEF RegInv
<1>. QED
  BY <1>1, RegInvariant, PTL

\* The job service sees nothing of InstallAgent but calls it also takes from others:
\* what JobStoreProofs proves of it holds in this system.
THEOREM RegistrationIsStore == RegSafety => Spec
<1>1. RegInit => Init
  BY DEF RegInit
<1>2. RegInv /\ [RegNext]_allVars => [Next]_vars
  <2>. SUFFICES ASSUME RegInv, [RegNext]_allVars
                PROVE  [Next]_vars
    OBVIOUS
  <2>1. ProtocolTypeOK
    BY DEF RegInv, ProtocolInv
  <2>. QED
    BY <2>1, RegIsPrompt, PromptIsAny, StepOfStore
<1>. QED
  BY <1>1, <1>2, RegInvariant, PTL DEF RegSafety, Spec
===============================================================================
