---------------------------- MODULE ProgressDelivery ----------------------------
(***************************************************************************)
(* The progress of a deployment on its way from the installer to the       *)
(* service.  The installer appends lines to a file of its job.  The agent  *)
(* sends the lines it has not had acknowledged, in batches, while the      *)
(* installer runs and once more before it reports the result.  The service *)
(* keeps them under their line numbers, between the number 0 of the        *)
(* request and the number Final of the outcome.                            *)
(*                                                                         *)
(* One PC and its jobs.  A job is cancelled only by a revocation (JobStore)*)
(* and never here.  A failed call is one the agent saw fail; the service   *)
(* may still carry it out at any later time, or never.                     *)
(***************************************************************************)
EXTENDS Integers, Sequences, FiniteSets

CONSTANTS MaxJobs,      \* bound: jobs the PC is asked for
          MaxLines,     \* bound: MaxLines[j] lines in the file of job j
          BatchSize,    \* lines of a batch (32 in the code)
          MaxFaults     \* bound: failed calls and stops, in all

Job == 1 .. MaxJobs
NoJob == 0

ASSUME DeliveryAssumption ==
  /\ {MaxJobs, BatchSize} \subseteq Nat \ {0}
  /\ MaxLines \in [Job -> Nat]
  /\ MaxFaults \in Nat

\* An event; an event the service refuses (a module its catalogue does not
\* know); the rest of a line a stop cut off; a line with nothing on it.
Line == {"event", "refused", "torn", "blank"}

VARIABLES file,         \* file[j]: the lines of logs/<j>.progress.jsonl
          installers,   \* jobs whose installer is alive
          agent,        \* the agent's job, its cursor and its result
          state, log,   \* agent_jobs.state; the numbers in job_progress
          late,         \* calls that failed for the agent and may yet arrive
          faults        \* failed calls and stops so far

pcVars == <<file, installers, agent>>
serverVars == <<state, log, late>>
vars == <<pcVars, serverVars, faults>>

\* What the readers rely on.
Promise == INSTANCE ProgressLog

LineNumber == Promise!LineNumber
Final == Promise!Final
Held == Promise!Held
Ended == Promise!Ended

\* A POST to /api/agent/jobs/<job>/progress has lines, one to /api/agent/jobs/<job>
\* has a state.
Call == [job : Job, lines : SUBSET LineNumber, state : Promise!State \cup {"none"}]

NoWork == [job |-> NoJob, phase |-> "idle", after |-> 0, result |-> "none",
           restarted |-> FALSE]

DeliveryTypeOK ==
  /\ Promise!LogTypeOK
  /\ file \in [Job -> Seq(Line)]
  /\ installers \subseteq Job
  /\ agent \in [job : Job \cup {NoJob}, restarted : BOOLEAN,
                after : LineNumber \cup {0},
                phase : {"idle", "running", "draining", "reporting"},
                result : {"none", "interrupted"} \cup Ended]
  /\ late \subseteq Call
  /\ faults \in 0 .. MaxFaults

Init ==
  /\ Promise!LogInit
  /\ file = [j \in Job |-> <<>>]
  /\ installers = {}
  /\ agent = NoWork
  /\ late = {}
  /\ faults = 0

Fault == faults < MaxFaults /\ faults' = faults + 1

\* The n smallest numbers of S.
First(n, S) == {s \in S : Cardinality({t \in S : t < s}) < n}

-------------------------------------------------------------------------------
(* The service. *)

\* Mutant: a batch is stored whatever became of the job.
AcceptsEver(c) ==
  IF c.state = "none"
  THEN \A n \in c.lines : file[c.job][n] = "event"
  ELSE state[c.job] \in Held \/ (state[c.job] = c.state /\ c.state # "running")

Accepts(c) ==
  IF c.state = "none"
  THEN /\ \A n \in c.lines : file[c.job][n] = "event"
       /\ c.lines \subseteq log[c.job] \/ state[c.job] \in Held
  ELSE state[c.job] \in Held \/ (state[c.job] = c.state /\ c.state # "running")

\* A result equal to the row is answered and nothing is written.
CarryOut(c) ==
  /\ Accepts(c)
  /\ state' = IF c.state = "none" THEN state ELSE [state EXCEPT ![c.job] = c.state]
  /\ log' = [log EXCEPT ![c.job] =
               @ \cup c.lines
                 \cup (IF c.state \in Ended /\ state[c.job] \in Held THEN {Final} ELSE {})]

\* The caller learns of the outcome in time, or takes the call for failed.
Succeeds(c) == CarryOut(c) /\ UNCHANGED <<late, faults>>
Refused(c) == ~Accepts(c) /\ UNCHANGED <<serverVars, faults>>
Fails(c) == Fault /\ late' = late \cup {c} /\ UNCHANGED <<state, log>>

ArriveLate(c) ==
  /\ late' = late \ {c}
  /\ CarryOut(c)
  /\ UNCHANGED <<pcVars, faults>>

\* One deployment at a time: the newest job must be over.
Enqueue(j) ==
  /\ state[j] = "absent"
  /\ \A i \in Job : i < j => state[i] \in Ended
  /\ state' = [state EXCEPT ![j] = "queued"]
  /\ log' = [log EXCEPT ![j] = {0}]
  /\ UNCHANGED <<pcVars, late, faults>>

\* The row was silent for two minutes (also when the agent is well, if its calls
\* do not come through).
Expire(j) ==
  /\ state[j] = "running"
  /\ state' = [state EXCEPT ![j] = "interrupted"]
  /\ UNCHANGED <<pcVars, log, late, faults>>

Resolve(j) ==
  /\ state[j] = "interrupted"
  /\ state' = [state EXCEPT ![j] = "failed"]
  /\ UNCHANGED <<pcVars, log, late, faults>>

-------------------------------------------------------------------------------
(* The installer and the agent. *)

Claim(j) ==
  /\ agent = NoWork
  /\ state[j] = "queued"
  /\ state' = [state EXCEPT ![j] = "running"]
  /\ agent' = [NoWork EXCEPT !.job = j, !.phase = "running"]
  /\ installers' = installers \cup {j}
  /\ UNCHANGED <<file, log, late, faults>>

\* A line that cannot be written is swallowed, and is no line.
WriteJobProgress(j, line) ==
  /\ j \in installers
  /\ Len(file[j]) < MaxLines[j]
  /\ line \in {"event", "refused"}
  /\ file' = [file EXCEPT ![j] = Append(@, line)]
  /\ UNCHANGED <<installers, agent, serverVars, faults>>

\* The lines Send-AgentProgress picks; a torn one among them throws.
Unsent == {n \in agent.after + 1 .. Len(file[agent.job]) : file[agent.job][n] # "blank"}
Batch == First(BatchSize, Unsent)
Readable == \A n \in Batch : file[agent.job][n] # "torn"
BatchCall == [job |-> agent.job, lines |-> Batch, state |-> "none"]

\* Mutant: the cursor is the number of the next line.
NextLine == 1 + CHOOSE n \in Batch : \A m \in Batch : m <= n

Acknowledged == CHOOSE n \in Batch : \A m \in Batch : m <= n

\* The call of Send-AgentProgress, with what the agent does when it failed; what
\* it throws is swallowed.  Mutant: the cursor moves whatever the call returned.
SendRegardless(failed) ==
  /\ Batch # {} /\ Readable
  /\ agent' = [agent EXCEPT !.after = Acknowledged]
  /\ Succeeds(BatchCall) \/ Refused(BatchCall) \/ Fails(BatchCall)

SendAgentProgress(failed) ==
  /\ Batch # {} /\ Readable
  /\ \/ Succeeds(BatchCall) /\ agent' = [agent EXCEPT !.after = Acknowledged]
     \/ Refused(BatchCall) /\ agent' = failed
     \/ Fails(BatchCall) /\ agent' = failed

\* Every two seconds while the installer runs.
SendWhileRunning ==
  /\ agent.phase = "running"
  /\ SendAgentProgress(agent)
  /\ UNCHANGED <<file, installers>>

SendHeartbeat ==
  /\ agent.phase = "running"
  /\ LET c == [job |-> agent.job, lines |-> {}, state |-> "running"]
     IN Succeeds(c) \/ Fails(c)
  /\ UNCHANGED <<pcVars>>

\* A wait that throws ends the job as failed, and its installer goes on.
Exit(result) ==
  /\ agent.phase = "running"
  /\ result \in Ended
  /\ \/ installers' = installers \ {agent.job}
     \/ result = "failed" /\ UNCHANGED installers
  /\ agent' = [agent EXCEPT !.phase = "draining", !.result = result]
  /\ UNCHANGED <<file, serverVars, faults>>

\* The loop before the result: it ends when a call sends nothing or fails.
\* Mutant: one batch and no loop.
DrainOnce ==
  /\ agent.phase = "draining"
  /\ agent' = [agent EXCEPT !.phase = "reporting"]
  /\ \/ Batch # {} /\ Readable /\ (Succeeds(BatchCall) \/ Fails(BatchCall))
     \/ UNCHANGED <<serverVars, faults>>
  /\ UNCHANGED <<file, installers>>

Drain ==
  /\ agent.phase = "draining"
  /\ \/ SendAgentProgress([agent EXCEPT !.phase = "reporting"])
     \/ /\ Batch = {} \/ ~Readable
        /\ agent' = [agent EXCEPT !.phase = "reporting"]
        /\ UNCHANGED <<serverVars, faults>>
  /\ UNCHANGED <<file, installers>>

\* Until the result is accepted the agent starts over after ten seconds; the loop
\* of a restarted agent starts over with its cursor at 0.
SendResult ==
  /\ agent.phase = "reporting"
  /\ LET c == [job |-> agent.job, lines |-> {}, state |-> agent.result]
     IN \/ Succeeds(c) /\ agent' = NoWork
        \/ /\ Refused(c) \/ Fails(c)
           /\ agent' = [agent EXCEPT !.phase = "draining",
                                     !.after = IF agent.restarted THEN 0 ELSE @]
  /\ UNCHANGED <<file, installers>>

\* The agent stops and starts again: alone, or with the PC and whatever it runs,
\* which may cut off a line.
Stop ==
  /\ agent.phase # "idle"
  /\ Fault
  /\ agent' = [agent EXCEPT !.phase = "draining", !.after = 0, !.restarted = TRUE,
                            !.result = IF @ = "none" THEN "interrupted" ELSE @]
  /\ \/ UNCHANGED <<installers, file>>
     \/ /\ installers' = {}
        /\ \/ UNCHANGED file
           \/ \E j \in installers, rest \in {"torn", "blank"} :
                /\ Len(file[j]) < MaxLines[j]
                /\ file' = [file EXCEPT ![j] = Append(@, rest)]
  /\ UNCHANGED <<serverVars>>

-------------------------------------------------------------------------------

ServerStep ==
  \/ \E c \in late : ArriveLate(c)
  \/ \E j \in Job : Enqueue(j) \/ Expire(j) \/ Resolve(j)

PcStep ==
  \/ \E j \in Job : Claim(j) \/ \E line \in Line : WriteJobProgress(j, line)
  \/ SendWhileRunning
  \/ SendHeartbeat
  \/ \E result \in Ended : Exit(result)
  \/ Drain
  \/ SendResult
  \/ Stop

Next == ServerStep \/ PcStep

Spec == Init /\ [][Next]_vars

-------------------------------------------------------------------------------
(* Properties *)

\* The stored log is the file up to some line: whatever is stored is an event of
\* the file under its own number, and no earlier event is missing, although
\* batches fail, arrive late, are sent again by a restarted agent that has
\* forgotten its cursor, or hold a line the service refuses.
LogHasNoGap ==
  \A j \in Job :
    /\ \A n \in log[j] \ {0, Final} : n <= Len(file[j]) /\ file[j][n] = "event"
    /\ \A n \in log[j] \ {0, Final}, m \in 1 .. Len(file[j]) :
         m < n /\ file[j][m] # "blank" => m \in log[j]

\* When no call failed and no line was refused, a job that succeeded has its whole
\* file in the log: the agent drains the file, in as many batches as it takes,
\* before it closes the log with the result, which shuts out later lines.
SuccessHasWholeLog ==
  \A j \in Job :
    state[j] = "succeeded" /\ faults = 0 /\ (\A n \in DOMAIN file[j] : file[j][n] = "event")
      => log[j] = {0, Final} \cup DOMAIN file[j]

\* The service with this agent keeps what ProgressLog promises its readers: late,
\* repeated and restarted deliveries add to a log only at its end, and to no log of
\* a job that is over.
KeepsPromise == Promise!LogSpec
===============================================================================
