------------------------------ MODULE ProgressLog ------------------------------
(***************************************************************************)
(* What a reader of the progress of a PC's jobs relies on, with no agents, *)
(* files or calls: jobs come one after the other; the log of a job opens   *)
(* with the request, grows only at its end and only while the agent may    *)
(* hold the job, and closes with the outcome the agent reports.  Of what is*)
(* over, nothing changes any more.  An administrator may end an interrupted*)
(* job, whose log then has no outcome.                                     *)
(***************************************************************************)
EXTENDS Integers, FiniteSets

CONSTANTS Job,          \* the numbers of the jobs, oldest first
          MaxLines      \* bound: the log of job j has MaxLines[j] numbers between

LineNumber == UNION {1 .. MaxLines[j] : j \in Job}

\* Any number of jobs, but no line beyond some number (1000000 in the code).
ASSUME LogAssumption ==
  /\ Job \subseteq Nat
  /\ MaxLines \in [Job -> Nat]
  /\ IsFiniteSet(LineNumber)

\* The number of the outcome (2147483647 in the code), beyond every line.
Final == 1 + Cardinality(LineNumber)
Sequence == 0 .. Final

Held == {"running", "interrupted"}
Ended == {"succeeded", "failed"}
State == {"absent", "queued"} \cup Held \cup Ended

VARIABLES state,      \* agent_jobs.state
          log         \* the numbers of a job in job_progress

logVars == <<state, log>>

LogTypeOK ==
  /\ state \in [Job -> State]
  /\ log \in [Job -> SUBSET Sequence]

LogInit ==
  /\ state = [j \in Job |-> "absent"]
  /\ log = [j \in Job |-> {}]

Open(j) ==
  /\ state[j] = "absent"
  /\ \A i \in Job : i < j => state[i] \in Ended
  /\ state' = [state EXCEPT ![j] = "queued"]
  /\ log' = [log EXCEPT ![j] = {0}]

\* The agent takes the job, falls silent or is heard of again.
Change(j) ==
  /\ \/ state[j] = "queued" /\ state' = [state EXCEPT ![j] = "running"]
     \/ state[j] = "running" /\ state' = [state EXCEPT ![j] = "interrupted"]
     \/ state[j] = "interrupted" /\ state' = [state EXCEPT ![j] = "running"]
  /\ log' = log

Extend(j, S) ==
  /\ state[j] \in Held
  /\ S # {}
  /\ \A s \in S, t \in log[j] : t < s
  /\ log' = [log EXCEPT ![j] = @ \cup S]
  /\ state' = state

Close(j, result) ==
  /\ state[j] \in Held
  /\ state' = [state EXCEPT ![j] = result]
  /\ log' = [log EXCEPT ![j] = @ \cup {Final}]

Resolve(j) ==
  /\ state[j] = "interrupted"
  /\ state' = [state EXCEPT ![j] = "failed"]
  /\ log' = log

LogNext ==
  \E j \in Job :
    \/ Open(j)
    \/ Change(j)
    \/ \E S \in SUBSET (1 .. MaxLines[j]) : Extend(j, S)
    \/ \E result \in Ended : Close(j, result)
    \/ Resolve(j)

LogSpec == LogInit /\ [][LogNext]_logVars
===============================================================================
