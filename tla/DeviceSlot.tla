------------------------------ MODULE DeviceSlot ------------------------------
(***************************************************************************)
(* What the job service promises, with no tables, clocks or credentials:   *)
(* every device is a slot for ONE deployment job.  A job enters an empty   *)
(* slot, is handed to the device's agent at most once, and leaves the slot *)
(* with one outcome that never changes.  A job that was not handed out may *)
(* be cancelled instead; a job that was handed out may not.  A job whose   *)
(* agent fell silent still occupies the slot: it is never handed out again.*)
(***************************************************************************)
CONSTANTS Device, Job,
          Free          \* the content of an empty slot; not a job

VARIABLES slot,      \* slot[d]: the open job of device d, or Free
          handed,    \* handed[d]: that job has been given to the agent
          outcome    \* outcome[j]: "unused", "pending" or how j ended

vars == <<slot, handed, outcome>>

Ending == {"succeeded", "failed"}

TypeOK ==
  /\ slot \in [Device -> Job \cup {Free}]
  /\ handed \in [Device -> BOOLEAN]
  /\ outcome \in [Job -> {"unused", "pending", "cancelled"} \cup Ending]

Init ==
  /\ slot = [d \in Device |-> Free]
  /\ handed = [d \in Device |-> FALSE]
  /\ outcome = [j \in Job |-> "unused"]

Enter(d, j) ==
  /\ slot[d] = Free
  /\ outcome[j] = "unused"
  /\ slot' = [slot EXCEPT ![d] = j]
  /\ handed' = handed
  /\ outcome' = [outcome EXCEPT ![j] = "pending"]

HandOut(d) ==
  /\ slot[d] # Free
  /\ ~handed[d]
  /\ handed' = [handed EXCEPT ![d] = TRUE]
  /\ UNCHANGED <<slot, outcome>>

Leave(d, result) ==
  /\ slot[d] # Free
  /\ slot' = [slot EXCEPT ![d] = Free]
  /\ handed' = [handed EXCEPT ![d] = FALSE]
  /\ outcome' = [outcome EXCEPT ![slot[d]] = result]

Finish(d) == handed[d] /\ \E result \in Ending : Leave(d, result)

Cancel(d) == ~handed[d] /\ Leave(d, "cancelled")

Next ==
  \E d \in Device :
    \/ \E j \in Job : Enter(d, j)
    \/ HandOut(d)
    \/ Finish(d)
    \/ Cancel(d)

Spec == Init /\ [][Next]_vars
===============================================================================
