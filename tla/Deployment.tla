------------------------------ MODULE Deployment ------------------------------
(***************************************************************************)
(* What runs on a PC: RunAgentJob or a user starts Main.bat, which checks  *)
(* the keys and lets InvokeApplications run the modules 01 to 06, each a   *)
(* process of its own, up to the first that fails.  A module reads the     *)
(* state file, runs installers, writes the file and reports to the server  *)
(* before and after; a report may be lost and changes nothing on the PC.   *)
(*                                                                         *)
(* Installers are not ours: one that fails, or is cut off when the PC      *)
(* stops, may have done its work all the same.  Between two runs a user    *)
(* may remove what was installed.                                          *)
(***************************************************************************)
EXTENDS Naturals, FiniteSets

CONSTANTS OldApp,       \* earlier Hancom products with an uninstall entry
          Orphan,       \* entries whose product is gone: msiexec says 1605 or 1614
          NoState,      \* the state file does not exist
          FaultyDisk,   \* whether writing the state file may fail
          MaxFaults     \* bound: failed steps, stops, and removals by a user

ASSUME DeploymentAssumption ==
  /\ IsFiniteSet(OldApp) /\ Orphan \subseteq OldApp
  /\ FaultyDisk \in BOOLEAN
  /\ MaxFaults \in Nat

VARIABLES office, hancom, runtime, old,   \* what is installed
          file,                           \* Tapbook_State.json
          mem,                            \* $state of the running module
          stage,                          \* the running module, 0 outside of them
          step,                           \* where the run is
          todo,                           \* $oldApps of module 06
          dashboard,                      \* the last report the server received
          asked,                          \* an installer of this run exited with 3010
          result,                         \* how the last run of Main.bat ended
          faults

software == <<office, hancom, runtime, old>>
vars == <<software, file, mem, stage, step, todo, dashboard, asked, result, faults>>

-------------------------------------------------------------------------------

\* The conditions a module writes, and the two only a report has.
Condition == {"unknown", "needed", "normal"}
Shown == Condition \cup {"installing", "error"}

State == [office : Condition, hancom : Condition, reboot : BOOLEAN]

ASSUME NoStateAssumption == NoState \notin State

Fresh == [office |-> "unknown", hancom |-> "unknown", reboot |-> FALSE]

ReportStage == 0..6     \* 0 is Preflight
ReportRow == [stage : ReportStage, status : {"running", "completed", "failed"},
              office : Shown, hancom : Shown, reboot : BOOLEAN]
NoReport == [stage |-> 0, status |-> "running", office |-> "unknown",
             hancom |-> "unknown", reboot |-> FALSE]

DeployTypeOK ==
  /\ office \in {"absent", "other", "target"}
  /\ hancom \in BOOLEAN
  /\ runtime \in BOOLEAN
  /\ old \subseteq OldApp
  /\ file \in State \cup {NoState}
  /\ mem \in State \cup {NoState}
  /\ stage \in 0..6
  /\ step \in {"idle", "main", "enter", "work", "remove", "runtime", "msi", "write", "leave"}
  /\ todo \subseteq OldApp
  /\ dashboard \in ReportRow
  /\ asked \in BOOLEAN
  /\ result \in {"none", "succeeded", "failed", "stopped"}
  /\ faults \in 0..MaxFaults

Init ==
  /\ office \in {"absent", "other", "target"}
  /\ hancom \in BOOLEAN
  /\ runtime \in BOOLEAN
  /\ old \in SUBSET OldApp
  /\ file = NoState
  /\ mem = NoState
  /\ stage = 0
  /\ step = "idle"
  /\ todo = {}
  /\ dashboard = NoReport
  /\ asked = FALSE
  /\ result = "none"
  /\ faults = 0

-------------------------------------------------------------------------------
(* Reports *)

\* Mutant: the file of an earlier run is read for every report.
ReadForAll(s, status, saved) == IF saved = NoState THEN Fresh ELSE saved

\* Preflight and the start of 01 do not look at the file of an earlier run.
ReadFor(s, status, saved) ==
  IF saved = NoState \/ s = 0 \/ (s = 1 /\ status = "running") THEN Fresh ELSE saved

OfficeShown(s, status, known) ==
  IF status = "failed" /\ s \in 2..4 THEN "error"
  ELSE IF status = "running" /\ s = 4 /\ known = "needed" THEN "installing" ELSE known

HancomShown(s, status, known) ==
  IF status = "failed" /\ s \in 5..6 THEN "error"
  ELSE IF status = "running" /\ s = 6 /\ known = "needed" THEN "installing" ELSE known

Payload(s, status, saved) ==
  LET known == ReadFor(s, status, saved)
  IN [stage |-> s, status |-> status, office |-> OfficeShown(s, status, known.office),
      hancom |-> HancomShown(s, status, known.hancom), reboot |-> known.reboot]

\* The report is delivered or lost; the modules do not ask which.
Send(s, status, saved) == dashboard' \in {dashboard, Payload(s, status, saved)}

-------------------------------------------------------------------------------
(* A run *)

Fault == faults < MaxFaults /\ faults' = faults + 1

End(how) ==
  /\ step' = "idle"
  /\ stage' = 0
  /\ mem' = NoState
  /\ todo' = {}
  /\ result' = how

\* Mutant: the plan does not look at the exit code of a module.
ThrowGoesOn ==
  /\ Send(stage, "failed", file)
  /\ step' = "leave"
  /\ UNCHANGED <<file, mem, stage, todo, result>>

\* A module throws: it reports, exits with 1, and no other module is started.
Throw ==
  /\ Send(stage, "failed", file)
  /\ End("failed")
  /\ UNCHANGED file

Begin ==
  /\ step = "idle"
  /\ step' = "main"
  /\ result' = "none"
  /\ asked' = FALSE
  /\ UNCHANGED <<software, file, mem, stage, todo, faults>>

StartByHand == Begin /\ UNCHANGED dashboard

\* RunAgentJob, like the menu of Client.bat, starts Main.bat only after the server has
\* taken a report.
StartByAgent == Begin /\ dashboard' = Payload(0, "running", file)

\* A report and nothing else, from the menu or as the job report-test.
ReportTest ==
  /\ step = "idle"
  /\ dashboard' = Payload(0, "running", file)
  /\ UNCHANGED <<software, file, mem, stage, step, todo, asked, result, faults>>

\* A key is missing or malformed, which is reported, or a module is, which is not.
PrerequisiteMissing ==
  /\ step = "main"
  /\ Fault
  /\ Send(0, "failed", file)
  /\ End("failed")
  /\ UNCHANGED <<software, file, asked>>

\* Mutant: a run goes on where the state file of an earlier one stands.
RunPlanResumes ==
  /\ step = "main"
  /\ stage' = IF file = NoState THEN 1 ELSE 3
  /\ step' = "enter"
  /\ UNCHANGED <<software, file, mem, todo, dashboard, asked, result, faults>>

RunPlan ==
  /\ step = "main"
  /\ stage' = 1
  /\ step' = "enter"
  /\ UNCHANGED <<software, file, mem, todo, dashboard, asked, result, faults>>

Enter ==
  /\ step = "enter"
  /\ Send(stage, "running", file)
  /\ mem' = file
  /\ step' = "work"
  /\ UNCHANGED <<software, file, stage, todo, asked, result, faults>>

\* Writing the file and the report of success.
Write ==
  /\ step = "write"
  /\ file' = mem
  /\ step' = "leave"
  /\ UNCHANGED <<software, mem, stage, todo, dashboard, asked, result, faults>>

WriteFails ==
  /\ step = "write"
  /\ FaultyDisk
  /\ Fault
  /\ Throw
  /\ UNCHANGED <<software, asked>>

Leave ==
  /\ step = "leave"
  /\ Send(stage, "completed", file)
  /\ IF stage = 6
     THEN End("succeeded")
     ELSE /\ stage' = stage + 1
          /\ step' = "enter"
          /\ UNCHANGED <<mem, todo, result>>
  /\ UNCHANGED <<software, file, asked, faults>>

-------------------------------------------------------------------------------
(* The modules *)

\* STATE_READ_FAILED, or STATE_INVALID: the module before did not do its part.
StateUnusable ==
  \/ stage > 1 /\ mem = NoState
  \/ stage \in {3, 4} /\ mem.office = "unknown"
  \/ stage = 6 /\ mem.hancom = "unknown"

In(s) == stage = s /\ step = "work" /\ ~StateUnusable

Skip ==
  /\ step' = "leave"
  /\ UNCHANGED <<software, file, mem, stage, todo, dashboard, asked, result, faults>>

Save(state) ==
  /\ mem' = state
  /\ step' = "write"
  /\ UNCHANGED <<software, file, stage, todo, dashboard, asked, result, faults>>

\* Mutant: a missing product is written as an error, which only a report says.
DetectedError(installed) == IF installed THEN "normal" ELSE "error"

Detected(installed) == IF installed THEN "normal" ELSE "needed"

GetInfo == In(1) /\ Save(Fresh)
CheckOffice == In(2) /\ Save([mem EXCEPT !.office = Detected(office = "target")])
CheckHancom == In(5) /\ Save([mem EXCEPT !.hancom = Detected(hancom)])

\* Mutant: the flag says what the last installer said.
SetRebootLast(state, reboot) == [state EXCEPT !.reboot = reboot]

\* Set-RebootRequired: 3010 sets the flag and nothing clears it.
SetRebootRequired(state, reboot) == [state EXCEPT !.reboot = @ \/ reboot]

SkipOffice == stage \in {3, 4} /\ In(stage) /\ mem.office = "normal" /\ Skip

RemoveOffice ==
  /\ In(3)
  /\ mem.office = "needed"
  /\ office' = "absent"
  /\ \E reboot \in BOOLEAN :
       /\ mem' = SetRebootRequired(mem, reboot)
       /\ asked' = (asked \/ reboot)
  /\ step' = "write"
  /\ UNCHANGED <<hancom, runtime, old, file, stage, todo, dashboard, result, faults>>

InstallOffice ==
  /\ In(4)
  /\ mem.office = "needed"
  /\ office' = "target"
  /\ \E reboot \in BOOLEAN :
       /\ mem' = [SetRebootRequired(mem, reboot) EXCEPT !.office = "normal"]
       /\ asked' = (asked \/ reboot)
  /\ step' = "write"
  /\ UNCHANGED <<hancom, runtime, old, file, stage, todo, dashboard, result, faults>>

SkipHancom == In(6) /\ mem.hancom = "normal" /\ Skip

\* The entries are listed once, before the first is removed.
ListOldApps ==
  /\ In(6)
  /\ mem.hancom = "needed"
  /\ todo' = old
  /\ step' = "remove"
  /\ UNCHANGED <<software, file, mem, stage, dashboard, asked, result, faults>>

RemoveOldApp(a) ==
  /\ step = "remove"
  /\ a \in todo
  /\ todo' = todo \ {a}
  /\ old' = IF a \in Orphan THEN old ELSE old \ {a}
  /\ \E reboot \in IF a \in Orphan THEN {FALSE} ELSE BOOLEAN :
       /\ mem' = SetRebootRequired(mem, reboot)
       /\ asked' = (asked \/ reboot)
  /\ UNCHANGED <<office, hancom, runtime, file, stage, step, dashboard, result, faults>>

\* Mutant: a conflict with an installed version always counts as success.
InstallRuntimeTrusting ==
  /\ step = "remove"
  /\ todo = {}
  /\ \E reboot, present \in BOOLEAN :
       /\ runtime' = (runtime \/ present)
       /\ mem' = SetRebootRequired(mem, reboot)
       /\ asked' = (asked \/ reboot)
  /\ step' = "msi"
  /\ UNCHANGED <<office, hancom, old, file, stage, todo, dashboard, result, faults>>

\* A runtime that is there is left alone.  One the installer calls conflicting (1638)
\* is looked for again and, when it is not there, is a failure (InstallerFails).
InstallRuntime ==
  /\ step = "remove"
  /\ todo = {}
  /\ runtime' = TRUE
  /\ \E reboot \in IF runtime THEN {FALSE} ELSE BOOLEAN :
       /\ mem' = SetRebootRequired(mem, reboot)
       /\ asked' = (asked \/ reboot)
  /\ step' = "msi"
  /\ UNCHANGED <<office, hancom, old, file, stage, todo, dashboard, result, faults>>

InstallHancom ==
  /\ step = "msi"
  /\ hancom' = TRUE
  /\ \E reboot \in BOOLEAN :
       /\ mem' = [SetRebootRequired(mem, reboot) EXCEPT !.hancom = "normal"]
       /\ asked' = (asked \/ reboot)
  /\ step' = "write"
  /\ UNCHANGED <<office, runtime, old, file, stage, todo, dashboard, result, faults>>

\* An installer that is running has done its work, or not.
CutOff ==
  /\ office' \in IF In(3) /\ mem.office = "needed" THEN {office, "absent"}
                 ELSE IF In(4) /\ mem.office = "needed" THEN {office, "target"} ELSE {office}
  /\ old' \in {old} \cup IF step = "remove" THEN {old \ {a} : a \in todo} ELSE {}
  /\ runtime' \in {runtime} \cup IF step = "remove" /\ todo = {} THEN {TRUE} ELSE {}
  /\ hancom' \in {hancom} \cup IF step = "msi" THEN {TRUE} ELSE {}

\* A check before the work, or an installer, fails.
InstallerFails ==
  /\ step \in {"work", "remove", "msi"}
  /\ IF StateUnusable THEN UNCHANGED faults ELSE Fault
  /\ CutOff
  /\ Throw
  /\ UNCHANGED asked

Stop ==
  /\ step # "idle"
  /\ Fault
  /\ CutOff
  /\ End("stopped")
  /\ UNCHANGED <<file, dashboard, asked>>

UserRemoves ==
  /\ step = "idle"
  /\ Fault
  /\ \/ office' = "absent" /\ UNCHANGED hancom
     \/ hancom' = FALSE /\ UNCHANGED office
  /\ UNCHANGED <<runtime, old, file, mem, stage, step, todo, dashboard, asked, result>>

-------------------------------------------------------------------------------

\* What a run does when nothing fails.
Module ==
  \/ GetInfo \/ CheckOffice \/ CheckHancom
  \/ SkipOffice \/ RemoveOffice \/ InstallOffice
  \/ SkipHancom \/ ListOldApps \/ (\E a \in OldApp : RemoveOldApp(a))
  \/ InstallRuntime \/ InstallHancom
  \/ Enter \/ Write \/ Leave

-------------------------------------------------------------------------------
(* Properties *)

\* A run that exits with 0, and only then is the job of the agent a success, leaves
\* both products installed, whatever earlier runs did and wherever they stopped.
SucceededMeansInstalled ==
  [][result' = "succeeded" /\ result # "succeeded" => office' = "target" /\ hancom']_vars

\* A run never removes an Office or a Hancom that is already the wanted one, also when
\* an earlier run stopped between the installer and the state file.
TargetIsKept ==
  [][step # "idle" => /\ office = "target" => office' = "target"
                      /\ hancom => hancom']_vars

\* What a report calls normal is installed at that moment: no report speaks from the
\* file of an earlier run.  (Except the failure of 01, which does: its file is not
\* written yet.)
ReportsAreCurrent ==
  [][dashboard' # dashboard /\ ~(dashboard'.stage = 1 /\ dashboard'.status = "failed")
       => /\ dashboard'.office = "normal" => office = "target"
          /\ dashboard'.hancom = "normal" => hancom]_vars

\* The MSI of Hancom is run only once every old product with an uninstaller is
\* gone and the runtime it needs is registered.
HancomOnCleanSystem ==
  [][hancom' /\ ~hancom => runtime /\ old \subseteq Orphan]_vars

\* The state file of a run that succeeded asks for a restart if any of its
\* installers did.
SuccessRemembersReboot ==
  step = "idle" /\ result = "succeeded" /\ asked => file # NoState /\ file.reboot

\* So does that of a run that failed: 3010 is kept as RebootRequired
\* (docs/TROUBLESHOOTING.md:45).
RebootIsRemembered ==
  step = "idle" /\ result \in {"succeeded", "failed"} /\ asked =>
    file # NoState /\ file.reboot

===============================================================================
