----------------------------- MODULE SetupProofs ------------------------------
(***************************************************************************)
(* Proofs about Setup, and so about every run of Deployment that starts    *)
(* there: for any old products, orphans and number of faults.  They need   *)
(* no fairness.                                                            *)
(***************************************************************************)
EXTENDS Setup, TLAPS

USE DeploymentAssumption, NoStateAssumption

-------------------------------------------------------------------------------
(* The inductive invariant *)

Busy == {"remove", "msi", "write"}      \* $state is ahead of the file

\* The file is of this run, no longer of an earlier one.
Ours == stage > 1 \/ step = "leave"

\* What a state calls normal is installed.
Honest(s) ==
  /\ s.office = "normal" => office = "target"
  /\ s.hancom = "normal" => hancom

\* Where a run is, and which of the two states it goes by.
ShapeInv ==
  /\ step \in {"idle", "main"} <=> stage = 0
  /\ step \in {"remove", "msi"} => stage = 6
  /\ step = "work" => mem = file
  /\ step \in Busy => mem \in State /\ Honest(mem)
  /\ Ours => file \in State /\ Honest(file)

\* Office is missing when it is called needed, until it is installed; from then on
\* it is called normal.
OfficeInv ==
  /\ stage = 2 /\ step = "write" => (mem.office = "needed" => office # "target")
  /\ \/ stage = 2 /\ step = "leave"
     \/ stage = 3 /\ step \in {"enter", "work"}
     => (file.office = "needed" => office # "target")
  /\ stage > 4 \/ (stage = 4 /\ step = "leave") => file.office = "normal"
  /\ stage >= 4 /\ step \in Busy => mem.office = "normal"

\* Module 06 removes what it has listed, and installs the runtime after that.
HancomInv ==
  /\ stage = 6 /\ step = "write" => mem.hancom = "normal"
  /\ stage = 6 /\ step = "leave" => file.hancom = "normal"
  /\ step = "remove" => old \subseteq todo \cup Orphan
  /\ step = "msi" => runtime /\ old \subseteq Orphan

\* An installer that asked for a restart has set the flag.
RebootInv ==
  /\ step = "main" \/ stage = 1 => ~asked
  /\ step \in Busy => (asked => mem.reboot)
  /\ Ours /\ step \notin Busy => (asked => file.reboot)

RunInv == ShapeInv /\ OfficeInv /\ HancomInv /\ RebootInv

\* The part of the invariant that is about Main.bat and its modules.
RunOK == DeployTypeOK /\ RunInv /\ SuccessRemembersReboot

SetupInv == SetupTypeOK /\ RunOK

-------------------------------------------------------------------------------
(* States and reports *)

LEMMA FreshState == Fresh \in State /\ Fresh.office = "unknown" /\ Fresh.hancom = "unknown"
BY DEF Fresh, State, Condition

\* A condition or the flag is written, and the rest of the state stays.
LEMMA WrittenState ==
  ASSUME NEW s \in State, NEW c \in Condition
  PROVE  /\ [s EXCEPT !.office = c] \in State
         /\ [s EXCEPT !.office = c].office = c
         /\ [s EXCEPT !.office = c].hancom = s.hancom
         /\ [s EXCEPT !.office = c].reboot = s.reboot
         /\ [s EXCEPT !.hancom = c] \in State
         /\ [s EXCEPT !.hancom = c].office = s.office
         /\ [s EXCEPT !.hancom = c].hancom = c
         /\ [s EXCEPT !.hancom = c].reboot = s.reboot
BY DEF State

LEMMA FlaggedState ==
  ASSUME NEW s \in State, NEW reboot \in BOOLEAN
  PROVE  /\ SetRebootRequired(s, reboot) \in State
         /\ SetRebootRequired(s, reboot).office = s.office
         /\ SetRebootRequired(s, reboot).hancom = s.hancom
         /\ SetRebootRequired(s, reboot).reboot = (s.reboot \/ reboot)
<1>1. (s.reboot \/ reboot) \in BOOLEAN
  OBVIOUS
<1>. QED
  BY <1>1 DEF SetRebootRequired, State

LEMMA SentReport ==
  ASSUME NEW s \in 0..6, NEW status \in {"running", "completed", "failed"},
         NEW saved \in State \cup {NoState}
  PROVE  Payload(s, status, saved) \in ReportRow
<1>. DEFINE known == ReadFor(s, status, saved)
<1>1. known \in State
  BY FreshState DEF ReadFor
<1>2. known.office \in Condition /\ known.hancom \in Condition /\ known.reboot \in BOOLEAN
  BY <1>1 DEF State
<1>. HIDE DEF known
<1>3. OfficeShown(s, status, known.office) \in Shown
  BY <1>2 DEF OfficeShown, Shown
<1>4. HancomShown(s, status, known.hancom) \in Shown
  BY <1>2 DEF HancomShown, Shown
<1>5. [stage |-> s, status |-> status, office |-> OfficeShown(s, status, known.office),
       hancom |-> HancomShown(s, status, known.hancom), reboot |-> known.reboot] \in ReportRow
  BY <1>2, <1>3, <1>4 DEF ReportRow, ReportStage
<1>. QED
  BY <1>5 DEF Payload, known

\* A report calls a product normal only when the file it read does; and 01 reads the
\* file when it ends.
LEMMA ReportedNormal ==
  ASSUME NEW s \in 0..6, NEW status \in {"running", "completed", "failed"},
         NEW saved \in State \cup {NoState}
  PROVE  LET report == Payload(s, status, saved)
         IN  /\ report.stage = s /\ report.status = status
             /\ report.office = "normal" =>
                  saved.office = "normal" /\ (s > 1 \/ (s = 1 /\ status # "running"))
             /\ report.hancom = "normal" =>
                  saved.hancom = "normal" /\ (s > 1 \/ (s = 1 /\ status # "running"))
<1>1. ReadFor(s, status, saved).office = "normal" =>
        saved.office = "normal" /\ (s > 1 \/ (s = 1 /\ status # "running"))
  BY FreshState DEF ReadFor
<1>2. ReadFor(s, status, saved).hancom = "normal" =>
        saved.hancom = "normal" /\ (s > 1 \/ (s = 1 /\ status # "running"))
  BY FreshState DEF ReadFor
<1>. QED
  BY <1>1, <1>2 DEF Payload, OfficeShown, HancomShown

LEMMA SendType ==
  ASSUME DeployTypeOK, NEW s \in 0..6, NEW status \in {"running", "completed", "failed"},
         Send(s, status, file)
  PROVE  dashboard' \in ReportRow
BY SentReport DEF Send, DeployTypeOK

-------------------------------------------------------------------------------
(* The end of a run *)

\* An installer that is cut off leaves a PC that its run could have left.
LEMMA CutOffKeeps ==
  ASSUME RunOK, CutOff
  PROVE  /\ office' \in {"absent", "other", "target"} /\ hancom' \in BOOLEAN
         /\ runtime' \in BOOLEAN /\ old' \subseteq OldApp
         /\ office = "target" => office' = "target"
         /\ hancom => hancom'
         /\ hancom' /\ ~hancom => runtime /\ old \subseteq Orphan
<1>. USE DEF RunOK, DeployTypeOK
<1>1. office' \in {"absent", "other", "target"} /\ hancom' \in BOOLEAN /\ runtime' \in BOOLEAN
  BY DEF CutOff
<1>2. old' \subseteq OldApp
  BY DEF CutOff
<1>3. office = "target" => office' = "target"
  BY DEF CutOff, In, RunInv, ShapeInv, OfficeInv
<1>4. (hancom => hancom') /\ (hancom' /\ ~hancom => runtime /\ old \subseteq Orphan)
  BY DEF CutOff, RunInv, HancomInv
<1>. QED
  BY <1>1, <1>2, <1>3, <1>4

\* What a run that did not succeed leaves.
LEMMA EndKeeps ==
  ASSUME RunOK, NEW how \in {"failed", "stopped"}, End(how),
         office' \in {"absent", "other", "target"}, hancom' \in BOOLEAN,
         runtime' \in BOOLEAN, old' \subseteq OldApp,
         UNCHANGED file, asked' \in BOOLEAN, dashboard' \in ReportRow,
         faults' \in 0..MaxFaults
  PROVE  RunOK'
<1>1. DeployTypeOK'
  BY DEF RunOK, DeployTypeOK, End
<1>2. RunInv'
  BY DEF End, RunInv, ShapeInv, OfficeInv, HancomInv, RebootInv, Busy, Ours
<1>3. SuccessRemembersReboot'
  BY DEF End, SuccessRemembersReboot
<1>. QED
  BY <1>1, <1>2, <1>3 DEF RunOK

LEMMA FaultType ==
  ASSUME DeployTypeOK, Fault \/ UNCHANGED faults
  PROVE  faults' \in 0..MaxFaults
BY DEF DeployTypeOK, Fault

-------------------------------------------------------------------------------
(* The steps of a run *)

\* A run that has not ended has not succeeded, and step is not idle.
LEMMA BeginKeeps ==
  ASSUME RunOK, Begin, UNCHANGED dashboard \/ dashboard' = Payload(0, "running", file)
  PROVE  RunOK'
<1>1. dashboard' \in ReportRow
  BY SentReport DEF RunOK, DeployTypeOK
<1>2. DeployTypeOK'
  BY <1>1 DEF RunOK, DeployTypeOK, Begin, software
<1>3. RunInv'
  BY DEF RunOK, Begin, software, RunInv, ShapeInv, OfficeInv, HancomInv, RebootInv, Busy, Ours,
         Honest
<1>4. SuccessRemembersReboot'
  BY DEF Begin, SuccessRemembersReboot
<1>. QED
  BY <1>2, <1>3, <1>4 DEF RunOK

LEMMA RunPlanKeeps ==
  ASSUME RunOK, RunPlan
  PROVE  RunOK'
<1>1. DeployTypeOK'
  BY DEF RunOK, DeployTypeOK, RunPlan, software
<1>2. RunInv'
  BY DEF RunOK, RunPlan, software, RunInv, ShapeInv, OfficeInv, HancomInv, RebootInv, Busy, Ours,
         Honest
<1>3. SuccessRemembersReboot'
  BY DEF RunPlan, SuccessRemembersReboot
<1>. QED
  BY <1>1, <1>2, <1>3 DEF RunOK

LEMMA EnterKeeps ==
  ASSUME RunOK, Enter
  PROVE  RunOK'
<1>1. dashboard' \in ReportRow
  BY SendType DEF RunOK, DeployTypeOK, Enter
<1>2. DeployTypeOK'
  BY <1>1 DEF RunOK, DeployTypeOK, Enter, software
<1>3. RunInv'
  BY DEF RunOK, Enter, software, RunInv, ShapeInv, OfficeInv, HancomInv, RebootInv, Busy, Ours,
         Honest
<1>4. SuccessRemembersReboot'
  BY DEF Enter, SuccessRemembersReboot
<1>. QED
  BY <1>2, <1>3, <1>4 DEF RunOK

LEMMA WriteKeeps ==
  ASSUME RunOK, Write
  PROVE  RunOK'
<1>1. DeployTypeOK'
  BY DEF RunOK, DeployTypeOK, Write, software
<1>2. RunInv'
  <2>. /\ file' = mem /\ step = "write" /\ step' = "leave" /\ stage \in 0..6
       /\ UNCHANGED <<office, hancom, runtime, old, mem, stage, asked>>
    BY DEF RunOK, DeployTypeOK, Write, software
  <2>1. ShapeInv'
    BY DEF RunOK, RunInv, ShapeInv, Busy, Ours, Honest
  <2>2. OfficeInv'
    BY DEF RunOK, RunInv, OfficeInv, Busy
  <2>3. HancomInv' /\ RebootInv'
    BY DEF RunOK, RunInv, HancomInv, RebootInv, Busy, Ours
  <2>. QED
    BY <2>1, <2>2, <2>3 DEF RunInv
<1>3. SuccessRemembersReboot'
  BY DEF Write, SuccessRemembersReboot
<1>. QED
  BY <1>1, <1>2, <1>3 DEF RunOK

\* The last module ends the run: its file is a state, and remembers the flag.
LEMMA LeaveKeeps ==
  ASSUME RunOK, Leave
  PROVE  RunOK'
<1>. stage \in 1..6 /\ file \in State /\ file # NoState /\ (asked => file.reboot)
  BY DEF RunOK, DeployTypeOK, Leave, RunInv, ShapeInv, RebootInv, Ours, Busy
<1>1. dashboard' \in ReportRow
  BY SendType DEF RunOK, DeployTypeOK, Leave
<1>2. CASE stage = 6
  <2>1. DeployTypeOK'
    BY <1>1, <1>2 DEF RunOK, DeployTypeOK, Leave, End, software
  <2>2. RunInv'
    BY <1>2 DEF Leave, End, RunInv, ShapeInv, OfficeInv, HancomInv, RebootInv, Busy, Ours
  <2>3. SuccessRemembersReboot'
    BY <1>2 DEF Leave, SuccessRemembersReboot
  <2>. QED
    BY <2>1, <2>2, <2>3 DEF RunOK
<1>3. CASE stage # 6
  <2>1. DeployTypeOK'
    BY <1>1, <1>3 DEF RunOK, DeployTypeOK, Leave, software
  <2>2. RunInv'
    <3>. /\ stage' = stage + 1 /\ step = "leave" /\ step' = "enter"
         /\ UNCHANGED <<office, hancom, runtime, old, file, asked>>
      BY <1>3 DEF Leave, software
    <3>1. ShapeInv'
      BY DEF RunOK, RunInv, ShapeInv, Busy, Ours, Honest
    <3>2. OfficeInv'
      BY DEF RunOK, RunInv, OfficeInv, Busy
    <3>3. HancomInv' /\ RebootInv'
      BY DEF RunOK, RunInv, HancomInv, RebootInv, Busy, Ours
    <3>. QED
      BY <3>1, <3>2, <3>3 DEF RunInv
  <2>3. SuccessRemembersReboot'
    BY <1>3 DEF Leave, SuccessRemembersReboot
  <2>. QED
    BY <2>1, <2>2, <2>3 DEF RunOK
<1>. QED
  BY <1>2, <1>3

-------------------------------------------------------------------------------
(* The steps of the modules *)

\* A module at work holds the file it has read.
LEMMA AtWork ==
  ASSUME RunOK, NEW s \in 1..6, In(s)
  PROVE  /\ stage = s /\ step = "work" /\ mem = file
         /\ s > 1 => /\ mem \in State /\ Honest(mem) /\ (asked => mem.reboot)
                     /\ mem.office \in Condition /\ mem.hancom \in Condition
         /\ s = 1 => ~asked
<1>1. stage = s /\ step = "work" /\ mem = file
  BY DEF In, RunOK, RunInv, ShapeInv
<1>2. s > 1 => mem \in State /\ Honest(mem) /\ (asked => mem.reboot)
  BY <1>1 DEF RunOK, RunInv, ShapeInv, RebootInv, Ours, Busy
<1>. QED
  BY <1>1, <1>2 DEF State, RunOK, RunInv, RebootInv

LEMMA SkipKeeps ==
  ASSUME RunOK, SkipOffice \/ SkipHancom
  PROVE  RunOK'
<1>1. /\ stage \in {3, 4, 6} /\ step = "work" /\ mem = file /\ mem \in State
      /\ stage \in {3, 4} => mem.office = "normal"
      /\ stage = 6 => mem.hancom = "normal"
  BY AtWork DEF SkipOffice, SkipHancom, In
<1>2. DeployTypeOK'
  BY DEF RunOK, DeployTypeOK, SkipOffice, SkipHancom, Skip, software
<1>3. RunInv'
  BY <1>1 DEF RunOK, SkipOffice, SkipHancom, Skip, software, RunInv, ShapeInv, OfficeInv,
              HancomInv, RebootInv, Busy, Ours, Honest
<1>4. SuccessRemembersReboot'
  BY DEF SkipOffice, SkipHancom, Skip, SuccessRemembersReboot
<1>. QED
  BY <1>2, <1>3, <1>4 DEF RunOK

\* A module that has done its work writes what is true of the PC it leaves.
LEMMA DoneKeeps ==
  ASSUME RunOK, stage \in 1..6, step # "leave", step' = "write", mem' \in State,
         UNCHANGED <<file, stage, todo, dashboard, result, faults, old>>,
         office' \in {"absent", "other", "target"}, hancom' \in BOOLEAN, runtime' \in BOOLEAN,
         asked' \in BOOLEAN,
         Honest(mem)', Ours => Honest(file)',
         stage = 2 => (mem'.office = "needed" => office' # "target"),
         stage >= 4 => mem'.office = "normal",
         stage = 6 => mem'.hancom = "normal",
         asked' => stage > 1 /\ mem'.reboot
  PROVE  RunOK'
<1>1. DeployTypeOK'
  BY DEF RunOK, DeployTypeOK
<1>2. ShapeInv'
  BY DEF RunOK, RunInv, ShapeInv, Busy, Ours
<1>3. OfficeInv'
  BY DEF RunOK, RunInv, OfficeInv, Busy
<1>4. HancomInv' /\ RebootInv'
  BY DEF RunOK, RunInv, HancomInv, RebootInv, Busy, Ours
<1>5. SuccessRemembersReboot'
  BY DEF SuccessRemembersReboot
<1>. QED
  BY <1>1, <1>2, <1>3, <1>4, <1>5 DEF RunOK, RunInv

LEMMA CheckKeeps ==
  ASSUME RunOK, GetInfo \/ CheckOffice \/ CheckHancom
  PROVE  RunOK'
<1>. USE DEF Save, software
<1>. /\ UNCHANGED <<office, hancom, runtime, old, file, stage, todo, dashboard, asked, result,
                    faults>>
     /\ step = "work" /\ step' = "write" /\ asked \in BOOLEAN /\ hancom \in BOOLEAN
     /\ runtime \in BOOLEAN /\ office \in {"absent", "other", "target"}
  BY DEF RunOK, DeployTypeOK, GetInfo, CheckOffice, CheckHancom, In
<1>0. Ours => Honest(file)'
  BY DEF RunOK, RunInv, ShapeInv, Honest
<1>. DEFINE office1 == Detected(office = "target")
            hancom1 == Detected(hancom)
<1>1. CASE GetInfo
  <2>1. stage = 1 /\ mem' = Fresh /\ ~asked
    BY <1>1, AtWork DEF GetInfo, In
  <2>. QED
    BY <1>0, <2>1, DoneKeeps, FreshState DEF Honest
<1>2. CASE CheckOffice
  <2>1. stage = 2 /\ mem \in State /\ Honest(mem) /\ (asked => mem.reboot)
    BY <1>2, AtWork DEF CheckOffice, In
  <2>2. office1 \in Condition /\ (office1 = "needed" <=> office # "target")
        /\ (office1 = "normal" => office = "target")
    BY DEF Detected, Condition
  <2>3. mem' = [mem EXCEPT !.office = office1]
    BY <1>2 DEF CheckOffice
  <2>. HIDE DEF office1
  <2>4. /\ mem' \in State /\ mem'.office = office1 /\ mem'.hancom = mem.hancom
        /\ mem'.reboot = mem.reboot
    BY <2>1, <2>2, <2>3, WrittenState
  <2>5. Honest(mem)'
    BY <2>1, <2>2, <2>4 DEF Honest
  <2>. QED
    BY <1>0, <2>1, <2>2, <2>4, <2>5, DoneKeeps
<1>3. CASE CheckHancom
  <2>1. /\ stage = 5 /\ mem = file /\ mem \in State /\ Honest(mem) /\ (asked => mem.reboot)
        /\ file.office = "normal"
    BY <1>3, AtWork DEF CheckHancom, In, RunOK, RunInv, OfficeInv
  <2>2. hancom1 \in Condition /\ (hancom1 = "normal" => hancom)
    BY DEF Detected, Condition
  <2>3. mem' = [mem EXCEPT !.hancom = hancom1]
    BY <1>3 DEF CheckHancom
  <2>. HIDE DEF hancom1
  <2>4. /\ mem' \in State /\ mem'.office = mem.office /\ mem'.hancom = hancom1
        /\ mem'.reboot = mem.reboot
    BY <2>1, <2>2, <2>3, WrittenState
  <2>5. Honest(mem)'
    BY <2>1, <2>2, <2>4 DEF Honest
  <2>. QED
    BY <1>0, <2>1, <2>4, <2>5, DoneKeeps
<1>. QED
  BY <1>1, <1>2, <1>3

LEMMA OfficeStepKeeps ==
  ASSUME RunOK, RemoveOffice \/ InstallOffice
  PROVE  RunOK'
<1>1. /\ stage \in {3, 4} /\ step = "work" /\ mem = file /\ mem \in State /\ Honest(mem)
      /\ (asked => mem.reboot) /\ mem.office = "needed"
  BY AtWork DEF RemoveOffice, InstallOffice, In
<1>2. PICK reboot \in BOOLEAN :
        /\ mem' = IF stage = 3 THEN SetRebootRequired(mem, reboot)
                  ELSE [SetRebootRequired(mem, reboot) EXCEPT !.office = "normal"]
        /\ asked' = (asked \/ reboot)
  BY <1>1 DEF RemoveOffice, InstallOffice, In
<1>3. /\ UNCHANGED <<hancom, runtime, old, file, stage, todo, dashboard, result, faults>>
      /\ step' = "write" /\ office' = IF stage = 3 THEN "absent" ELSE "target"
      /\ asked \in BOOLEAN /\ hancom \in BOOLEAN /\ runtime \in BOOLEAN
  BY DEF RunOK, DeployTypeOK, RemoveOffice, InstallOffice, In
<1>4. /\ mem' \in State /\ mem'.hancom = mem.hancom /\ mem'.reboot = (mem.reboot \/ reboot)
      /\ mem'.office = IF stage = 3 THEN "needed" ELSE "normal"
  <2>. DEFINE flagged == SetRebootRequired(mem, reboot)
  <2>1. /\ flagged \in State /\ flagged.office = "needed" /\ flagged.hancom = mem.hancom
        /\ flagged.reboot = (mem.reboot \/ reboot)
    BY <1>1, FlaggedState
  <2>2. mem' = IF stage = 3 THEN flagged ELSE [flagged EXCEPT !.office = "normal"]
    BY <1>2
  <2>. HIDE DEF flagged
  <2>3. "normal" \in Condition
    BY DEF Condition
  <2>4. LET written == [flagged EXCEPT !.office = "normal"]
        IN  /\ written \in State /\ written.office = "normal"
            /\ written.hancom = flagged.hancom /\ written.reboot = flagged.reboot
    BY <2>1, <2>3, WrittenState
  <2>. QED
    BY <2>1, <2>2, <2>4
<1>5. Honest(mem)' /\ Honest(file)'
  BY <1>1, <1>3, <1>4 DEF Honest
<1>6. asked' => stage > 1 /\ mem'.reboot
  BY <1>1, <1>2, <1>4
<1>7. asked' \in BOOLEAN
  BY <1>2, <1>3
<1>. QED
  BY <1>1, <1>3, <1>4, <1>5, <1>6, <1>7, DoneKeeps

\* While module 06 works, Office is done with and the state is ahead of the file.
LEMMA HancomAtWork ==
  ASSUME RunOK, step \in {"remove", "msi"}
  PROVE  /\ stage = 6 /\ mem \in State /\ Honest(mem) /\ (asked => mem.reboot)
         /\ mem.office = "normal" /\ office = "target"
         /\ file \in State /\ Honest(file) /\ file.office = "normal" /\ asked \in BOOLEAN
BY DEF RunOK, DeployTypeOK, RunInv, ShapeInv, OfficeInv, RebootInv, Busy, Ours, Honest

LEMMA ListOldAppsKeeps ==
  ASSUME RunOK, ListOldApps
  PROVE  RunOK'
<1>1. stage = 6 /\ mem = file /\ mem \in State /\ Honest(mem) /\ (asked => mem.reboot)
  BY AtWork DEF ListOldApps, In
<1>2. DeployTypeOK'
  BY DEF RunOK, DeployTypeOK, ListOldApps, software
<1>3. ShapeInv' /\ OfficeInv'
  BY <1>1 DEF RunOK, RunInv, ShapeInv, OfficeInv, ListOldApps, In, software, Busy, Ours, Honest
<1>4. HancomInv' /\ RebootInv'
  BY <1>1 DEF RunOK, RunInv, HancomInv, RebootInv, ListOldApps, In, software, Busy, Ours
<1>5. SuccessRemembersReboot'
  BY DEF ListOldApps, SuccessRemembersReboot
<1>. QED
  BY <1>2, <1>3, <1>4, <1>5 DEF RunOK, RunInv

LEMMA RemoveOldAppKeeps ==
  ASSUME RunOK, NEW a \in OldApp, RemoveOldApp(a)
  PROVE  RunOK'
<1>1. PICK reboot \in BOOLEAN : mem' = SetRebootRequired(mem, reboot) /\ asked' = (asked \/ reboot)
  BY DEF RemoveOldApp
<1>2. /\ step = "remove" /\ step' = "remove" /\ a \in todo /\ todo' = todo \ {a}
      /\ old' = IF a \in Orphan THEN old ELSE old \ {a}
      /\ UNCHANGED <<office, hancom, runtime, file, stage, dashboard, result, faults>>
  BY DEF RemoveOldApp
<1>3. /\ stage = 6 /\ mem \in State /\ Honest(mem) /\ (asked => mem.reboot)
      /\ mem.office = "normal" /\ file \in State /\ Honest(file) /\ file.office = "normal"
      /\ asked \in BOOLEAN
  BY <1>2, HancomAtWork
<1>4. /\ mem' \in State /\ mem'.office = mem.office /\ mem'.hancom = mem.hancom
      /\ mem'.reboot = (mem.reboot \/ reboot)
  BY <1>1, <1>3, FlaggedState
<1>5. asked' \in BOOLEAN /\ (asked' => mem'.reboot)
  BY <1>1, <1>3, <1>4
<1>6. Honest(mem)' /\ Honest(file)'
  BY <1>2, <1>3, <1>4 DEF Honest
<1>7. old \subseteq todo \cup Orphan /\ old \subseteq OldApp /\ todo \subseteq OldApp
  BY <1>2 DEF RunOK, DeployTypeOK, RunInv, HancomInv
<1>8. old' \subseteq todo' \cup Orphan /\ old' \subseteq OldApp /\ todo' \subseteq OldApp
  BY <1>2, <1>7
<1>9. DeployTypeOK'
  BY <1>2, <1>4, <1>5, <1>8 DEF RunOK, DeployTypeOK
<1>10. RunInv'
  BY <1>2, <1>3, <1>4, <1>5, <1>6, <1>8 DEF RunInv, ShapeInv, OfficeInv, HancomInv, RebootInv,
                                            Busy, Ours
<1>11. SuccessRemembersReboot'
  BY <1>2 DEF SuccessRemembersReboot
<1>. QED
  BY <1>9, <1>10, <1>11 DEF RunOK

LEMMA InstallRuntimeKeeps ==
  ASSUME RunOK, InstallRuntime
  PROVE  RunOK'
<1>1. PICK reboot \in BOOLEAN : mem' = SetRebootRequired(mem, reboot) /\ asked' = (asked \/ reboot)
  BY DEF InstallRuntime
<1>2. /\ step = "remove" /\ step' = "msi" /\ todo = {} /\ runtime' = TRUE
      /\ UNCHANGED <<office, hancom, old, file, stage, todo, dashboard, result, faults>>
  BY DEF InstallRuntime
<1>3. /\ stage = 6 /\ mem \in State /\ Honest(mem) /\ (asked => mem.reboot)
      /\ mem.office = "normal" /\ file \in State /\ Honest(file) /\ file.office = "normal"
      /\ asked \in BOOLEAN
  BY <1>2, HancomAtWork
<1>4. /\ mem' \in State /\ mem'.office = mem.office /\ mem'.hancom = mem.hancom
      /\ mem'.reboot = (mem.reboot \/ reboot)
  BY <1>1, <1>3, FlaggedState
<1>5. asked' \in BOOLEAN /\ (asked' => mem'.reboot)
  BY <1>1, <1>3, <1>4
<1>6. Honest(mem)' /\ Honest(file)'
  BY <1>2, <1>3, <1>4 DEF Honest
<1>7. old \subseteq Orphan
  BY <1>2 DEF RunOK, RunInv, HancomInv
<1>8. DeployTypeOK'
  BY <1>2, <1>4, <1>5 DEF RunOK, DeployTypeOK
<1>9. RunInv'
  BY <1>2, <1>3, <1>4, <1>5, <1>6, <1>7 DEF RunInv, ShapeInv, OfficeInv, HancomInv, RebootInv,
                                            Busy, Ours
<1>10. SuccessRemembersReboot'
  BY <1>2 DEF SuccessRemembersReboot
<1>. QED
  BY <1>8, <1>9, <1>10 DEF RunOK

LEMMA InstallHancomKeeps ==
  ASSUME RunOK, InstallHancom
  PROVE  RunOK'
<1>. DEFINE flagged(reboot) == SetRebootRequired(mem, reboot)
<1>1. PICK reboot \in BOOLEAN : /\ mem' = [flagged(reboot) EXCEPT !.hancom = "normal"]
                                /\ asked' = (asked \/ reboot)
  BY DEF InstallHancom
<1>2. /\ step = "msi" /\ step' = "write" /\ hancom' = TRUE
      /\ UNCHANGED <<office, runtime, old, file, stage, todo, dashboard, result, faults>>
  BY DEF InstallHancom
<1>3. /\ stage = 6 /\ mem \in State /\ (asked => mem.reboot) /\ mem.office = "normal"
      /\ office = "target" /\ file \in State /\ Honest(file) /\ asked \in BOOLEAN
  BY <1>2, HancomAtWork
<1>4. /\ flagged(reboot) \in State /\ flagged(reboot).office = "normal"
      /\ flagged(reboot).reboot = (mem.reboot \/ reboot)
  BY <1>3, FlaggedState
<1>. HIDE DEF flagged
<1>5. /\ mem' \in State /\ mem'.office = "normal" /\ mem'.hancom = "normal"
      /\ mem'.reboot = (mem.reboot \/ reboot)
  <2>1. "normal" \in Condition
    BY DEF Condition
  <2>. QED
    BY <1>1, <1>4, <2>1, WrittenState
<1>6. asked' \in BOOLEAN /\ (asked' => mem'.reboot)
  BY <1>1, <1>3, <1>5
<1>7. Honest(mem)' /\ Honest(file)'
  BY <1>2, <1>3, <1>5 DEF Honest
<1>8. runtime \in BOOLEAN /\ office \in {"absent", "other", "target"}
  BY DEF RunOK, DeployTypeOK
<1>. QED
  BY <1>2, <1>3, <1>5, <1>6, <1>7, <1>8, DoneKeeps

-------------------------------------------------------------------------------
(* Failures, and what happens between two runs *)

LEMMA ThrowKeeps ==
  ASSUME RunOK, Throw, CutOff \/ UNCHANGED software, UNCHANGED asked, Fault \/ UNCHANGED faults
  PROVE  RunOK'
<1>1. dashboard' \in ReportRow
  BY SendType DEF RunOK, DeployTypeOK, Throw
<1>2. faults' \in 0..MaxFaults /\ asked' \in BOOLEAN
  BY FaultType DEF RunOK, DeployTypeOK
<1>3. /\ office' \in {"absent", "other", "target"} /\ hancom' \in BOOLEAN
      /\ runtime' \in BOOLEAN /\ old' \subseteq OldApp
  BY CutOffKeeps DEF RunOK, DeployTypeOK, software
<1>. QED
  BY <1>1, <1>2, <1>3, EndKeeps DEF Throw

LEMMA FailKeeps ==
  ASSUME RunOK, PrerequisiteMissing \/ WriteFails \/ InstallerFails \/ Stop
  PROVE  RunOK'
<1>1. CASE PrerequisiteMissing
  <2>1. dashboard' \in ReportRow
    BY <1>1, SendType DEF RunOK, DeployTypeOK, PrerequisiteMissing
  <2>2. faults' \in 0..MaxFaults /\ asked' \in BOOLEAN
    BY <1>1, FaultType DEF RunOK, DeployTypeOK, PrerequisiteMissing
  <2>. QED
    BY <1>1, <2>1, <2>2, EndKeeps DEF PrerequisiteMissing, RunOK, DeployTypeOK, software
<1>2. CASE WriteFails
  BY <1>2, ThrowKeeps DEF WriteFails
<1>3. CASE InstallerFails
  BY <1>3, ThrowKeeps DEF InstallerFails
<1>4. CASE Stop
  <2>1. dashboard' \in ReportRow /\ faults' \in 0..MaxFaults /\ asked' \in BOOLEAN
    BY <1>4, FaultType DEF RunOK, DeployTypeOK, Stop
  <2>. QED
    BY <1>4, <2>1, CutOffKeeps, EndKeeps DEF Stop
<1>. QED
  BY <1>1, <1>2, <1>3, <1>4

\* Between two runs only the software and the reports change, or a job fails before
\* Main.bat is started.
LEMMA IdleKeeps ==
  ASSUME RunOK, step = "idle", UNCHANGED <<file, mem, stage, step, todo, runtime, old>>,
         office' \in {"absent", "other", "target"}, hancom' \in BOOLEAN,
         dashboard' \in ReportRow, faults' \in 0..MaxFaults,
         UNCHANGED <<asked, result>> \/ (asked' = FALSE /\ result' = "failed")
  PROVE  RunOK'
<1>1. DeployTypeOK'
  BY DEF RunOK, DeployTypeOK
<1>2. RunInv'
  BY DEF RunOK, RunInv, ShapeInv, OfficeInv, HancomInv, RebootInv, Busy, Ours
<1>3. SuccessRemembersReboot'
  BY DEF RunOK, SuccessRemembersReboot
<1>. QED
  BY <1>1, <1>2, <1>3 DEF RunOK

LEMMA BetweenRunsKeeps ==
  ASSUME RunOK, UserRemoves \/ ReportTest \/ GiveUpJob
  PROVE  RunOK'
<1>1. /\ step = "idle" /\ UNCHANGED <<file, mem, stage, step, todo, runtime, old>>
      /\ UNCHANGED <<asked, result>> \/ (asked' = FALSE /\ result' = "failed")
  BY DEF UserRemoves, ReportTest, GiveUpJob, software
<1>2. office' \in {"absent", "other", "target"} /\ hancom' \in BOOLEAN
  BY DEF RunOK, DeployTypeOK, UserRemoves, ReportTest, GiveUpJob, software
<1>3. dashboard' \in ReportRow
  BY SentReport DEF RunOK, DeployTypeOK, UserRemoves, ReportTest, GiveUpJob
<1>4. faults' \in 0..MaxFaults
  BY FaultType DEF RunOK, UserRemoves, ReportTest, GiveUpJob
<1>. QED
  BY <1>1, <1>2, <1>3, <1>4, IdleKeeps

-------------------------------------------------------------------------------
(* The invariant is kept *)

LEMMA RunKeeps ==
  ASSUME RunOK, prep = "ready" => media \in {"torn", "whole"}, Run
  PROVE  RunOK'
<1>1. CASE StartByHand \/ StartByAgent
  BY <1>1, BeginKeeps DEF StartByHand, StartByAgent
<1>2. CASE UserRemoves \/ ReportTest
  BY <1>2, BetweenRunsKeeps
<1>3. CASE RunPlan
  BY <1>3, RunPlanKeeps
<1>4. CASE Module
  BY <1>4, CheckKeeps, SkipKeeps, OfficeStepKeeps, ListOldAppsKeeps, RemoveOldAppKeeps,
     InstallRuntimeKeeps, InstallHancomKeeps, EnterKeeps, WriteKeeps, LeaveKeeps DEF Module
<1>5. CASE TornMediaFails
  BY <1>5, ThrowKeeps DEF TornMediaFails
<1>6. CASE PrerequisiteMissing \/ WriteFails \/ InstallerFails \/ Stop
  BY <1>6, FailKeeps
<1>. QED
  BY <1>1, <1>2, <1>3, <1>4, <1>5, <1>6 DEF Run

LEMMA FrameKeeps ==
  ASSUME RunOK, UNCHANGED vars
  PROVE  RunOK'
<1>. USE DEF vars, software
<1>1. DeployTypeOK'
  BY DEF RunOK, DeployTypeOK
<1>2. RunInv'
  BY DEF RunOK, RunInv, ShapeInv, OfficeInv, HancomInv, RebootInv, Busy, Ours, Honest
<1>3. SuccessRemembersReboot'
  BY DEF RunOK, SuccessRemembersReboot
<1>. QED
  BY <1>1, <1>2, <1>3 DEF RunOK

\* Main.bat does not run while the media are fetched.
LEMMA RunNotWhileFetching ==
  ASSUME SetupTypeOK, Run
  PROVE  prep \in {"no", "ready"}
<1>1. CASE Module
  BY <1>1 DEF Module, GetInfo, CheckOffice, CheckHancom, SkipOffice, RemoveOffice, InstallOffice,
              SkipHancom, ListOldApps, RemoveOldApp, InstallRuntime, InstallHancom, Enter, Write,
              Leave, In, SetupTypeOK
<1>2. CASE RunPlan \/ TornMediaFails \/ PrerequisiteMissing \/ WriteFails \/ InstallerFails \/ Stop
  BY <1>2 DEF RunPlan, TornMediaFails, PrerequisiteMissing, WriteFails, InstallerFails, Stop,
              SetupTypeOK
<1>. QED
  BY <1>1, <1>2 DEF Run

LEMMA RunStepKeeps ==
  ASSUME SetupInv, RunStep
  PROVE  SetupInv'
<1>1. RunOK'
  BY RunKeeps DEF SetupInv, SetupTypeOK, RunStep
<1>2. prep \in {"no", "ready"}
  BY RunNotWhileFetching DEF SetupInv, RunStep
<1>3. SetupTypeOK'
  BY <1>1, <1>2 DEF SetupInv, SetupTypeOK, RunOK, RunStep
<1>. QED
  BY <1>1, <1>3 DEF SetupInv

LEMMA MediaKeep ==
  ASSUME SetupInv,
         \/ PutMedia \/ BeginJob \/ Download \/ CopyMedia \/ InstallAgentCopies
         \/ GiveUpJob \/ CopyCutShort
  PROVE  SetupInv'
<1>. USE DEF SetupInv, SetupTypeOK
<1>1. CASE PutMedia \/ BeginJob \/ Download \/ CopyMedia
  <2>1. RunOK' /\ UNCHANGED step
    BY <1>1, FrameKeeps DEF PutMedia, BeginJob, Download, CopyMedia, vars
  <2>2. Download => prep' \in {"copy torn", "copy whole"}
    <3>1. Unpacked["torn"] = "copy torn" /\ Unpacked["whole"] = "copy whole"
      BY DEF Unpacked
    <3>. QED
      BY <3>1 DEF Download, Ready
  <2>3. source' \in Media \ {"some"} /\ media' \in Media
    BY <1>1 DEF PutMedia, BeginJob, Download, CopyMedia, Media
  <2>4. /\ prep' \in {"no", "download", "copy torn", "copy whole", "ready"}
        /\ prep' = "ready" => media' \in {"torn", "whole"}
        /\ prep' \in {"download", "copy torn", "copy whole"} => step = "idle"
    <3>1. CASE Download
      BY <2>2, <3>1 DEF Download
    <3>2. CASE PutMedia \/ BeginJob \/ CopyMedia
      BY <3>2 DEF PutMedia, BeginJob, CopyMedia, Ready
    <3>. QED
      BY <1>1, <3>1, <3>2
  <2>. QED
    BY <2>1, <2>3, <2>4 DEF RunOK
<1>2. CASE GiveUpJob
  <2>1. RunOK'
    BY <1>2, BetweenRunsKeeps
  <2>. QED
    BY <1>2, <2>1 DEF RunOK, GiveUpJob
<1>3. CASE InstallAgentCopies \/ CopyCutShort
  <2>1. /\ step = "idle" /\ faults' \in 0..MaxFaults
        /\ UNCHANGED <<office, hancom, runtime, old, file, mem, stage, step, todo, dashboard>>
        /\ UNCHANGED <<asked, result>> \/ (asked' = FALSE /\ result' = "failed")
    BY <1>3, FaultType DEF InstallAgentCopies, CopyCutShort, software, RunOK
  <2>2. RunOK'
    BY <2>1, IdleKeeps DEF RunOK, DeployTypeOK
  <2>. QED
    BY <1>3, <2>1, <2>2 DEF RunOK, InstallAgentCopies, CopyCutShort, Media
<1>. QED
  BY <1>1, <1>2, <1>3

LEMMA SetupInvInit ==
  ASSUME SetupInit
  PROVE  SetupInv
<1>1. NoReport \in ReportRow
  BY DEF NoReport, ReportRow, ReportStage, Shown, Condition
<1>2. DeployTypeOK
  <2>1. /\ stage \in 0..6 /\ faults \in 0..MaxFaults /\ old \subseteq OldApp /\ todo \subseteq OldApp
        /\ dashboard \in ReportRow
    BY <1>1 DEF SetupInit, Init
  <2>. QED
    BY <2>1 DEF SetupInit, Init, DeployTypeOK
<1>3. RunInv /\ SuccessRemembersReboot
  BY DEF SetupInit, Init, RunInv, ShapeInv, OfficeInv, HancomInv, RebootInv, Busy, Ours,
         SuccessRemembersReboot
<1>. QED
  BY <1>2, <1>3 DEF SetupInit, SetupInv, RunOK, SetupTypeOK, Media

LEMMA SetupInvKept ==
  ASSUME SetupInv, [SetupNext]_setupVars
  PROVE  SetupInv'
<1>1. CASE UNCHANGED setupVars
  BY <1>1, FrameKeeps DEF setupVars, mediaVars, SetupInv, SetupTypeOK, RunOK, vars
<1>2. CASE SetupNext
  BY <1>2, MediaKeep, RunStepKeeps DEF SetupNext
<1>. QED
  BY <1>1, <1>2

LEMMA SetupInvariant == SetupSpec => []SetupInv
BY SetupInvInit, SetupInvKept, PTL DEF SetupSpec

\* The types: a module writes only whole states with conditions the reader knows, and the
\* media of a job whose Main.bat runs are complete enough to be called ready.
THEOREM SetupTypeCorrect == SetupSpec => []SetupTypeOK
<1>1. SetupInv => SetupTypeOK
  BY DEF SetupInv
<1>. QED
  BY <1>1, SetupInvariant, PTL

\* A run that succeeded has kept in the state file that an installer asked for a
\* restart, whatever earlier runs had done (Set-RebootRequired of the modules 03 to 06).
THEOREM SuccessKeepsReboot == SetupSpec => []SuccessRemembersReboot
<1>1. SetupInv => SuccessRemembersReboot
  BY DEF SetupInv, RunOK
<1>. QED
  BY <1>1, SetupInvariant, PTL

-------------------------------------------------------------------------------
(* What a step may do *)

\* The steps of Setup that are not of a run install nothing while one goes on, report
\* nothing and end no run with success.
LEMMA OtherSteps ==
  ASSUME SetupTypeOK,
         \/ PutMedia \/ BeginJob \/ Download \/ CopyMedia \/ InstallAgentCopies
         \/ GiveUpJob \/ CopyCutShort
  PROVE  /\ UNCHANGED <<office, hancom, dashboard>>
         /\ result' = result \/ result' = "failed"
BY DEF PutMedia, BeginJob, Download, CopyMedia, InstallAgentCopies, GiveUpJob, CopyCutShort,
       vars, software

\* Only the last module of a plan ends a run with success.
LEMMA SuccessStep ==
  ASSUME RunOK, Run, result' = "succeeded", result # "succeeded"
  PROVE  office' = "target" /\ hancom'
<1>1. Leave /\ stage = 6
  <2>1. ~(\/ StartByHand \/ StartByAgent \/ UserRemoves \/ ReportTest \/ RunPlan)
    BY DEF StartByHand, StartByAgent, UserRemoves, ReportTest, RunPlan, Begin
  <2>2. ~(\/ PrerequisiteMissing \/ WriteFails \/ InstallerFails \/ Stop \/ TornMediaFails)
    BY DEF PrerequisiteMissing, WriteFails, InstallerFails, Stop, TornMediaFails, Throw, End
  <2>3. ~(\/ GetInfo \/ CheckOffice \/ CheckHancom \/ SkipOffice \/ RemoveOffice \/ InstallOffice
          \/ SkipHancom \/ ListOldApps \/ (\E a \in OldApp : RemoveOldApp(a))
          \/ InstallRuntime \/ InstallHancom \/ Enter \/ Write)
    BY DEF GetInfo, CheckOffice, CheckHancom, SkipOffice, RemoveOffice, InstallOffice, SkipHancom,
           ListOldApps, RemoveOldApp, InstallRuntime, InstallHancom, Enter, Write, Save, Skip
  <2>4. Leave
    BY <2>1, <2>2, <2>3 DEF Run, Module
  <2>. QED
    BY <2>4 DEF Leave
<1>2. file.office = "normal" /\ file.hancom = "normal" /\ Honest(file)
  BY <1>1 DEF Leave, RunOK, RunInv, ShapeInv, OfficeInv, HancomInv, Ours
<1>. QED
  BY <1>1, <1>2 DEF Leave, software, Honest

\* What a step of a run does to the two products.
LEMMA ProductStep ==
  ASSUME RunOK, Run
  PROVE  /\ step # "idle" => /\ office = "target" => office' = "target"
                             /\ hancom => hancom'
         /\ hancom' /\ ~hancom => runtime /\ old \subseteq Orphan
<1>1. CASE UserRemoves
  BY <1>1 DEF UserRemoves
<1>2. CASE TornMediaFails \/ InstallerFails \/ Stop
  BY <1>2, CutOffKeeps DEF TornMediaFails, InstallerFails, Stop
<1>3. CASE RemoveOffice
  <2>1. mem.office = "needed" => office # "target"
    BY <1>3, AtWork DEF RemoveOffice, In, RunOK, RunInv, OfficeInv
  <2>. QED
    BY <1>3, <2>1 DEF RemoveOffice
<1>4. CASE InstallOffice
  BY <1>4 DEF InstallOffice
<1>5. CASE InstallHancom
  BY <1>5 DEF InstallHancom, RunOK, RunInv, HancomInv
<1>6. CASE \/ StartByHand \/ StartByAgent \/ ReportTest \/ RunPlan
           \/ PrerequisiteMissing \/ WriteFails
  BY <1>6 DEF StartByHand, StartByAgent, ReportTest, RunPlan, PrerequisiteMissing, WriteFails,
              Begin, software
<1>7. CASE \/ GetInfo \/ CheckOffice \/ CheckHancom \/ SkipOffice \/ SkipHancom \/ ListOldApps
           \/ Enter \/ Write \/ Leave
  BY <1>7 DEF GetInfo, CheckOffice, CheckHancom, SkipOffice, SkipHancom, ListOldApps, Enter, Write,
              Leave, Save, Skip, software
<1>8. CASE InstallRuntime \/ (\E a \in OldApp : RemoveOldApp(a))
  <2>1. InstallRuntime => UNCHANGED <<office, hancom>>
    BY DEF InstallRuntime
  <2>2. ASSUME NEW a \in OldApp, RemoveOldApp(a)
        PROVE  UNCHANGED <<office, hancom>>
    BY <2>2 DEF RemoveOldApp
  <2>. QED
    BY <1>8, <2>1, <2>2
<1>. QED
  BY <1>1, <1>2, <1>3, <1>4, <1>5, <1>6, <1>7, <1>8 DEF Run, Module

\* A module that is not the first reads the file of its own run, and so does the first
\* when it reports that it is done.
LEMMA SpeaksOfThisRun ==
  ASSUME RunOK, NEW s \in 0..6, NEW status \in {"running", "completed", "failed"},
         dashboard' = Payload(s, status, file),
         s # 0 => s = stage /\ (status = "completed" => step = "leave"),
         ~(dashboard'.stage = 1 /\ dashboard'.status = "failed")
  PROVE  /\ dashboard'.office = "normal" => office = "target"
         /\ dashboard'.hancom = "normal" => hancom
<1>1. file \in State \cup {NoState}
  BY DEF RunOK, DeployTypeOK
<1>2. /\ dashboard'.stage = s /\ dashboard'.status = status
      /\ dashboard'.office = "normal" =>
           file.office = "normal" /\ (s > 1 \/ (s = 1 /\ status # "running"))
      /\ dashboard'.hancom = "normal" =>
           file.hancom = "normal" /\ (s > 1 \/ (s = 1 /\ status # "running"))
  BY <1>1, ReportedNormal
<1>3. s > 1 \/ (s = 1 /\ status # "running") => Honest(file)
  BY <1>2 DEF RunOK, RunInv, ShapeInv, Ours
<1>. QED
  BY <1>2, <1>3 DEF Honest

LEMMA ReportStep ==
  ASSUME RunOK, Run, dashboard' # dashboard,
         ~(dashboard'.stage = 1 /\ dashboard'.status = "failed")
  PROVE  /\ dashboard'.office = "normal" => office = "target"
         /\ dashboard'.hancom = "normal" => hancom
<1>. stage \in 0..6 /\ 0 \in 0..6
  BY DEF RunOK, DeployTypeOK
<1>1. CASE TornMediaFails \/ WriteFails \/ InstallerFails
  BY <1>1, SpeaksOfThisRun DEF TornMediaFails, WriteFails, InstallerFails, Throw, Send
<1>2. CASE StartByAgent \/ ReportTest \/ PrerequisiteMissing
  BY <1>2, SpeaksOfThisRun DEF StartByAgent, ReportTest, PrerequisiteMissing, Send
<1>3. CASE Enter \/ Leave
  BY <1>3, SpeaksOfThisRun DEF Enter, Leave, Send
<1>4. CASE StartByHand \/ UserRemoves \/ RunPlan \/ Stop
  BY <1>4 DEF StartByHand, UserRemoves, RunPlan, Stop
<1>5. CASE \/ GetInfo \/ CheckOffice \/ CheckHancom \/ SkipOffice \/ RemoveOffice \/ InstallOffice
           \/ SkipHancom \/ ListOldApps \/ (\E a \in OldApp : RemoveOldApp(a))
           \/ InstallRuntime \/ InstallHancom \/ Write
  BY <1>5 DEF GetInfo, CheckOffice, CheckHancom, SkipOffice, RemoveOffice, InstallOffice,
              SkipHancom, ListOldApps, RemoveOldApp, InstallRuntime, InstallHancom, Write, Save, Skip
<1>. QED
  BY <1>1, <1>2, <1>3, <1>4, <1>5 DEF Run, Module

\* A run that ends with exit code 0 has both products installed (InvokeApplications.ps1
\* goes on only after exit code 0, and 02 and 05 have looked in this very run).
THEOREM SuccessInstalls == SetupSpec => SucceededMeansInstalled
<1>1. ASSUME SetupInv, [SetupNext]_setupVars
      PROVE  [result' = "succeeded" /\ result # "succeeded" => office' = "target" /\ hancom']_vars
  <2>1. CASE UNCHANGED setupVars
    BY <2>1 DEF setupVars
  <2>2. CASE RunStep
    BY <1>1, <2>2, SuccessStep DEF SetupInv, RunStep
  <2>3. CASE SetupNext /\ ~RunStep
    BY <1>1, <2>3, OtherSteps DEF SetupNext, SetupInv
  <2>. QED
    BY <1>1, <2>1, <2>2, <2>3
<1>. QED
  BY <1>1, SetupInvariant, PTL DEF SetupSpec, SucceededMeansInstalled

\* Once the wanted Office or Hancom is there, no run takes it away: 03 removes only what
\* 02 has not found in this very run.
THEOREM TargetStays == SetupSpec => TargetIsKept
<1>1. ASSUME SetupInv, [SetupNext]_setupVars
      PROVE  [step # "idle" => /\ office = "target" => office' = "target"
                               /\ hancom => hancom']_vars
  <2>1. CASE UNCHANGED setupVars
    BY <2>1 DEF setupVars
  <2>2. CASE RunStep
    BY <1>1, <2>2, ProductStep DEF SetupInv, RunStep
  <2>3. CASE SetupNext /\ ~RunStep
    BY <1>1, <2>3, OtherSteps DEF SetupNext, SetupInv
  <2>. QED
    BY <1>1, <2>1, <2>2, <2>3
<1>. QED
  BY <1>1, SetupInvariant, PTL DEF SetupSpec, TargetIsKept

\* A report never calls a product installed that is not, except the failure of 01, which
\* still reads the file of an earlier run.
THEOREM ReportsTellNow == SetupSpec => ReportsAreCurrent
<1>1. ASSUME SetupInv, [SetupNext]_setupVars
      PROVE  [dashboard' # dashboard /\ ~(dashboard'.stage = 1 /\ dashboard'.status = "failed")
                => /\ dashboard'.office = "normal" => office = "target"
                   /\ dashboard'.hancom = "normal" => hancom]_vars
  <2>1. CASE UNCHANGED setupVars
    BY <2>1 DEF setupVars
  <2>2. CASE RunStep
    BY <1>1, <2>2, ReportStep DEF SetupInv, RunStep
  <2>3. CASE SetupNext /\ ~RunStep
    BY <1>1, <2>3, OtherSteps DEF SetupNext, SetupInv
  <2>. QED
    BY <1>1, <2>1, <2>2, <2>3
<1>. QED
  BY <1>1, SetupInvariant, PTL DEF SetupSpec, ReportsAreCurrent

\* The MSI of Hancom starts only where the old products with an uninstaller are gone and
\* the runtime is registered (06_InstallHancom.ps1 does both before).
THEOREM HancomInstallsClean == SetupSpec => HancomOnCleanSystem
<1>1. ASSUME SetupInv, [SetupNext]_setupVars
      PROVE  [hancom' /\ ~hancom => runtime /\ old \subseteq Orphan]_vars
  <2>1. CASE UNCHANGED setupVars
    BY <2>1 DEF setupVars, vars, software
  <2>2. CASE RunStep
    BY <1>1, <2>2, ProductStep DEF SetupInv, RunStep
  <2>3. CASE SetupNext /\ ~RunStep
    BY <1>1, <2>3, OtherSteps DEF SetupNext, SetupInv
  <2>. QED
    BY <1>1, <2>1, <2>2, <2>3
<1>. QED
  BY <1>1, SetupInvariant, PTL DEF SetupSpec, HancomOnCleanSystem
===============================================================================
