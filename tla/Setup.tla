-------------------------------- MODULE Setup --------------------------------
(***************************************************************************)
(* A job of the agent from its order to its end: the server orders it only *)
(* when it or the PC has the media, RunAgentJob fetches what the PC lacks  *)
(* and then does what Deployment says.                                     *)
(*                                                                         *)
(* Media are ready where every required file and key exists, which says    *)
(* nothing of the other files, nor of the end of one that is being copied: *)
(* "empty" is no directory, "some" a directory that is not ready, "torn"   *)
(* one that is ready and not whole.  The media of a run by hand are those  *)
(* of the folder it is started from.                                       *)
(***************************************************************************)
EXTENDS Deployment

VARIABLES source,       \* the media on the server
          media,        \* the media of the agent
          prep          \* where Initialize-AgentMedia is

mediaVars == <<source, media, prep>>
setupVars == <<vars, mediaVars>>

Media == {"empty", "some", "torn", "whole"}
Unpacked == [torn |-> "copy torn", whole |-> "copy whole"]

SetupTypeOK ==
  /\ DeployTypeOK
  /\ source \in Media \ {"some"}
  /\ media \in Media
  /\ prep \in {"no", "download", "copy torn", "copy whole", "ready"}
  /\ prep = "ready" => media \in {"torn", "whole"}
  /\ prep \in {"download", "copy torn", "copy whole"} => step = "idle"

\* Mutant: any file is enough.
ReadyIfAny(there) == there # "empty"

Ready(there) == there \in {"torn", "whole"}

SetupInit ==
  /\ Init
  /\ source = "empty"
  /\ media = "empty"
  /\ prep = "no"

-------------------------------------------------------------------------------
(* The server *)

\* The administrator puts the files in place; nothing says when the last one is whole.
\* (Nobody looks at them while Main.bat runs: that they change then is left out.)
PutMedia ==
  /\ step = "idle"
  /\ \/ source = "empty" /\ source' = "torn"
     \/ source \in {"empty", "torn"} /\ source' = "whole"
  /\ UNCHANGED <<vars, media, prep>>

-------------------------------------------------------------------------------
(* The PC *)

\* The portal orders a job when the server has the media or the PC reports its own.
BeginJob ==
  /\ step = "idle" /\ prep = "no"
  /\ Ready(source) \/ Ready(media)
  /\ prep' = IF Ready(media) THEN "ready" ELSE "download"
  /\ UNCHANGED <<vars, source, media>>

\* The archive holds what the server finds at that moment; the PC checks only that its
\* paths are allowed.
Download ==
  /\ prep = "download"
  /\ Ready(source)
  /\ prep' = Unpacked[source]
  /\ UNCHANGED <<vars, source, media>>

\* The job fails before Main.bat: 409, a transfer that breaks, a full disk, a report that
\* is not taken.
GiveUpJob ==
  /\ prep # "no" /\ step = "idle"
  /\ IF prep = "download" /\ ~Ready(source) THEN UNCHANGED faults ELSE Fault
  /\ result' = "failed"
  /\ asked' = FALSE
  /\ prep' = "no"
  /\ UNCHANGED <<software, file, mem, stage, step, todo, dashboard, source, media>>

\* Files that are there are overwritten one by one.
CopyMedia ==
  /\ prep \in {"copy torn", "copy whole"}
  /\ media' = IF prep = "copy torn" THEN "torn" ELSE "whole"
  /\ prep' = "ready"
  /\ UNCHANGED <<vars, source>>

\* The copy fails or the PC stops in the middle of it.
CopyCutShort ==
  /\ prep \in {"copy torn", "copy whole"}
  /\ Fault
  /\ media' \in {"some", "torn"}
  /\ prep' = "no"
  /\ result' = "failed"
  /\ asked' = FALSE
  /\ UNCHANGED <<software, file, mem, stage, step, todo, dashboard, source>>

\* InstallAgent copies the media of its own folder.  Where there is a directory already,
\* Copy-Item puts the copy inside of it and nothing changes.
InstallAgentCopies ==
  /\ step = "idle" /\ prep = "no"
  /\ media = "empty"
  /\ Fault
  /\ media' \in {"some", "torn", "whole"}
  /\ UNCHANGED <<software, file, mem, stage, step, todo, dashboard, asked, result, source,
                 prep>>

\* An installer fails on a file that is cut short or on one that is missing.
TornMediaFails ==
  /\ prep = "ready" /\ media # "whole"
  /\ stage \in {3, 4, 6} /\ step \in {"work", "remove", "msi"}
  /\ CutOff
  /\ Throw
  /\ UNCHANGED <<asked, faults>>

\* Main.bat by hand, or by the job that has its media.
Run ==
  \/ prep = "no" /\ (StartByHand \/ UserRemoves)
  \/ prep = "ready" /\ StartByAgent
  \/ RunPlan \/ Module \/ TornMediaFails
  \/ PrerequisiteMissing \/ WriteFails \/ InstallerFails \/ Stop
  \/ prep = "no" /\ ReportTest

RunStep ==
  /\ Run
  /\ prep' = IF step' = "idle" THEN "no" ELSE prep
  /\ UNCHANGED <<source, media>>

SetupNext ==
  \/ PutMedia
  \/ BeginJob \/ Download \/ GiveUpJob \/ CopyMedia \/ CopyCutShort \/ InstallAgentCopies
  \/ RunStep

\* A job takes its next step; its agent is ordered another one until the PC is done with;
\* the administrator comes to an end with the media.
SetupFairness ==
  /\ WF_setupVars(RunStep /\ (StartByAgent \/ RunPlan \/ Module))
  /\ WF_setupVars(BeginJob) /\ WF_setupVars(Download) /\ WF_setupVars(CopyMedia)
  /\ WF_setupVars(PutMedia)

SetupSpec == SetupInit /\ [][SetupNext]_setupVars /\ SetupFairness

-------------------------------------------------------------------------------
(* Properties *)

\* After the last fault a job installs both products, and every later one leaves them
\* alone.  Unless the media of the PC stay torn: they are never fetched again, since
\* they count as ready.
Converges ==
  \/ <>[](office = "target" /\ hancom) /\ []<>(result = "succeeded")
  \/ <>[](media = "torn")

===============================================================================
