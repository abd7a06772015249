# duct-tape: specifications and proofs

duct-tape sets up Windows PCs (Office LTSC 2024, Hancom Office 2024) from a small
FastAPI server. A PC runs an *agent* that asks the server for work; the server keeps one
SQLite file with PCs, jobs, progress and the latest report of every PC, and mirrors
reports of schools to Google Sheets. The TLA+ modules here state what these parts do,
TLC checks them on small instances, and TLAPS proves what they promise of safety for all of
them: the job service, the agent and how it gets to a PC, the deployment, the delivery of
progress and the page that shows it, and the way of a report from the API to the sheet. Of
what the runs check, all invariants and action properties and all refinements are proved;
liveness is model-checked.

Contents: [inventory](#1-inventory), [modules](#2-modules),
[runs](#3-what-the-runs-check), [proofs](#4-what-is-proved),
[disagreements](#5-disagreements-between-code-and-documents),
[not modelled](#6-what-is-not-modelled), [plan](#7-plan).

## 1. Inventory

Source paths are relative to `src/`.

| Component | State | Operations | Hard behaviour | What makes it correct |
| --- | --- | --- | --- | --- |
| Job service: `Server/models/agent_jobs.py`, `controllers/agent_jobs.py` | tables `agents`, `agent_enrollment`, `agent_jobs`, `job_progress` | enrollment, register, join, approve, revoke, reconnect, enqueue, claim, update, append_progress, resolve, list; every write is one `BEGIN IMMEDIATE` transaction | authentication is a transaction of its own before the handler's; jobs of a silent agent expire when somebody looks; late and repeated calls | one open job per PC; one job per request id; outcomes are final; log and row agree |
| PC agent: `Scripts/Agent.ps1`, `AgentActions.ps1`, `RunAgentJob.ps1` | `Config/ActiveJob.json`, the installer process | claim, start, heartbeat, record and deliver the result; report an interrupted job after a restart | stops between any two steps, lost answers, calls handled late, a write cut short, a wait that throws | a job's installer is never started twice; results arrive; the agent comes back |
| Progress: `ProgressDelivery.ps1`, `JobProgress.ps1`, `models/job_progress.py`, `views/portal.js` | `logs/<job>.progress.jsonl`, a line counter, `job_progress`, the page's cursor | append, send 32 lines, page 500 rows, poll | batches repeat after a lost answer or a restart, and arrive after the result; answers reach a page that has moved on | the log is the file up to some line; the page shows the log and comes to its end |
| Reporting and queue: `controllers/monitoring.py`, `outbox.py`, `replay_outbox.py` | tables `devices`, `outbox`; two slots per process | receive, claim, renew, settle, sweep, forget, replay | threads and processes share two leases; owners are lost; a full slot ends a drain; there is no scheduler | no report is dropped; three attempts; "sent" means accepted |
| Relay and receiver: `gas_relay.py`, `GoogleAppsScript/Code.gs` | one sheet row per PC, the script lock | send; compare and write | reordering, lost answers, a busy lock | the sheet never goes back and ends equal to the dashboard |
| Deployment: `Main.bat`, `InvokeApplications.ps1`, `Common.ps1`, `Modules/01`-`06` | `Tapbook_State.json`, what is installed | detect, remove, install Office; detect, clean, install Hancom | a failure or stop between installer and file; a PC without Office | success means installed; the wanted product is never removed; restarts are remembered |
| Reports of a PC: `ReportStatus.ps1`, `ClientSetup.ps1` | none of its own | read the file, map it, send up to 3 times | a file of an earlier run | a report says what is installed now |
| Installation of the agent: `InstallAgent.ps1`, `AgentRegistration.ps1` | `Agent.json`, `Monitoring.json`, the task, the shortcut | check, join or reconnect, stop, copy, start | fails after the server registered the PC; races the running agent | the PC ends with credentials the server knows |
| Media on the PC: `PrepareAgentMedia.ps1`, `ApplicationMedia.ps1` | a staging folder, the media folders | download, extract, copy, test | a stop during the copy | what counts as ready is complete |
| Server media, packages, artifacts: `deployment_media.py`, `application_catalog.py`, `agent_package.py`, `artifacts.py` | files | manifest, build, upload | files change while an archive is built | - |
| Access: `admin_sessions.py`, `security.py`, `server.py` | session table in memory | issue, check, revoke, expire | expiry races a request | a revoked session stays out |
| Database: `database.py`, `outbox.py` `initialize` | per-file lock, schema version | connect, close, migrate | two locks; a migration cut short | no deadlock; nothing lost |
| Pages: `dashboard.js`, `portal.js` | the page | poll, request, resolve | answers out of order | newest answer wins |
| Operation: `manage.sh`, `scripts/manage_docker.sh` | pid file | start, stop, status | - | - |

How they interact. The portal and the administrator call the job service over HTTP; the
agent polls it every few seconds and reports to it; both see only rows. The agent starts
`RunAgentJob.ps1`, which prepares media, sends one report and runs `Main.bat`; the exit
code of that chain becomes the job's outcome. Every module sends reports to
`/api/report`; the handler writes `devices` and `outbox` in one transaction and leaves a
background task that drains the queue through the relay to the receiver.

The hazards, each at its line and with the properties that would catch it, are the list
`hazards` of PROJECT.json.

## 2. Modules

```
DeviceSlot          abstract: one job slot per PC
   ^ implemented by
JobStore            the tables and methods of the job service
   ^ extended by                      ^ proved about in JobStoreProofs
AgentProtocol       JobStore + one agent, its file, its installer, the network
   ^ extended by                      ^ proved about in AgentProtocolProofs
Registration        AgentProtocol + InstallAgent, keys, the task, the administrator
                                      ^ proved about in RegistrationProofs

ReportDelivery      abstract: what the outbox promises of a report
   ^ implemented by
Outbox              the queue of reports and its workers
   ^ extended by                      ^ proved about in OutboxProofs
Mirroring           Outbox + POST /api/report + the receiver of the sheet
                                      ^ proved about in MirroringProofs
Deployment          one PC: modules 01-06, the state file and their reports
   ^ extended by
Setup               Deployment as a job of the agent + the media it needs
                                      ^ proved about in SetupProofs
ProgressLog         abstract: the log of a job as its readers may rely on it
   ^ implemented by                   ^ extended by
ProgressDelivery    file, agent,      ProgressView   the page that reads the log
                    calls, service
   ^ proved about in                     ^ proved about in
     ProgressDeliveryProofs                ProgressViewProofs
```

**JobStore.** One variable per table column that decides something: `registered`,
`approved`, `setupReady` (rows and flags of `agents`), `codes`, `jobs`, `progress`. One
action per method. Calls that raise change nothing, since the transaction rolls back; they
are the states in which a guard is false. `Expired` is the expiry that `enqueue`, `claim`
and `jobs` run first, `ListJobs` the expiry on its own. Because a handler runs after its
authentication, in another transaction, a device's action is enabled for every device
that ever held a credential (`served`), not only for registered ones. Time is `silence`,
how long ago a running row was updated, counted up to the first stale value.

**DeviceSlot.** What the service promises, without tables, clocks or credentials: a job
enters an empty slot, is handed out at most once, leaves with one outcome. JobStore
implements it under the mapping in `Slot`: the content of a slot is the open job, `handed`
says that it is running or interrupted.

**AgentProtocol.** EXTENDS JobStore. `pc` is the place in `Agent.ps1`, `file` is
`ActiveJob.json`, `call` the request the agent waits for, `late` the requests it gave up
that the server may still handle, `alive`/`starts`/`exitOf` the installer processes. Every
iteration of the loops is a handful of steps, so a stop (`Crash`) falls between any two:
after the server marked a job running and before the agent knows it, between the record and
the start, after the result was stored and before the file is gone. The installer is a
process of its own and survives the agent. A write may fail, or be cut short by a stop, when
`FaultyDisk`. One `catch` covers the start of the installer and the wait for it
(`Agent.ps1:37-50`). A start that throws has made a process or has not (the two last
branches of `StartChild`); a wait that throws (`WaitFails`) meets an installer at work.
Either way the agent goes on with exit code 1 and never looks at the process again
(`LetGo`); `unwatched` is the history of the jobs whose installer it let go.
`ResolveInspected` is the administrator, who looks at the PC (the portal asks for that) and
resolves; the agent may act between the two.

**Registration.** EXTENDS AgentProtocol with how a PC gets its agent and keeps it. A key is
the number of the call that issued it; `agentKey` and `clientKey` are the row of the PC,
`saved`, `reportKey` and `shortcut` the three places `InstallAgent.ps1` writes one after
the other, `loaded` what the running agent read at its start. `place` is the next step of
the script: the checks, `status`, then `reconnect` or `join`, the stop of the agent, the
second look at `ActiveJob.json`, four writes and the start. Every call of the agent is
authenticated first (`ServerAnswersAgent`), so a row that is gone or made anew answers 401.
A call of the script that times out is lost or handled later (`stray`); the script may fail,
be closed or lose its power between any two steps and is run again. `strayed`, `cutShort`,
`finished` and `asked` are history the properties and the assumption about the
administrator need.

**ReportDelivery.** The promise without rows, owners and leases: a report waits until it is
sent or given up; it is called sent only after the receiver has it; it is tried at most
`MaxTries` times per replay; what was sent may be forgotten, and nothing else. Outbox
implements it under the mapping in `Promise`: pending and sending rows wait.

**Outbox.** `rows` is the table; a worker is a thread of a server process or a run of the
replay command, and goes through `claim`, `renew`, `send`, `settle` as `drain` and
`process` do. The relay is called outside any transaction, so leases may end while a worker
sends. `lease` counts down; `old` is the retention. `sends` (attempts begun) and
`delivered` (what the receiver took) are history.

**Mirroring.** Adds the table `devices`, the sheet, and a receiver that compares and writes
under its lock. A report the receiver took may be answered with anything (`Post`): ok, or
an error because the answer was lost.

**Deployment.** `office`, `hancom`, `runtime`, `old` are what is really installed; `file`
is the state file and `mem` the `$state` of the running module, so that what an installer
did and what the file says can differ. Each module enters (running report, read), works,
writes and leaves (completed report). An installer that fails or is cut off may have done
its work (`CutOff`). `dashboard` is the last report delivered.

**Setup.** EXTENDS Deployment with the job around it. `source` and `media` are the media on
the server and on the PC: *ready* is what `Test-AgentMediaRoot` tests, that the required
files and the keys exist, which a folder torn in the middle of a copy may satisfy. A job is
ordered when the server or the PC is ready, `Initialize-AgentMedia` downloads and copies
what the PC lacks, and only then the agent's `Main.bat` runs; installers fail on media that
are torn (`TornMediaFails`). `InstallAgent` copies media of its own folder once.

**ProgressLog.** What a reader needs to know of a job's log: it opens with the request,
grows only at its end and only while the agent may hold the job, and closes with the
outcome. JobStore promises less (any agent may write any number, in any order); that the
log grows at its end is due to how `Agent.ps1` delivers, which is why there is a module for
it.

**ProgressDelivery.** `file` is `logs/<job>.progress.jsonl`, `agent.after` the counter
`$after` (lost in a restart, and reset in every round of the startup loop), `late` the
calls that failed for the agent and may yet be carried out. `SendAgentProgress` is
`Send-AgentProgress`: the first `BatchSize` lines after the counter that are not blank;
a torn line among them throws, a line of an unknown module makes the service refuse the
batch, and every error is swallowed by the caller. `Drain` is the loop before the result,
`SendResult` one round of the loop around it. `Accepts` and `CarryOut` are
`append_progress` and `update`. Lines that could not be written are no lines. A failed
installer has exit code 1 here, the code `resolve` writes; with another one the service
refuses the result of a resolved job, which AgentProtocol covers. A wait that throws ends a
job as failed while its installer goes on writing (the second branch of `Exit`).

**ProgressView.** EXTENDS ProgressLog. `page` holds `progressJob`, `progressAfter`,
`progressEvents`, `progressState`, `progressTimer` and `version` of `portal.js` (`login`);
a reader is a chain of `readProgress` calls and their timers, one for every watch. Between
its steps (`Ask`, `Serve`, `Receive`) the page may watch another job, nothing, or log out;
only the comparison of job and version (`Serves`) and `clearTimeout` of the *latest* timer
(`Cleared`) keep earlier readers from painting. `cameBack` is history: the page returned to
a job of which an earlier reader was still under way. `Sorted` is the `ORDER BY` and `First`
the `LIMIT` of `JobStore.progress`, both by the rank of a number in its set.

Definitions called *Mutant* are faulty variants of the definition after them. They are used
by nothing; with one put in place of the original the property named in PROJECT.json must
fail, which shows that the property is about this code.

## 3. What the runs check

| Run | Shows | Bounds and why they suffice |
| --- | --- | --- |
| `job_store` | `OneOpenJob`, `OpenJobHasApprovedAgent`, `OneJobPerRequest`, `ResultIsFinal`, `LogMatchesJob`, `LogIsAppendOnly`, `ImplementsSlot`, types | 2 PCs, 2 jobs on one or on both, 2 request ids, an enrolment code, 2 payloads under one agent number: a PC can be revoked and joined with one job behind it and another asked for while the other PC interferes; repetition, contradiction and lateness of events occur. The proofs remove the bounds. |
| `agent_safety` | `OneInstallerEver`, `ClosedMeansEnded`, types | 2 jobs, 2 stops, 1 call handled late, a faulty disk, an administrator who resolves, waits that throw: the second stop can fall into the recovery from the first, and an installer that was let go runs beside that of the next job. An installer that the catch let go is excepted from both properties (section 5). The proofs remove the bounds. |
| `agent_liveness` | `ResultDelivered`, `AgentReturns`, `QueuedIsClaimed`, `RunningEnds` | 2 jobs, 1 stop, 1 late call; interrupted jobs stay parked |
| `agent_stuck` | a counterexample to `QueuedIsClaimed` once an administrator resolves (section 5) | no stop and no late call are needed |
| `outbox_liveness` | `EventuallySettled` | 2 workers in 2 processes, one lease and one slot, 2 attempts, one fault and one replay: every worker can find the lease taken, lose its row, and meet a row that was replayed |
| `mirroring` | `LeasesLimited`, `ImplementsDelivery`, `NeverGoesBack`, `SentIsMirrored`, `Converged`, types | 3 reports of one PC, one without a school; two threads of the server and the replay command, one lease and one slot per process, leases of one tick, 2 attempts, 1 replay, 1 fault; the two threads are symmetric. A lease may end while its owner sends, so two sends overlap although one lease is given out at a time. The proofs remove the bounds |
| `setup` | `SucceededMeansInstalled`, `TargetIsKept`, `ReportsAreCurrent`, `HancomOnCleanSystem`, `SuccessRemembersReboot`, `Converges`, types | every installed state at the start, two old products of which one is an orphaned entry, media that are being filled, 2 faults: a copy cut short and a failure or stop in the run after it, or a user who removes a product |
| `setup_reboot` | a counterexample to `RebootIsRemembered` (section 5) | one failed installer, no disk error |
| `registration` | `KeysMatch`, `NoJobWhileReplacing`, `PcIsServed`, types | one PC, one job, one stop of the agent and 2 troubles (a call lost or late, a script that ends, a power cut, an unasked revocation, a run nobody needs): the second can fall into the recovery from the first. `NoJobWhileReplacing` allows two installers that run on: one whose job was reported interrupted, one that the catch of `Agent.ps1:50` let go. The proofs remove the bounds of `KeysMatch` and `NoJobWhileReplacing`. |
| `progress_delivery` | `LogHasNoGap`, `SuccessHasWholeLog`, `KeepsPromise`, types | 2 jobs, files of 3 and 1 lines, batches of 2, so that a drain takes two batches and a batch can straddle a bad line; 2 faults: a late batch and a stop, or two stops. The proofs remove the bounds. |
| `progress_view` | `PageShowsPrefix`, `PanelSettles`, types | 2 jobs, logs of up to 3 events in pages of 2, so that the last page is read after the job ended; 2 watches and 2 logins give the page an earlier reader of another job, of the same job and of an earlier login; 1 failed call. The proofs remove the bounds of `PageShowsPrefix`, and of where a reader stops. |
| `progress_outcome` | a counterexample to `PanelShowsOutcome` (section 5) | one job, one reader, no failed call |

Deadlock is checked in all runs but the three about progress: there all jobs may be over
and all readers at their end, and nothing is left to do.

**Fairness.** AgentProtocol: the scheduled task restarts the agent (`Boot`), the loops of
`Agent.ps1` take their next step, an installer ends, clocks run: weak fairness. A call that
is repeated for ever is sometimes handled and sometimes answered in time: strong fairness
of `ServerAnswers` and of the three answers, since time-outs disable them again and again.
Nothing is assumed of users and administrators. Outbox: workers take their steps; a drain
is started again and again, because every report that arrives starts one (there is no
scheduler, so a server that hears no more reports owes nothing); the oldest pending row
is claimed first, so no row is passed over for ever (`SF` of `Claim`); and a worker is not
every time so slow that its lease of 180 seconds ends before its first attempt. Setup:
a job takes its next step, another one is ordered until the PC is done with, and the
administrator comes to an end with the media: `Converges` says what repeated jobs achieve.
Registration: somebody starts the script again until a run is complete, approves, revokes
when the script asks for it, looks at the jobs and resolves (weak fairness of each); a PC
whose agent was left stopped is switched on again, and the agent's calls are sometimes
handled and sometimes answered in time (strong fairness, since other steps disable them
again and again). ProgressView: a page that is open fires its timers, and a call is answered or
ends after ten seconds (`ReaderStep`); nothing is assumed of the PC, so `PanelSettles` is
about jobs that are over.

## 4. What is proved

`JobStoreProofs` proves, for every set of PCs, codes, requests and payloads and every
bound, from `JobStoreAssumption` only:

| Theorem | Statement |
| --- | --- |
| `TypeCorrect` | `Spec => []TypeOK` |
| `StoreIsSafe` | `Spec => [](OneOpenJob /\ OneJobPerRequest /\ OpenJobHasApprovedAgent)`, and its parts `RequestsAreOnce`, `OpenJobsAreApproved` |
| `ResultsAreFinal` | `Spec => ResultIsFinal` |
| `LogMatches`, `LogGrowsOnly` | `Spec => []LogMatchesJob`, `Spec => LogIsAppendOnly` |
| `StoreImplementsSlot` | `Spec => ImplementsSlot`: every behaviour of the tables is one of DeviceSlot |

*The argument.* The proofs do not look at the sixteen actions once per property. Lemma
`StepOfJobs` says once what any step can do to the rows: every row stays, is created in an
empty place for an approved PC without open job and with a new request id, or advances
along queued, running, interrupted, ended (`JobsStep`). The safety properties follow from
that and from `ApprovalStep`, which says that a PC loses its approval only when it has no
open job. The three safety properties are inductive only together (`SafeInv`): that a new
row keeps `OneOpenJob` needs the guard of `enqueue` *after* the expiry in the same
transaction, and `OpenJobHasApprovedAgent` needs that `revoke` cancels what is queued and
refuses what is held. For the log, `MostStepsAreQuiet` separates the steps that write no
progress from the four that do, and `LogInv` strengthens `LogMatchesJob` by the fact that
server events are only in the first and last place. The refinement maps a job's row to
the slot of its PC; `StepOfSlot` shows that each step of the tables is a step of DeviceSlot or
leaves it alone, the hard cases being an enqueue whose expiry parks another PC's job, and a
heartbeat that takes a parked job back.

`OutboxProofs` proves, for any number of reports, workers and processes and any limits, from
`OutboxAssumption` only. The theorems are about `Safety`, the specification without its
fairness, and so hold of `Spec`:

| Theorem | Statement |
| --- | --- |
| `OutboxTypeCorrect` | `Safety => []TypeOK` |
| `LeasesAreLimited` | `Safety => []LeasesLimited` |
| `QueueKeepsPromise` | `Safety => ImplementsDelivery`: every behaviour of the queue is one of ReportDelivery |

*The argument.* Nothing stops a worker whose lease has ended from going on, so the promise
is inductive only with what late workers know. `QueueInv` says of a row (`RowInv`) that it
has an owner exactly while it is being sent, that a pending row has tries left, that
`attempts` is the number of tries since it was queued, and that what is called sent was
delivered; and of a worker that is busy (`WorkerInv`) that it counts as its row does *if it
still owns it* (one behind, before it renews), that its row is not gone or was delivered,
and that an answer `ok` means delivered. A step writes some rows; `OthersStay` and `Keeps`
say once what it must leave of a row for the other workers, so that each action has to be
looked at for one worker only. `SweptRow` describes the sweep row by row. The limit is
`NoNewSending`, that only a claim adds to the rows being sent, with the cardinality facts
of the library; `PromiseStep` maps claims, settling, replays and arrivals to `Moves`,
`Renew` to `Try`, a transmission to `Accept` or nothing, all else to nothing.

`MirroringProofs` proves about the composition, for any PCs and times of observation, from
`MirroringAssumption`:

| Theorem | Statement |
| --- | --- |
| `MirrorKeepsPromise` | `MirrorSpec => Safety /\ []LeasesLimited /\ ImplementsDelivery` |
| `MirrorTypeCorrect` | `MirrorSpec => []MirrorTypeOK` |
| `SentIsInSheet` | `MirrorSpec => []SentIsMirrored` |
| `SheetConverges` | `MirrorSpec => []Converged` |
| `NeverOlder` | `MirrorSpec => NeverGoesBack` |

*The argument.* Every step of Mirroring is a step of Outbox or leaves it alone
(`MirrorStepIsQueueStep`), which brings in all of OutboxProofs. `MirrorInv` adds that a
report in the queue was received and one that was received is in the queue or delivered
(`WayInv`), that the sheet is as new as everything delivered (`SheetInv`), and the table as
new as everything received (`TableInv`). That no report gets lost on the way is taken from
the refinement: `RowsGoDelivered` follows from `PromiseStep`. `Converged` then says that
two newest reports of one PC are the same one, for which reports of a PC must have
different times.

`AgentProtocolProofs` proves, for any jobs, stops of the agent and late calls, with a faulty
disk or not and with an administrator or not, from `JobStoreAssumption` and
`AgentAssumption`. `ProtocolSafety` is the specification without its fairness:

| Theorem | Statement |
| --- | --- |
| `ProtocolTypeCorrect` | `ProtocolSafety => []ProtocolTypeOK` |
| `StoreStaysSafe` | `ProtocolSafety => [](OneOpenJob /\ OneJobPerRequest /\ OpenJobHasApprovedAgent /\ LogMatchesJob)` |
| `InstallerStartsOnce` | `ProtocolSafety => []OneInstallerEver`: no job's installer is started twice, and of those not let go no two run together |
| `ClosedJobsEnded` | `ProtocolSafety => []ClosedMeansEnded`: a closed log means an installer that has ended, was not started, or was let go; success, that the agent saw it end with code 0 |
| `AgentFillsSlot` | `ProtocolSafety => ImplementsSlot`: with this agent as a caller, the tables are still a DeviceSlot |

*The argument.* A call the server handles is a step of JobStore (`StepOfStore`), so what
JobStoreProofs knows of the tables is taken over. That an installer is started once does not
follow from the tables, nor from the PC: between the claim and the start the two agree on
the job only through an answer, a variable and a file. `ProtocolInv` therefore says where a
claim is. A job that was claimed and not started is *at hand* at one place, the answer that
brings it or the agent that is about to start it, and then no installer runs but those that
were let go (`AtHand` in `InstallerInv`); a job whose installer exists and was not let go
(`Watched`) is held by the server, or its claim is kept in `ActiveJob.json` for the agent
that looks there next (`Kept`); and a report that a job is over, whether it waits in a call,
a late call or the file, is true (`TrueReport` in `ReportInv`), where *over*, ended, never
started or let go, cannot be undone, nor can a good end that the agent saw (`EndedWell`,
`OverStays`). The three hold only together: that an agent may take the next job needs that
the previous one is over, which the server knows from a report, whose truth needs that the
installer had ended, was never going to be started, or was let go. `Taking` says once for
all calls what the server may do to the rows: it hands out a job that was queued, it ends
the job of a result, and anything else is `Calm`. `WatchedIsHeld` and `KeptStays` are the
hard cases: a job is not closed while its installer is watched, although late calls and the
administrator write the rows too, and the claim stays in the file over a stop until the
server holds the job as interrupted. The lemmas are about more steps than AgentProtocol
takes: in `AnyNext` the server may also turn a call away unread, the PC may join and be
revoked (`Admits`), and stops need not be counted one by one. `ProtocolIsAny` says that
AgentProtocol is within them, and Registration uses the rest.

`RegistrationProofs` proves, for any number of runs of the script, keys, calls lost or late,
power cuts and revocations, from `RegistrationAssumption` and the assumptions above.
`RegSafety` is the specification without its fairness:

| Theorem | Statement |
| --- | --- |
| `RegTypeCorrect` | `RegSafety => []RegTypeOK` |
| `KeysAgree` | `RegSafety => []KeysMatch` |
| `ReplacesIdlePc` | `RegSafety => []NoJobWhileReplacing` |
| `RegisteredAgentIsSafe` | `RegSafety => [](OneInstallerEver /\ ClosedMeansEnded)` |
| `RegistrationIsStore` | `RegSafety => Spec`: every behaviour is one of JobStore, and all that is proved of the tables holds here |

*The argument.* A step of Registration is one of `AnyNext` or leaves the agent and the
tables alone (`RegIsPrompt`), so `ProtocolInv` is kept although the server now also refuses
keys and forgets the PC. What `RegInv` adds has two parts that do not need each other. The
keys: `HandInv` follows the keys of a run through the script, and says of the key of the
page only that it is right *if the row still has the agent's key of this run*, since a
revocation or a later registration may come between any two steps; every new key is later
than all others (`NewKeyIsNew`), so a row made anew never has the key of an earlier run, and
`FinishedInv` is what is left of `HandInv` when the run is complete. `TokenInv` is the order
in which the two files are written. The replacement: `StoppedInv` says that from the stop on
the agent is down and, after the second look, that its file is empty. That nothing runs then
but what was reported interrupted or let go is `ParkedInv`, which holds of every state and
not only then: an installer that was not let go and whose claim is not in `ActiveJob.json`
lost it through an interrupted report that was answered, the job cannot leave that state
before the agent sees it (`ParkedStays`), and no heartbeat takes it back, as `CallsInv`
knows of every call on its way. It needs that no call of the agent is handled late, which is
so in Registration (section 6) and not in AgentProtocol.

`SetupProofs` proves about Setup, and so about each run of Deployment in it, for any old
products, orphaned entries and number of faults, from `DeploymentAssumption` and
`NoStateAssumption` (that the file does not exist is no state), without using fairness:

| Theorem | Statement |
| --- | --- |
| `SetupTypeCorrect` | `SetupSpec => []SetupTypeOK` |
| `SuccessKeepsReboot` | `SetupSpec => []SuccessRemembersReboot` |
| `SuccessInstalls` | `SetupSpec => SucceededMeansInstalled` |
| `TargetStays` | `SetupSpec => TargetIsKept` |
| `ReportsTellNow` | `SetupSpec => ReportsAreCurrent` |
| `HancomInstallsClean` | `SetupSpec => HancomOnCleanSystem` |

*The argument.* The modules know each other through the state file only, and a module that
works is ahead of the file. `SetupInv` says from which module on the file is of this run and
no longer of an earlier one (`Ours`), and that what the file of this run, or the state in
memory of a busy module, calls normal is installed (`Honest` in `ShapeInv`); that Office is
called needed only while it is missing (`OfficeInv`), so that module 03, which removes
Office, never meets the wanted one; what module 06 has done by each of its steps
(`HancomInv`); and where the demand for a restart is kept (`RebootInv`). Each lemma named
*...Keeps* is one action. That `SuccessRemembersReboot` can be proved and
`RebootIsRemembered` is refuted (section 5) is the difference between a run that succeeds
and one that fails in module 06.

`ProgressDeliveryProofs` proves, for any jobs, files, size of a batch and number of failed
calls and stops, from `DeliveryAssumption`:

| Theorem | Statement |
| --- | --- |
| `DeliveryTypeCorrect` | `Spec => []DeliveryTypeOK` |
| `LogWithoutGap` | `Spec => []LogHasNoGap` |
| `LogKeepsPromise` | `Spec => KeepsPromise`: every behaviour of agent, network and service is one of ProgressLog |
| `SuccessWithWholeLog` | `Spec => []SuccessHasWholeLog` |

*The argument.* A batch that arrives late meets a log that has grown. `DeliveryInv` says of
a batch not what is stored now but what it `Follows`: each line before one of its lines is
in the batch or stored. That held when it left, since the cursor of the agent never runs
ahead of the log (`StoredUpTo` in `AgentInv`, true also of a cursor set back to 0 by a
restart), and stays true because nothing stored goes away. With it `LogHasNoGap` is
inductive, and the steps of the service are those of ProgressLog: what arrives out of order
was there already. The last theorem needs an invariant of its own (`WholeInv`): without a
fault no call is late, a job whose agent saw its installer end has no writer any more
(`NoWriter`), and its file is drained before the result is reported (`Drained`); a job that
is to be called failed may still have a writer, and is not what the theorem is about. What a
batch holds, the first `BatchSize` lines after the cursor, and that a batch without lines
means that none is left, is `FirstNumbers`, which rests on the least number of a set
(`Least`, from the well-foundedness of the naturals).

`ProgressViewProofs` proves, for any jobs and logs, any size of a page and any number of
watches, logins and failed calls, from `LogAssumption` and `ViewAssumption` (there is a last
line number, 1000000 in the code, so that a log is a finite set):

| Theorem | Statement |
| --- | --- |
| `ViewTypeCorrect` | `Spec => []ViewTypeOK` |
| `PageIsPrefix` | `Spec => []PageShowsPrefix` |
| `PageReadsToTheEnd` | `Spec => []PageStopsWithJob`: the page has a reader for the job it stays with, or was told that the job is interrupted, or shows the outcome and the whole log. This is what `PanelSettles` says of safety; it is defined beside its proof, and fails in TLC for the mutant of `GoesOn` |

*The argument.* `ViewInv` says that a page that did not come back to its job is served by
one reader, that of its last watch (`ServingOK`), and that what this reader brings is a
`Beginning` of what the page has not shown (`Rest`), which stays one while the log grows,
since a log grows beyond every number it has and the cursor is such a number
(`GrowthIsBeyond`, the only thing the proof takes from ProgressLog). Readers of other jobs
and logins may have anything; they are told apart when they paint. An answer then continues
the page: `SortedConcat`, that the lists of two sets, one above the other, make the list of
the union, where the place of a number is its rank (`RankIsPlace`, that no place is empty,
is an injection between finite sets of one size). `StopInv` adds what a reader knows when it
ends: an outcome it was told is the outcome of the job, for what is over stays
(`OverStays`), and the last page of the log is all of `Rest` (`LastPageIsRest`). Since
ProgressDelivery implements ProgressLog, both theorems are about the logs that the agent
writes.

*Only model-checked.* All liveness (`ResultDelivered`, `AgentReturns`, `QueuedIsClaimed`,
`RunningEnds`, `EventuallySettled`, `Converges`, `PanelSettles`, `PcIsServed`), since TLAPS
does not reason about ENABLED and fairness here, and what is refuted (section 5). Every
invariant, action property and refinement of a run is stated by a theorem above.

## 5. Disagreements between code and documents

**A resolved job can stop its PC for good** (`agent_stuck`). `docs/NEXT_WORK_PLAN.md:39`
and the portal say that after an interrupted job was inspected a new one can be requested.
The request is accepted, but: when a job expired while its installer was running (the
agent was slow, not dead) and the administrator resolved it after the installer had ended,
the agent still holds a result. `JobStore.update` answers 409 (the row is `failed`), and
`Agent.ps1` repeats its report until it is accepted. It never asks for work again; a
restart does not help, because the startup loop has the same condition. The new job stays
queued until somebody deletes `ActiveJob.json`.

**A required restart is forgotten** (`setup_reboot`). `docs/TROUBLESHOOTING.md:45`
says that 3010 is kept as RebootRequired for removal, runtime and installation. Module 06
keeps the flag in memory and writes the state file after the last installer only; if the
runtime asks for a restart and the MSI then fails, the file and the report say that none is
needed. (Module 01 of the next run clears the flag in any case.)

**The panel of a job can stop before its outcome** (`progress_outcome`).
`docs/LIVE_PROGRESS.md:3` says that everything up to the final result is seen on the page,
and line 23 that a heartbeat may take an interrupted job back. A reader asks again only
while it is told `queued` or `running` (`portal.js:64`); told `interrupted`, it ends, and
`watchProgress` starts no other one while the page stays with the job (`portal.js:72`). When
the job goes on and ends, or is resolved, the panel still says that the PC is to be
inspected, and shows none of the later events. The list of PCs beside it does change.

Observed while modelling, and excluded from the order in `PageShowsPrefix`: a page that
comes back to a job while its first reader waits for an answer (another PC selected and the
first one again; or a list of jobs asked for before a request and answered after it) has two
readers with the right job and version. Both paint: events are shown twice, an older
event of a step may replace a newer one, and after a failed call of the second reader the
events before the first one's answer are never read. What is shown is still in the log.

Observed while modelling, and excluded from the property it would break: when module 01
itself fails, its failed report is made from the state file of the *earlier* run, so it may
call a product normal that is gone (`ReportsAreCurrent`, `ReportStatus.ps1:30-34`).

Observed in Registration, and excepted from the properties they would break:
- A run of `InstallAgent` that is cut off after `Monitoring.json` was written
  (`InstallAgent.ps1:70`) and before `Agent.json` is (`:73`) leaves a token that is not
  the one of `Agent.json`. Line 68 takes such a token for a school's and keeps it: once the
  PC is registered anew, every later run leaves a token the server refuses (`cutShort`).
- A `reconnect` that the script gave up after ten seconds and the server handles after the
  next run replaces the key of the page (`agent_jobs.py:223`): the shortcut on the desktop
  no longer opens it, and nothing says so (`strayed`).
- When a PC is revoked, or its job resolved, before the answer to the agent's result comes,
  the agent repeats that result for ever, also with its new key (`PcIsServed`, the same
  loop as in `agent_stuck`); `InstallAgent` refuses to run while the file is there.
- A first run that ends between `Agent.json` and the task, with a job ordered in the
  meantime, makes every later run refuse because of that job, which no agent will ever
  claim, until the administrator revokes the PC, as the message asks.

Observed in AgentProtocol, and excepted from `OneInstallerEver`, `ClosedMeansEnded` and
`NoJobWhileReplacing`, which are all violated without the exception: **the agent can let go of
an installer that runs.** `Agent.ps1:37-50` starts the installer and waits for it in one `try`.
If a wait throws (line 39 or 45), or `$process.Handle` does after `Start-Process` has made the
process (`AgentActions.ps1:11-13`), the `catch` sets exit code 1. The agent reports `failed`,
which closes the log, removes `ActiveJob.json` and asks for the next job, all while the
installer is at work; the next job's installer then runs beside it, and `InstallAgent`, which
looks at the file and at the server's open jobs only, replaces files under it. `README.md:14`
says that a PC carries out one deployment at a time ("기기별 배포는 한 번에 하나만 실행합니다"),
and the state file builds on it, which has no lock for two writers
(`docs/wiki/Modules-Specification.md:16`). What is left, and proved: this catch is
the only way to such an installer; even then no job's installer is started twice, and the job
is never called succeeded. There is no run of its own for this: the weaker properties are what
the code keeps.

Observed in Setup, and excepted from `Converges`: media that are torn in the middle of a
copy may hold all required files (`PrepareAgentMedia.ps1:8`, `:52`). They count as ready from
then on and are never fetched again, and every job fails, until somebody deletes them.
Running `InstallAgent` again does not help: `Copy-Item` puts a folder *inside* one that
exists (`InstallAgent.ps1:64`).

Also observed: resolving and starting are not atomic. When the administrator resolves an
interrupted job between the agent's record of the claim and the start of the installer, the
installer starts although the job is closed. No job's installer is started twice
(`OneInstallerEver`), which is what the code relies on.

And a write of `ActiveJob.json` that fails loses the result: the job expires and stays
interrupted until somebody resolves it. A file that cannot be parsed keeps the startup loop
(`Agent.ps1:19`) busy for ever. The safety properties hold then too; `ResultDelivered` and
`AgentReturns` do not, and are checked with a disk that works.

## 6. What is not modelled

- Credentials of JobStore and AgentProtocol: a call without a valid one never reaches a
  handler. They are the subject of Registration, which leaves out development mode, an
  `Agent.json` that is torn or another PC's, a change of the server's address, and the
  report token of a school.
- Calls of the agent that are handled late are in AgentProtocol (`MaxLate`), not again in
  Registration, where a late call is one of `InstallAgent`.
- Sessions of the administrator (`admin_sessions.py`): a table in memory under one lock. One
  race was seen in reading and is not modelled: a login that is under way when the page
  logs out sets its cookie after the logout.
- Database and migration: `database.py` serialises connections per file below the lock of
  the queue; the migration runs once, before the server takes requests.
- The catalogue, the agent package, the report schema, the operation scripts: they only
  read, check or write whole files.
- Two runs of `Main.bat` on one PC. Module 06 ends processes by name, which would break
  the other run; the documents ask operators to avoid it. The agent itself can cause it by
  letting an installer go (section 5); AgentProtocol has that step, Setup, where a job is
  over when its run is, has not.
- Equal `observed_at` of two reports of one PC: assumed away (`MirroringAssumption`). The
  table and the sheet both keep what they have then.
- The poll of the portal that lists PCs and jobs: a page of ProgressView may be shown any
  job at any time. Rendering, and the line about the last report of older agents.
- Contents: versions, paths, keys, labels, HTML, HMAC signatures, redirects. They decide
  whether a call succeeds, and every call may fail.
- The components listed as `not_modelled` in PROJECT.json, each with its reason.

## 7. Plan

1. Done: JobStore, DeviceSlot, AgentProtocol, Registration; ReportDelivery, Outbox,
   Mirroring; Deployment, Setup; ProgressLog, ProgressDelivery, ProgressView; and proofs of
   all that the runs check of their safety.
2. Extend: *AdminSessions* (issue, check, revoke, expire) composed with ProgressView, so that
   a 401 in a poll and a login under way are steps; *Database* (the per-file lock, the write
   lock and SQLite's own: no deadlock) and *Migration* (a stop between backup and commit).
3. Abstract specification of Registration: a PC is unknown, known or served, and returns to
   served.
