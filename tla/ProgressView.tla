------------------------------ MODULE ProgressView ------------------------------
(***************************************************************************)
(* A page of the portal that follows the progress of a job.  It reads the  *)
(* log of the job it watches in pages, from the last number it has shown,  *)
(* and watches another job, or logs in anew, while an answer is on its     *)
(* way.  Every job it starts to watch gets a reader of its own, a chain of *)
(* calls and timers that nothing but its own checks can end.               *)
(*                                                                         *)
(* The logs are those of ProgressLog, which ProgressDelivery implements.   *)
(* The page watches the newest job of its list, which may be an old list:  *)
(* any job, then.                                                          *)
(***************************************************************************)
EXTENDS ProgressLog, SequencesExt

CONSTANTS NoJob,
          PageSize,     \* events of a page (500 in the code)
          MaxWatches,   \* bound: how often the page starts to watch a job
          MaxLogins,    \* bound: logins of the page
          MaxFailures   \* bound: failed calls of the page

ASSUME ViewAssumption ==
  /\ NoJob \notin Job
  /\ {PageSize, MaxWatches, MaxLogins} \subseteq Nat \ {0}
  /\ MaxFailures \in Nat

Reader == 1 .. MaxWatches
NoReader == 0

VARIABLES page,         \* progressJob, progressAfter, progressEvents, ...
          readers,      \* readers[r]: the reader of the r-th watch
          failures      \* failed calls so far

vars == <<logVars, page, readers, failures>>

Answer == [state : State, events : Seq(Sequence), more : BOOLEAN]
NoAnswer == [state |-> "absent", events |-> <<>>, more |-> FALSE]

Gone == [job |-> NoJob, login |-> 0, step |-> "gone", from |-> -1, answer |-> NoAnswer]

ViewTypeOK ==
  /\ LogTypeOK
  /\ page \in [job : Job \cup {NoJob}, after : -1 .. Final, events : Seq(Sequence),
               state : State, timer : Reader \cup {NoReader}, login : 1 .. MaxLogins,
               watches : 0 .. MaxWatches, cameBack : BOOLEAN]
  /\ readers \in [Reader -> [job : Job \cup {NoJob}, login : 0 .. MaxLogins,
                             step : {"gone", "waits", "asked", "served"},
                             from : -1 .. Final, answer : Answer]]
  /\ failures \in 0 .. MaxFailures

Init ==
  /\ LogInit
  /\ page = [job |-> NoJob, after |-> -1, events |-> <<>>, state |-> "absent",
             timer |-> NoReader, login |-> 1, watches |-> 0, cameBack |-> FALSE]
  /\ readers = [r \in Reader |-> Gone]
  /\ failures = 0

Rank(s, S) == Cardinality({t \in S : t < s})

\* The numbers of S in their order, and the n smallest of them.
Sorted(S) == [n \in 1 .. Cardinality(S) |-> CHOOSE s \in S : Rank(s, S) = n - 1]
First(n, S) == {s \in S : Rank(s, S) < n}

-------------------------------------------------------------------------------

Serves(r) == readers[r].job = page.job /\ readers[r].login = page.login

\* clearProgress ends the reader of the latest timer; one that waits for an answer
\* goes on.
Cleared == IF page.timer = NoReader THEN readers ELSE [readers EXCEPT ![page.timer] = Gone]

ClearedPage == [page EXCEPT !.job = NoJob, !.after = -1, !.events = <<>>,
                            !.state = "absent", !.timer = NoReader, !.cameBack = FALSE]

\* The page moves on to job j, or is shown a list of jobs without the one it watched.
WatchProgress(j) ==
  /\ j # page.job
  /\ page.watches < MaxWatches
  /\ state[j] # "absent"
  /\ LET r == page.watches + 1 IN
       /\ page' = [ClearedPage EXCEPT
                     !.job = j, !.state = state[j], !.watches = r,
                     !.cameBack = \E q \in Reader : /\ Cleared[q].job = j
                                                    /\ Cleared[q].login = page.login]
       /\ readers' = [Cleared EXCEPT ![r] =
                        [Gone EXCEPT !.job = j, !.login = page.login, !.step = "asked"]]
  /\ UNCHANGED <<logVars, failures>>

WatchNothing ==
  /\ page.job # NoJob
  /\ page' = ClearedPage
  /\ readers' = Cleared
  /\ UNCHANGED <<logVars, failures>>

\* disconnect, and a login by which the page is connected again.
Disconnect ==
  /\ page.login < MaxLogins
  /\ page' = [ClearedPage EXCEPT !.login = @ + 1]
  /\ readers' = Cleared
  /\ UNCHANGED <<logVars, failures>>

\* The timer of a reader fires and it asks for what follows the last number shown.
Ask(r) ==
  /\ readers[r].step = "waits"
  /\ readers' = [readers EXCEPT ![r] = [@ EXCEPT !.step = "asked", !.from = page.after]]
  /\ page' = [page EXCEPT !.timer = IF @ = r THEN NoReader ELSE @]
  /\ UNCHANGED <<logVars, failures>>

\* The service reads row and log by one connection, whose guard (Server/database.py)
\* keeps every other connection of the server out until it is closed.
Progress(j, after) ==
  LET rest == {s \in log[j] : s > after}
  IN [state |-> state[j], events |-> Sorted(First(PageSize, rest)),
      more |-> Cardinality(rest) > PageSize]

Serve(r) ==
  /\ readers[r].step = "asked"
  /\ LET answer == Progress(readers[r].job, readers[r].from)
     IN readers' = [readers EXCEPT ![r] = [@ EXCEPT !.step = "served", !.from = -1,
                                                      !.answer = answer]]
  /\ UNCHANGED <<logVars, failures, page>>

Wait(r) == [readers EXCEPT ![r] = [@ EXCEPT !.step = "waits", !.from = -1,
                                               !.answer = NoAnswer]]
End(r) == [readers EXCEPT ![r] = Gone]

\* Mutant: a reader ends with the job, whether or not there are more pages.
GoesOnWhileActive(answer) == answer.state \in {"queued", "running"}

GoesOn(answer) == answer.more \/ answer.state \in {"queued", "running"}

\* Mutant: the cursor is the number to be read next.
PaintedNext(r) ==
  LET answer == readers[r].answer
  IN [page EXCEPT !.state = answer.state, !.events = @ \o answer.events,
                  !.after = IF answer.events = <<>> THEN @ ELSE Last(answer.events) + 1,
                  !.timer = IF GoesOn(answer) THEN r ELSE @]

Painted(r) ==
  LET answer == readers[r].answer
  IN [page EXCEPT !.state = answer.state, !.events = @ \o answer.events,
                  !.after = IF answer.events = <<>> THEN @
                            ELSE LET n == Last(answer.events) IN IF n > @ THEN n ELSE @,
                  !.timer = IF GoesOn(answer) THEN r ELSE @]

\* Mutant: an answer is taken if it is for the job, whoever asked.
ReceiveOfEarlierLogin(r) ==
  /\ readers[r].step = "served"
  /\ IF readers[r].job = page.job
     THEN /\ page' = Painted(r)
          /\ readers' = IF GoesOn(readers[r].answer) THEN Wait(r) ELSE End(r)
     ELSE readers' = End(r) /\ UNCHANGED page
  /\ UNCHANGED <<logVars, failures>>

Receive(r) ==
  /\ readers[r].step = "served"
  /\ IF Serves(r)
     THEN /\ page' = Painted(r)
          /\ readers' = IF GoesOn(readers[r].answer) THEN Wait(r) ELSE End(r)
     ELSE readers' = End(r) /\ UNCHANGED page
  /\ UNCHANGED <<logVars, failures>>

\* The call fails, before or after the service has read.
FailToRead(r) ==
  /\ readers[r].step \in {"asked", "served"}
  /\ failures < MaxFailures
  /\ failures' = failures + 1
  /\ IF Serves(r)
     THEN readers' = Wait(r) /\ page' = [page EXCEPT !.timer = r]
     ELSE readers' = End(r) /\ UNCHANGED page
  /\ UNCHANGED logVars

-------------------------------------------------------------------------------

ReaderStep(r) == Ask(r) \/ Serve(r) \/ Receive(r)

PageStep ==
  \/ \E j \in Job : WatchProgress(j)
  \/ WatchNothing
  \/ Disconnect
  \/ \E r \in Reader : ReaderStep(r) \/ FailToRead(r)

Next ==
  \/ LogNext /\ UNCHANGED <<page, readers, failures>>
  \/ PageStep

\* A page that is open fires its timers, and a call is answered or fails after ten
\* seconds.  Nothing is assumed of the agents.
Fairness == \A r \in Reader : WF_vars(ReaderStep(r))

Spec == Init /\ [][Next]_vars /\ Fairness

-------------------------------------------------------------------------------
(* Properties *)

\* What the page shows is the log of the job it watches up to its cursor, in order
\* and each event once, whatever readers of other jobs and earlier logins still
\* answer.  A page that came back to a job while its earlier reader was waiting is
\* excepted from the order: both readers serve it then.  It, too, shows no event
\* that is not in the log.
PageShowsPrefix ==
  page.job # NoJob =>
    /\ Range(page.events) \subseteq log[page.job]
    /\ ~page.cameBack => page.events = Sorted({s \in log[page.job] : s <= page.after})

\* A page that stays with a job which is over stops at its outcome, with the whole
\* log, or it stopped at "interrupted" before.
PanelSettles ==
  \A j \in Job :
    page.job = j /\ state[j] \in Ended ~>
      \/ page.job # j
      \/ page.state = "interrupted"
      \/ page.state = state[j] /\ (page.cameBack \/ Range(page.events) = log[j])

\* docs/LIVE_PROGRESS.md: the final result is seen on the page.  A page that stays
\* with a job which is over comes to show its outcome.
PanelShowsOutcome ==
  \A j \in Job :
    page.job = j /\ state[j] \in Ended ~> page.job # j \/ page.state = state[j]
===============================================================================
