------------------------------ MODULE W3CTests ------------------------------
(***************************************************************************)
(* What the two W3C test runners, TesterW3CVCL and TesterW3CQt, have in    *)
(* common: a window with a list of tests and the buttons Start, Stop and   *)
(* Reset, and one interpreter handle (AsyncStart, not validated) that runs *)
(* the tests one after the other.  A run is the interpreter thread of one  *)
(* usclib_StartInterpreter: it calls the stopped callback, which posts the *)
(* outcome with the callback's user data to the window's thread, and only  *)
(* then can the next start, stop or close join it.                         *)
(*                                                                         *)
(* The run is the library as ScxmlBase models it, without what the runners *)
(* do not use; its tests end of themselves.                                *)
(***************************************************************************)
EXTENDS Naturals, Sequences, FiniteSets

CONSTANTS
  Count,     \* the tests in the list, in its order
  Special,   \* the manual or restricted ones
  UserWaits, \* the user clicks only when no outcome is pending
  MaxClicks  \* bound: clicks in one behaviour

ASSUME TestsAssumption ==
  /\ Count \in Nat \ {0}
  /\ Special \subseteq 1 .. Count
  /\ UserWaits \in BOOLEAN
  /\ MaxClicks \in Nat

Test == 1 .. Count
NoTest == 0
Result == {"pass", "final", "fail"}
TestState == {"Success", "Error", "Started", "Unknown", "Manual"}

VARIABLES
  \* the window, changed by its thread alone
  item,      \* item[i]: the state shown for test i
  progress,  \* the position of the progress bar
  started,   \* Stop is enabled and Start is not
  opened,    \* the handle has been opened
  gui,       \* what the window's thread does next, "idle" in its event loop
  after,     \* where it goes on after a join
  current,   \* the test it is about to start or to process
  passed,    \* the outcome it is about to process
  announced, \* the window has said, last of all, that all tests were completed
  clicks,    \* the number of clicks so far
  posts,     \* the pending outcomes
  \* the interpreter
  user,      \* the registered user data of the stopped callback
  run,       \* how far the thread of the last start is
  running,   \* the test that it executes
  \* history
  outcome    \* outcome[i]: what the last run of test i came to

windowVars == <<item, progress, started, opened, gui, after, current, passed,
                announced, clicks>>
runVars == <<run, running, outcome>>
vars == <<windowVars, posts, user, runVars>>

Post == [test : Test, pass : BOOLEAN]

TypeOK ==
  /\ item \in [Test -> TestState]
  /\ progress \in 0 .. Count
  /\ started \in BOOLEAN /\ opened \in BOOLEAN /\ announced \in BOOLEAN
  /\ gui \in {"idle", "process", "join", "load", "announce", "closed"}
  /\ after \in {"idle", "load", "announce", "closed"}
  /\ current \in Test \cup {NoTest}
  /\ passed \in BOOLEAN
  /\ clicks \in Nat
  /\ posts \in Seq(Post)
  /\ user \in Test \cup {NoTest}
  /\ run \in {"none", "undef", "stepping", "cancelled", "ended", "returned"}
  /\ running \in Test \cup {NoTest}
  /\ outcome \in [Test -> Result \cup {"none", "running", "refused"}]

\* The list is filled and Start enabled by the window's constructor.
Init ==
  /\ item = [i \in Test |-> "Unknown"]
  /\ progress = 0
  /\ started = FALSE /\ opened = FALSE /\ announced = FALSE
  /\ gui = "idle" /\ after = "idle"
  /\ current = NoTest /\ passed = FALSE
  /\ clicks = 0
  /\ posts = <<>>
  /\ user = NoTest
  /\ run = "none" /\ running = NoTest
  /\ outcome = [i \in Test |-> "none"]

-----------------------------------------------------------------------------
(* The interpreter thread and the calls that wait for it.                  *)

\* The first setState(): from now on a stop cancels the run.
RunSetsState ==
  /\ run = "undef"
  /\ run' = "stepping"
  /\ UNCHANGED <<windowVars, posts, user, running, outcome>>

\* The chart reaches a final state, or is cancelled before it does.
RunEnds ==
  /\ run \in {"stepping", "cancelled"}
  /\ run' = "ended"
  /\ \E result \in Result : outcome' = [outcome EXCEPT ![running] = result]
  /\ UNCHANGED <<windowVars, posts, user, running>>

\* Broken variant: a cleared callback is called.
ReportsEndUnchecked(good) ==
  /\ run = "ended"
  /\ run' = "returned"
  /\ posts' = Append(posts, [test |-> user, pass |-> outcome[running] \in good])
  /\ UNCHANGED <<windowVars, user, running, outcome>>

\* The stopped callback posts whether the chart ended in one of the states good,
\* unless the close has cleared the callback.
ReportsEnd(good) ==
  /\ run = "ended"
  /\ run' = "returned"
  /\ posts' = IF user = NoTest THEN posts
              ELSE Append(posts, [test |-> user, pass |-> outcome[running] \in good])
  /\ UNCHANGED <<windowVars, user, running, outcome>>

\* close() of the library: a run that has set its state is cancelled.
Cancel == run' = IF run = "stepping" THEN "cancelled" ELSE run

Joinable == run \in {"none", "returned"}

\* The library has loaded the current test and made a thread for it.
Load ==
  /\ run' = "undef" /\ running' = current
  /\ outcome' = [outcome EXCEPT ![current] = "running"]

\* It could not load it.
Refuse ==
  /\ outcome' = [outcome EXCEPT ![current] = "refused"]
  /\ UNCHANGED <<run, running>>

\* A call on the window's thread has waited for the thread of the last run.
Joined ==
  /\ gui = "join" /\ Joinable
  /\ run' = "none" /\ running' = NoTest
  /\ gui' = after
  /\ UNCHANGED <<item, progress, started, opened, after, current, passed,
                 announced, clicks, posts, user, outcome>>

-----------------------------------------------------------------------------
(* What the handlers of the windows share.                                 *)

Startable(i) == item[i] \in {"Unknown", "Started"}

\* The event loop takes the user's next click.
Click ==
  /\ gui = "idle"
  /\ clicks < MaxClicks
  /\ clicks' = clicks + 1
  /\ announced' = FALSE
  /\ UserWaits => posts = <<>>

\* The event loop takes the next posted outcome.
TakeOutcome ==
  /\ gui = "idle" /\ posts # <<>>
  /\ gui' = "process"
  /\ current' = Head(posts).test /\ passed' = Head(posts).pass
  /\ posts' = Tail(posts)
  /\ announced' = FALSE
  /\ UNCHANGED <<item, progress, started, opened, after, clicks, user, runVars>>

\* The window shows the numbers of passed, manual and failed tests.
Announce ==
  /\ gui = "announce"
  /\ announced' = TRUE
  /\ gui' = "idle"
  /\ UNCHANGED <<item, progress, started, opened, after, current, passed, clicks,
                 posts, user, runVars>>

-----------------------------------------------------------------------------
(* Properties.                                                             *)

HasResult(i) == item[i] \in {"Success", "Error", "Manual"}

\* A test that is shown as passed came to one of the states good when it was last
\* run, and one that is shown as failed did not, or could not be loaded.
ShownAsRun(good) ==
  \A i \in Test : /\ item[i] = "Success" => outcome[i] \in good
                  /\ item[i] = "Error" => outcome[i] \in (Result \ good) \cup {"refused"}

\* When the window says that all tests were completed, every test has a result.
AllWereCompleted == announced => \A i \in Test : HasResult(i)

Executes == run \notin {"none", "returned"}

Stalled == \/ ~started \/ gui = "closed"
           \/ \E i \in Test : outcome[i] = "refused"

\* An outcome is on its way: of a run, or to the window, or in its hands.
UnderWay == gui # "idle" \/ posts # <<>> \/ Executes

\* A step that leaves no outcome under way leaves every test with a result, or
\* the tests stopped or the window closed, or it could not load its test.
HandedOn ==
  UnderWay /\ ~UnderWay' => \/ \A i \in Test : HasResult(i)'
                            \/ ~started' \/ gui' = "closed"
                            \/ gui = "load" /\ outcome'[current] = "refused"

\* The chain of tests does not break off: every test that still has to be run
\* while another one is executed gets its turn, unless the user stops the chain
\* or a test cannot be loaded.
EveryTestGetsItsTurn ==
  \A i \in Test : (Startable(i) /\ Executes /\ started) ~> (HasResult(i) \/ Stalled)
=============================================================================
