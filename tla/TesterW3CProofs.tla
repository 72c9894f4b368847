--------------------------- MODULE TesterW3CProofs ---------------------------
(***************************************************************************)
(* Proofs about the two W3C test runners, for any list of tests and any    *)
(* number of clicks.  The types hold for every user.  That results are the *)
(* tests' own and that completed means all need a user who clicks only     *)
(* when no outcome is pending; then the runs and their outcomes form one   *)
(* line, and the invariant follows it from the click to the list:          *)
(*   OneAtATime   - there is one run, or one outcome, or none;             *)
(*   RunOfAnOpenTest - a test that is executed has no result in the list;  *)
(*   TrueOutcomes - an outcome on its way is that of its test's last run;  *)
(*   CountedOnce  - the Qt window counts no more outcomes than tests have  *)
(*                  results, which is what its end of the tests relies on. *)
(* The windows' handlers are first brought into a common form.             *)
(***************************************************************************)
EXTENDS TesterW3C, FiniteSetTheorems, WellFoundedInduction, TLAPS

\* A set of tests that is not empty has a first one, which both windows search.
LEMMA FirstOfTests ==
  ASSUME NEW S \in SUBSET Test, S # {}
  PROVE  \E i \in S : \A j \in S : i <= j
<1>1. S \subseteq Nat
  BY TestsAssumption DEF Test
<1>2. PICK i \in S : \A j \in S : ~(<<j, i>> \in OpToRel(<, Nat))
  BY <1>1, NatLessThanWellFounded, WFMin
<1>3. ASSUME NEW j \in S PROVE i <= j
  <2>1. i \in Nat /\ j \in Nat
    BY <1>1
  <2>2. j < i => <<j, i>> \in OpToRel(<, Nat)
    BY <2>1, Zenon DEF OpToRel
  <2>3. ~(j < i)
    BY <1>2, <2>2, Zenon
  <2>4. QED
    BY <2>1, <2>3
<1>4. QED
  BY <1>3

------------------------------------------------------------------------------
(* The common form of the handlers.                                        *)

Good == IF window = "VCL" THEN VCL!Good ELSE Qt!Good
Open(i) == item[i] \in {"Unknown", "Started"}

\* The next open test is processed at once, as C++ Builder's window does with a
\* special one, or started.
StartsNext(shown) ==
  \/ /\ \A i \in Test : shown[i] \notin {"Unknown", "Started"}
     /\ item' = shown /\ gui' = "idle"
     /\ UNCHANGED <<after, current, passed, user>>
  \/ \E n \in Test :
       /\ shown[n] \in {"Unknown", "Started"}
       /\ item' = [shown EXCEPT ![n] = "Started"]
       /\ user' = n /\ current' = n
       /\ passed' \in {FALSE, passed}
       /\ \/ window = "VCL" /\ n \in Special /\ gui' = "process" /\ UNCHANGED after
          \/ gui' = "join" /\ after' = "load"

Starts ==
  /\ Click /\ ~started
  /\ started' = TRUE
  /\ \/ opened' = TRUE /\ StartsNext(item)
     \/ ~opened /\ UNCHANGED <<item, opened, gui, after, current, passed, user>>
  /\ UNCHANGED <<progress, posts, runVars>>

StopsThen(next) ==
  /\ started' = FALSE
  /\ IF opened THEN Cancel /\ gui' = "join" /\ after' = next
               ELSE gui' = next /\ UNCHANGED <<run, after>>
  /\ UNCHANGED <<opened, current, passed, posts, user, running, outcome>>

Stops == Click /\ started /\ StopsThen("idle") /\ UNCHANGED <<item, progress>>

Resets ==
  /\ Click
  /\ item' = [i \in Test |-> "Unknown"]
  /\ progress' = 0
  /\ UNCHANGED <<started, opened, gui, after, current, passed, posts, user, runVars>>

Closes ==
  /\ gui = "idle"
  /\ IF opened THEN Cancel /\ user' = NoTest /\ gui' = "join" /\ after' = "closed"
               ELSE gui' = "closed" /\ UNCHANGED <<run, user, after>>
  /\ announced' = FALSE
  /\ UNCHANGED <<item, progress, started, opened, current, passed, clicks, posts,
                 running, outcome>>

LoadsTest ==
  /\ gui = "load"
  /\ gui' = "idle"
  /\ \/ Load /\ UNCHANGED item
     \/ Refuse /\ item' = [item EXCEPT ![current] = "Error"]
  /\ UNCHANGED <<progress, started, opened, after, current, passed, announced,
                 clicks, posts, user>>

\* The list with the outcome that is processed, the position the progress bar
\* takes, and whether the window takes it for its end.
Processed ==
  [item EXCEPT ![current] = CASE current \in Special -> "Manual"
                              [] current \notin Special /\ passed -> "Success"
                              [] OTHER -> "Error"]
Position == IF window = "VCL" THEN current
            ELSE IF progress < Count THEN progress + 1 ELSE progress

Processes ==
  /\ gui = "process"
  /\ \/ /\ ~started
        /\ gui' = "idle" /\ UNCHANGED <<item, progress, started, opened, after,
                                        current, passed, posts, user, runVars>>
     \/ /\ started
        /\ progress' = Position
        /\ \/ Position = Count /\ item' = Processed /\ StopsThen("announce")
           \/ /\ Position # Count /\ StartsNext(Processed)
              /\ UNCHANGED <<started, opened, posts, runVars>>
  /\ UNCHANGED <<announced, clicks>>

\* One step of either runner.
RunnerStep ==
  \/ TakeOutcome \/ Processes \/ Joined \/ LoadsTest \/ Announce
  \/ RunSetsState \/ RunEnds \/ ReportsEnd(Good)
  \/ Starts \/ Stops \/ Resets \/ Closes

TypeInv ==
  /\ TypeOK
  /\ window \in {"VCL", "Qt"}
  /\ gui = "process" => current \in Test

\* Both searches find an open test whenever there is one.
LEMMA SearchFindsOpen ==
  ASSUME NEW shown \in [Test -> TestState]
  PROVE  LET open == {i \in Test : shown[i] \in {"Unknown", "Started"}}
             next == CHOOSE i \in open : \A j \in open : i <= j
         IN  open # {} => next \in Test /\ shown[next] \in {"Unknown", "Started"}
<1> DEFINE open == {i \in Test : shown[i] \in {"Unknown", "Started"}}
           next == CHOOSE i \in open : \A j \in open : i <= j
<1> SUFFICES ASSUME open # {} PROVE next \in open
  OBVIOUS
<1>1. open \in SUBSET Test
  OBVIOUS
<1> HIDE DEF open
<1>2. \E i \in open : \A j \in open : i <= j
  BY <1>1, FirstOfTests
<1>3. QED
  BY <1>2

\* C++ Builder's search has the common form.
LEMMA VCLStartsNext ==
  ASSUME NEW shown \in [Test -> TestState], window = "VCL",
         VCL!InterpreterStartNext(shown)
  PROVE  StartsNext(shown)
<1> DEFINE open == {i \in Test : shown[i] \in {"Unknown", "Started"}}
           next == CHOOSE i \in open : \A j \in open : i <= j
<1>1. CASE open = {}
  BY <1>1 DEF VCL!InterpreterStartNext, VCL!Test, Test, StartsNext
<1>2. CASE open # {}
  <2>1. next \in Test /\ shown[next] \in {"Unknown", "Started"}
    BY <1>2, SearchFindsOpen
  <2>2. /\ item' = [shown EXCEPT ![next] = "Started"]
        /\ user' = next /\ current' = next /\ passed' = FALSE
        /\ IF next \in Special THEN gui' = "process" /\ UNCHANGED after
                               ELSE gui' = "join" /\ after' = "load"
    BY <1>2 DEF VCL!InterpreterStartNext, VCL!Test, Test
  <2>3. QED
    BY <2>1, <2>2 DEF StartsNext
<1>3. QED
  BY <1>1, <1>2

\* So has the search of the Qt window.
LEMMA QtStartsNext ==
  ASSUME NEW shown \in [Test -> TestState], Qt!interpreterStartNext(shown)
  PROVE  StartsNext(shown)
<1> DEFINE open == {i \in Test : shown[i] \in {"Unknown", "Started"}}
           next == CHOOSE i \in open : \A j \in open : i <= j
<1>1. CASE open = {}
  BY <1>1 DEF Qt!interpreterStartNext, Qt!Test, Test, StartsNext
<1>2. CASE open # {}
  <2>1. next \in Test /\ shown[next] \in {"Unknown", "Started"}
    BY <1>2, SearchFindsOpen
  <2>2. /\ item' = [shown EXCEPT ![next] = "Started"]
        /\ user' = next /\ current' = next /\ UNCHANGED passed
        /\ gui' = "join" /\ after' = "load"
    BY <1>2 DEF Qt!interpreterStartNext, Qt!Test, Test
  <2>3. QED
    BY <2>1, <2>2 DEF StartsNext
<1>3. QED
  BY <1>1, <1>2

\* The list with an outcome processed is a list of states again.
LEMMA ProcessedType == TypeInv => Processed \in [Test -> TestState]
  BY DEF TypeInv, TypeOK, TestState, Processed

\* Every step of C++ Builder's window has the common form.
LEMMA VCLSteps ==
  ASSUME TypeInv, window = "VCL", VCL!WindowNext \/ VCL!RunNext \/ VCL!UserNext
  PROVE  RunnerStep
<1> USE DEF VCL!runVars, runVars, VCL!windowVars, windowVars, VCL!NoTest, NoTest
<1>1. CASE VCL!TakeOutcome
  BY <1>1 DEF VCL!TakeOutcome, TakeOutcome, RunnerStep
<1>2. CASE VCL!ProcessedNode
  <2>1. CASE ~started
    BY <1>2, <2>1 DEF VCL!ProcessedNode, Processes, RunnerStep
  <2>2. CASE started
    <3>1. CASE current = Count
      BY <1>2, <2>2, <3>1 DEF VCL!ProcessedNode, VCL!Stop, VCL!Cancel, StopsThen, Cancel,
         Processed, Position, Processes, RunnerStep
    <3>2. CASE current # Count
      <4>1. VCL!InterpreterStartNext(Processed) => StartsNext(Processed)
        BY ProcessedType, VCLStartsNext
      <4>2. /\ progress' = Position
            /\ VCL!InterpreterStartNext(Processed)
            /\ UNCHANGED <<started, opened, posts, runVars, announced, clicks>>
            /\ gui = "process"
        BY <1>2, <2>2, <3>2 DEF VCL!ProcessedNode, Processed, Position
      <4>3. QED
        BY <2>2, <3>2, <4>1, <4>2 DEF Processes, RunnerStep, Position
    <3>3. QED
      BY <3>1, <3>2
  <2>3. QED
    BY <2>1, <2>2, <1>2 DEF TypeInv, TypeOK
<1>3. CASE VCL!Joined
  BY <1>3 DEF VCL!Joined, Joined, VCL!Joinable, Joinable, RunnerStep
<1>4. CASE VCL!StartInterpreter
  BY <1>4 DEF VCL!StartInterpreter, LoadsTest, VCL!Load, Load, VCL!Refuse, Refuse, RunnerStep
<1>5. CASE VCL!Announce
  BY <1>5 DEF VCL!Announce, Announce, RunnerStep
<1>6. CASE VCL!RunSetsState
  BY <1>6 DEF VCL!RunSetsState, RunSetsState, RunnerStep
<1>7. CASE VCL!RunEnds
  BY <1>7 DEF VCL!RunEnds, RunEnds, VCL!Result, Result, RunnerStep
<1>8. CASE VCL!OnInterpreterStopped
  BY <1>8 DEF VCL!OnInterpreterStopped, VCL!ReportsEnd, ReportsEnd, Good, RunnerStep
<1>9. CASE VCL!BtnStartClick
  <2>1. VCL!InterpreterStartNext(item) => StartsNext(item)
    BY VCLStartsNext DEF TypeInv, TypeOK
  <2>2. Starts
    BY <1>9, <2>1 DEF VCL!BtnStartClick, Starts, VCL!Click, Click
  <2>3. QED
    BY <2>2 DEF RunnerStep
<1>10. CASE VCL!BtnStopClick
  BY <1>10 DEF VCL!BtnStopClick, VCL!Click, Click, VCL!Stop, StopsThen, VCL!Cancel, Cancel,
     Stops, RunnerStep
<1>11. CASE VCL!BtnResetClick
  BY <1>11 DEF VCL!BtnResetClick, VCL!Click, Click, VCL!Test, Test, Resets, RunnerStep
<1>12. CASE VCL!CloseForm
  BY <1>12 DEF VCL!CloseForm, VCL!Cancel, Cancel, Closes, RunnerStep
<1>13. QED
  BY <1>1, <1>2, <1>3, <1>4, <1>5, <1>6, <1>7, <1>8, <1>9, <1>10, <1>11, <1>12
     DEF VCL!WindowNext, VCL!RunNext, VCL!UserNext

\* So has every step of the Qt window.
LEMMA QtSteps ==
  ASSUME TypeInv, window = "Qt", Qt!WindowNext \/ Qt!RunNext \/ Qt!UserNext
  PROVE  RunnerStep
<1> USE DEF Qt!runVars, runVars, Qt!windowVars, windowVars, Qt!NoTest, NoTest
<1>1. CASE Qt!TakeOutcome
  BY <1>1 DEF Qt!TakeOutcome, TakeOutcome, RunnerStep
<1>2. CASE Qt!InterpreterStopped
  <2>1. CASE ~started
    BY <1>2, <2>1 DEF Qt!InterpreterStopped, Processes, RunnerStep
  <2>2. CASE started
    <3>1. CASE Qt!Advanced = Count
      BY <1>2, <2>2, <3>1 DEF Qt!InterpreterStopped, Qt!Stop, Qt!Cancel, StopsThen, Cancel,
         Processed, Position, Qt!Advanced, Processes, RunnerStep
    <3>2. CASE Qt!Advanced # Count
      <4>1. Qt!interpreterStartNext(Processed) => StartsNext(Processed)
        BY ProcessedType, QtStartsNext
      <4>2. /\ progress' = Position
            /\ Position = Qt!Advanced
            /\ Qt!interpreterStartNext(Processed)
            /\ UNCHANGED <<started, opened, posts, runVars, announced, clicks>>
            /\ gui = "process"
        BY <1>2, <2>2, <3>2 DEF Qt!InterpreterStopped, Processed, Position, Qt!Advanced
      <4>3. QED
        BY <2>2, <3>2, <4>1, <4>2 DEF Processes, RunnerStep
    <3>3. QED
      BY <3>1, <3>2
  <2>3. QED
    BY <2>1, <2>2, <1>2 DEF TypeInv, TypeOK
<1>3. CASE Qt!Joined
  BY <1>3 DEF Qt!Joined, Joined, Qt!Joinable, Joinable, RunnerStep
<1>4. CASE Qt!StartInterpreter
  BY <1>4 DEF Qt!StartInterpreter, LoadsTest, Qt!Load, Load, Qt!Refuse, Refuse, RunnerStep
<1>5. CASE Qt!Announce
  BY <1>5 DEF Qt!Announce, Announce, RunnerStep
<1>6. CASE Qt!RunSetsState
  BY <1>6 DEF Qt!RunSetsState, RunSetsState, RunnerStep
<1>7. CASE Qt!RunEnds
  BY <1>7 DEF Qt!RunEnds, RunEnds, Qt!Result, Result, RunnerStep
<1>8. CASE Qt!OnInterpreterStopped
  BY <1>8 DEF Qt!OnInterpreterStopped, Qt!ReportsEnd, ReportsEnd, Good, RunnerStep
<1>9. CASE Qt!on_btnStart_clicked
  <2>1. Qt!interpreterStartNext(item) => StartsNext(item)
    BY QtStartsNext DEF TypeInv, TypeOK
  <2>2. Starts
    BY <1>9, <2>1 DEF Qt!on_btnStart_clicked, Starts, Qt!Click, Click
  <2>3. QED
    BY <2>2 DEF RunnerStep
<1>10. CASE Qt!on_btnStop_clicked
  BY <1>10 DEF Qt!on_btnStop_clicked, Qt!Click, Click, Qt!Stop, StopsThen, Qt!Cancel, Cancel,
     Stops, RunnerStep
<1>11. CASE Qt!on_btnReset_clicked
  BY <1>11 DEF Qt!on_btnReset_clicked, Qt!Click, Click, Qt!Test, Test, Resets, RunnerStep
<1>12. CASE Qt!CloseWindow
  BY <1>12 DEF Qt!CloseWindow, Qt!Cancel, Cancel, Closes, RunnerStep
<1>13. QED
  BY <1>1, <1>2, <1>3, <1>4, <1>5, <1>6, <1>7, <1>8, <1>9, <1>10, <1>11, <1>12
     DEF Qt!WindowNext, Qt!RunNext, Qt!UserNext

\* A step of the specification is a step of one of the runners, or none.
LEMMA StepsOfARunner ==
  ASSUME TypeInv, [Next]_<<vars, window>>
  PROVE  /\ RunnerStep \/ UNCHANGED vars
         /\ UNCHANGED window
<1>1. CASE Next
  <2>1. \/ window = "VCL" /\ (VCL!WindowNext \/ VCL!RunNext \/ VCL!UserNext)
        \/ window = "Qt" /\ (Qt!WindowNext \/ Qt!RunNext \/ Qt!UserNext)
    BY <1>1 DEF Next, OfWindow, OfRun, OfUser
  <2>2. UNCHANGED window
    BY <1>1 DEF Next, OfWindow, OfRun, OfUser
  <2>3. QED
    BY <2>1, <2>2, VCLSteps, QtSteps
<1>2. QED
  BY <1>1

------------------------------------------------------------------------------
(* Types.                                                                  *)

\* What a click itself changes.
LEMMA ClickTyped ==
  ASSUME clicks \in Nat, Click
  PROVE  clicks' \in Nat /\ announced' \in BOOLEAN /\ gui = "idle"
<1>1. clicks' = clicks + 1 /\ announced' = FALSE /\ gui = "idle"
  BY Zenon DEF Click
<1>2. clicks' \in Nat
  BY <1>1, SMT
<1>3. announced' \in BOOLEAN
  BY <1>1, Zenon
<1>4. QED
  BY <1>1, <1>2, <1>3

\* Every step of a runner keeps the types.
LEMMA TypesKept ==
  ASSUME TypeInv, RunnerStep \/ UNCHANGED vars, UNCHANGED window
  PROVE  TypeInv'
<1> USE TestsAssumption DEF TypeInv, TypeOK, runVars, windowVars, Result, TestState, NoTest
<1>1. CASE TakeOutcome
  <2>1. posts # <<>> /\ posts \in Seq(Post)
    BY <1>1 DEF TakeOutcome
  <2>2. Head(posts) \in Post /\ Tail(posts) \in Seq(Post)
    BY <2>1
  <2>3. Head(posts).test \in Test /\ Head(posts).pass \in BOOLEAN
    BY <2>2 DEF Post
  <2>4. QED
    BY <1>1, <2>2, <2>3 DEF TakeOutcome
<1>2. ASSUME NEW shown \in [Test -> TestState], StartsNext(shown)
      PROVE  /\ item' \in [Test -> TestState] /\ user' \in Test \cup {NoTest}
             /\ current' \in Test \cup {NoTest} /\ passed' \in BOOLEAN
             /\ gui' \in {"idle", "process", "join"} /\ after' \in {after, "load"}
             /\ gui' = "process" => current' \in Test
  BY <1>2 DEF StartsNext
<1>3. ASSUME NEW next \in {"idle", "announce"}, StopsThen(next)
      PROVE  /\ started' \in BOOLEAN /\ gui' \in {next, "join"} /\ after' \in {next, after}
             /\ run' \in {run, "cancelled"}
             /\ UNCHANGED <<opened, current, passed, posts, user, running, outcome>>
  BY <1>3 DEF StopsThen, Cancel
<1>4. CASE Processes
  <2>1. current \in Test /\ Processed \in [Test -> TestState]
    BY <1>4, ProcessedType DEF Processes
  <2>2. Position \in 0 .. Count
    BY <2>1 DEF Position, Test
  <2>3. CASE ~started
    BY <1>4, <2>3 DEF Processes
  <2>4. CASE started /\ StartsNext(Processed) /\ UNCHANGED <<started, opened, posts, runVars>>
    BY <1>4, <2>1, <2>2, <2>4, <1>2 DEF Processes
  <2>5. CASE started /\ item' = Processed /\ StopsThen("announce")
    BY <1>4, <2>1, <2>2, <2>5, <1>3 DEF Processes
  <2>6. QED
    BY <1>4, <2>3, <2>4, <2>5 DEF Processes
<1>5. CASE Joined
  BY <1>5 DEF Joined
<1>6. CASE LoadsTest
  BY <1>6 DEF LoadsTest, Load, Refuse
<1>7. CASE Announce
  BY <1>7 DEF Announce
<1>8. CASE RunSetsState \/ RunEnds
  BY <1>8 DEF RunSetsState, RunEnds
<1>9. CASE ReportsEnd(Good)
  <2>1. user # NoTest => [test |-> user, pass |-> outcome[running] \in Good] \in Post
    BY DEF Post
  <2>2. posts' \in Seq(Post)
    BY <1>9, <2>1 DEF ReportsEnd
  <2>3. QED
    BY <1>9, <2>2 DEF ReportsEnd
<1>a. Click => clicks' \in Nat /\ announced' \in BOOLEAN /\ gui = "idle"
  BY ClickTyped
<1>10. CASE Starts
  <2>1. CASE StartsNext(item) /\ opened'
    BY <1>10, <2>1, <1>2, <1>a DEF Starts
  <2>2. CASE UNCHANGED <<item, opened, gui, after, current, passed, user>>
    BY <1>10, <2>2, <1>a DEF Starts
  <2>3. QED
    BY <1>10, <2>1, <2>2 DEF Starts
<1>11. CASE Stops
  BY <1>11, <1>3, <1>a DEF Stops
<1>12. CASE Resets
  BY <1>12, <1>a DEF Resets
<1>13. CASE Closes
  BY <1>13 DEF Closes, Cancel
<1>14. CASE UNCHANGED vars
  BY <1>14 DEF vars
<1>15. QED
  BY <1>1, <1>4, <1>5, <1>6, <1>7, <1>8, <1>9, <1>10, <1>11, <1>12, <1>13, <1>14 DEF RunnerStep

\* The constructor's list, bar and handle have their types.
LEMMA InitTyped == RunnerInit => TypeInv
<1> SUFFICES ASSUME RunnerInit PROVE TypeInv
  OBVIOUS
<1>1. posts \in Seq(Post)
  BY DEF RunnerInit, Init
<1>2. /\ item = [i \in Test |-> "Unknown"] /\ outcome = [i \in Test |-> "none"]
      /\ progress = 0 /\ clicks = 0 /\ current = NoTest /\ user = NoTest /\ running = NoTest
      /\ started = FALSE /\ opened = FALSE /\ announced = FALSE /\ passed = FALSE
      /\ gui = "idle" /\ after = "idle" /\ run = "none" /\ window \in {"VCL", "Qt"}
  BY DEF RunnerInit, Init
<1>3. item \in [Test -> TestState] /\ progress \in 0 .. Count
  BY <1>2, TestsAssumption DEF TestState
<1>4. QED
  BY <1>1, <1>2, <1>3 DEF TypeInv, TypeOK

\* The types hold in every reachable state.
LEMMA TypeInvariance == FairSpec => []TypeInv
<1>1. TypeInv /\ [Next]_<<vars, window>> => TypeInv'
  BY StepsOfARunner, TypesKept
<1>2. QED
  BY InitTyped, <1>1, PTL DEF FairSpec

\* The list, the handle and the outcomes keep their types in both windows,
\* whenever the user clicks.
THEOREM TesterTypeCorrect == FairSpec => []TypeOK
<1>1. TypeInv => TypeOK
  BY DEF TypeInv
<1>2. QED
  BY TypeInvariance, <1>1, PTL

------------------------------------------------------------------------------
(* One run, or one outcome, at a time.                                     *)

Idling == run \in {"none", "returned"}
Pending == posts # <<>>
Outcome == Head(posts)
Starting == gui = "load" \/ (gui = "join" /\ after = "load")
Saying == gui = "announce" \/ (gui = "join" /\ after = "announce")

\* While the window is between an outcome and the next run nothing is executed
\* and no outcome is on its way; a window that is stopped executes nothing.
OneAtATime ==
  /\ Pending => Tail(posts) = <<>> /\ Idling
  /\ gui = "process" \/ Starting \/ Saying => ~Pending /\ Idling
  /\ gui = "idle" /\ ~started => Idling
  /\ Starting => started
  /\ ~opened => Idling /\ ~Pending /\ gui # "process" /\ ~Starting

\* The test that will be or is executed has no result in the list, and the
\* callback is given this test.
RunOfAnOpenTest ==
  /\ Starting => current \in Test /\ user = current /\ Open(current)
  /\ ~Idling => running \in Test /\ Open(running) /\ user \in {running, NoTest}
  /\ run = "ended" => outcome[running] \in Result

Truthful(i, pass) == outcome[i] \in Result /\ (pass <=> outcome[i] \in Good)

\* An outcome that is posted or processed is that of the last run of its test,
\* which the list still shows as open.
TrueOutcomes ==
  /\ Pending => Open(Outcome.test) /\ Truthful(Outcome.test, Outcome.pass)
  /\ gui = "process" =>
       /\ Open(current)
       /\ Truthful(current, passed) \/ (window = "VCL" /\ current \in Special)

\* The Qt window has counted no more outcomes than there are results, and all
\* tests have one when it says so.
Having == {i \in Test : HasResult(i)}
CountedOnce ==
  window = "Qt" =>
    /\ progress <= Cardinality(Having)
    /\ Saying \/ announced => \A i \in Test : HasResult(i)
    /\ announced => gui = "idle"

LineInv ==
  OneAtATime /\ RunOfAnOpenTest /\ TrueOutcomes /\ ShownAsRun(Good) /\ CountedOnce

\* What the steps do to the outcome on its way.
LEMMA OutcomeTaken ==
  ASSUME TypeInv, OneAtATime, TakeOutcome
  PROVE  Pending /\ ~Pending' /\ current' = Outcome.test /\ passed' = Outcome.pass
  BY Zenon DEF TakeOutcome, OneAtATime, Pending, Outcome

\* The outcome of the only run is posted with the test that was executed.
LEMMA OutcomePosted ==
  ASSUME TypeInv, OneAtATime, ReportsEnd(Good)
  PROVE  /\ ~Pending
         /\ user = NoTest => ~Pending'
         /\ user # NoTest => /\ Pending' /\ Tail(posts') = <<>>
                             /\ Outcome'.test = user
                             /\ Outcome'.pass = (outcome[running] \in Good)
<1>1. posts = <<>>
  BY DEF ReportsEnd, OneAtATime, Pending, Idling
<1>2. user = NoTest => ~Pending'
  BY <1>1 DEF ReportsEnd, Pending
<1>3. ASSUME user # NoTest
      PROVE  Pending' /\ Tail(posts') = <<>> /\ Outcome'.test = user
             /\ Outcome'.pass = (outcome[running] \in Good)
  <2> DEFINE post == [test |-> user, pass |-> outcome[running] \in Good]
  <2>1. posts' = Append(<<>>, post)
    BY <1>1, <1>3 DEF ReportsEnd
  <2>2. post.test = user /\ post.pass = (outcome[running] \in Good)
    OBVIOUS
  <2> HIDE DEF post
  <2>3. Append(<<>>, post) # <<>> /\ Tail(Append(<<>>, post)) = <<>>
        /\ Head(Append(<<>>, post)) = post
    BY SMT
  <2>4. QED
    BY <2>1, <2>2, <2>3, Zenon DEF Pending, Outcome
<1>4. QED
  BY <1>1, <1>2, <1>3 DEF Pending

\* A user who waits clicks when the window is idle and no outcome is pending.
LEMMA WaitingClick ==
  ASSUME UserWaits, Click
  PROVE  gui = "idle" /\ ~Pending /\ announced' = FALSE
  BY DEF Click, Pending

\* The steps that neither post nor take an outcome.
LEMMA OutcomeStands ==
  ASSUME UNCHANGED posts
  PROVE  Pending' = Pending /\ Outcome' = Outcome /\ Tail(posts') = Tail(posts)
  BY Zenon DEF Pending, Outcome

\* A run is started only from a click of a waiting user or from the outcome of
\* the run before it.
LEMMA OneAtATimeKept ==
  ASSUME UserWaits, TypeInv, LineInv, RunnerStep, UNCHANGED window
  PROVE  OneAtATime'
<1> USE DEF LineInv, OneAtATime, Idling, Starting, Saying
<1>1. CASE TakeOutcome
  BY <1>1, OutcomeTaken DEF TakeOutcome, runVars
<1>2. CASE Processes
  <2>1. Pending' = Pending /\ ~Pending /\ Idling /\ opened /\ gui = "process"
    BY <1>2, OutcomeStands DEF Processes, StopsThen
  <2>2. CASE ~started
    BY <1>2, <2>1, <2>2 DEF Processes, runVars
  <2>3. CASE started /\ StartsNext(Processed) /\ UNCHANGED <<started, opened, posts, runVars>>
    BY <1>2, <2>1, <2>3 DEF StartsNext, runVars
  <2>4. CASE started /\ StopsThen("announce")
    <3>1. gui' = "join" /\ after' = "announce" /\ run' = run /\ opened' /\ UNCHANGED posts
      BY <1>2, <2>1, <2>4 DEF StopsThen, Cancel
    <3>2. QED
      BY <2>1, <3>1
  <2>5. QED
    BY <1>2, <2>2, <2>3, <2>4 DEF Processes
<1>3. CASE Joined
  BY <1>3, OutcomeStands DEF Joined, Joinable, TypeInv, TypeOK
<1>4. CASE LoadsTest
  BY <1>4, OutcomeStands DEF LoadsTest, Load, Refuse
<1>5. CASE Announce
  BY <1>5, OutcomeStands DEF Announce, runVars
<1>6. CASE RunSetsState
  BY <1>6, OutcomeStands DEF RunSetsState, windowVars
<1>7. CASE RunEnds
  BY <1>7, OutcomeStands DEF RunEnds, windowVars
<1>8. CASE ReportsEnd(Good)
  BY <1>8, OutcomePosted DEF ReportsEnd, windowVars
<1>9. CASE Starts
  <2>1. gui = "idle" /\ ~Pending /\ Idling /\ Pending' = Pending
    BY <1>9, WaitingClick, OutcomeStands DEF Starts
  <2>2. CASE StartsNext(item) /\ opened'
    BY <1>9, <2>1, <2>2 DEF Starts, StartsNext, runVars
  <2>3. CASE UNCHANGED <<item, opened, gui, after, current, passed, user>>
    BY <1>9, <2>1, <2>3 DEF Starts, runVars
  <2>4. QED
    BY <1>9, <2>2, <2>3 DEF Starts
<1>10. CASE Stops
  BY <1>10, WaitingClick, OutcomeStands DEF Stops, StopsThen, Cancel
<1>11. CASE Resets
  BY <1>11, WaitingClick, OutcomeStands DEF Resets, runVars
<1>12. CASE Closes
  BY <1>12, OutcomeStands DEF Closes, Cancel
<1>13. QED
  BY <1>1, <1>2, <1>3, <1>4, <1>5, <1>6, <1>7, <1>8, <1>9, <1>10, <1>11, <1>12
     DEF RunnerStep

\* The list gives a test that is executed no result: the handlers give one only
\* while nothing is executed.
LEMMA RunOfAnOpenTestKept ==
  ASSUME UserWaits, TypeInv, LineInv, RunnerStep, UNCHANGED window
  PROVE  RunOfAnOpenTest'
<1> USE DEF LineInv, RunOfAnOpenTest, Idling, Starting, Open
<1>1. CASE TakeOutcome
  BY <1>1 DEF TakeOutcome, runVars
<1>2. CASE Processes
  <2>1. Idling /\ current \in Test /\ Processed \in [Test -> TestState]
    BY <1>2, ProcessedType DEF Processes, OneAtATime, TypeInv
  <2>2. CASE ~started
    BY <1>2, <2>1, <2>2 DEF Processes, runVars
  <2>3. CASE started /\ StartsNext(Processed) /\ UNCHANGED <<started, opened, posts, runVars>>
    BY <2>1, <2>3 DEF StartsNext, runVars
  <2>4. CASE started /\ StopsThen("announce")
    BY <2>1, <2>4 DEF StopsThen, Cancel
  <2>5. QED
    BY <1>2, <2>2, <2>3, <2>4 DEF Processes
<1>3. CASE Joined
  BY <1>3 DEF Joined, Joinable, TypeInv, TypeOK
<1>4. CASE LoadsTest
  BY <1>4 DEF LoadsTest, Load, Refuse, OneAtATime
<1>5. CASE Announce
  BY <1>5 DEF Announce, runVars
<1>6. CASE RunSetsState
  BY <1>6 DEF RunSetsState, windowVars
<1>7. CASE RunEnds
  BY <1>7 DEF RunEnds, windowVars, TypeInv, TypeOK
<1>8. CASE ReportsEnd(Good)
  BY <1>8 DEF ReportsEnd, windowVars
<1>9. CASE Starts
  <2>1. gui = "idle" /\ Idling
    BY <1>9, WaitingClick DEF Starts, OneAtATime
  <2>2. CASE StartsNext(item) /\ opened'
    BY <1>9, <2>1, <2>2 DEF Starts, StartsNext, runVars, TypeInv, TypeOK
  <2>3. CASE UNCHANGED <<item, opened, gui, after, current, passed, user>>
    BY <1>9, <2>1, <2>3 DEF Starts, runVars
  <2>4. QED
    BY <1>9, <2>2, <2>3 DEF Starts
<1>10. CASE Stops
  BY <1>10, WaitingClick DEF Stops, StopsThen, Cancel
<1>11. CASE Resets
  <2>1. gui = "idle" /\ item' = [i \in Test |-> "Unknown"] /\ gui' = gui
        /\ UNCHANGED <<run, running, user, outcome>>
    BY <1>11, WaitingClick DEF Resets, runVars
  <2>2. QED
    BY <2>1
<1>12. CASE Closes
  BY <1>12 DEF Closes, Cancel
<1>13. QED
  BY <1>1, <1>2, <1>3, <1>4, <1>5, <1>6, <1>7, <1>8, <1>9, <1>10, <1>11, <1>12
     DEF RunnerStep

\* From the callback to the handler an outcome stays true of its test.
LEMMA TrueOutcomesKept ==
  ASSUME UserWaits, TypeInv, LineInv, RunnerStep, UNCHANGED window
  PROVE  TrueOutcomes'
<1>g. Good' = Good
  BY DEF Good, VCL!Good, Qt!Good
<1> USE <1>g DEF LineInv, TrueOutcomes, OneAtATime, Idling, Starting, Open, Truthful
<1>1. CASE TakeOutcome
  <2>1. Pending /\ ~Pending' /\ current' = Outcome.test /\ passed' = Outcome.pass
    BY <1>1, OutcomeTaken
  <2>2. UNCHANGED <<item, outcome>>
    BY <1>1 DEF TakeOutcome, runVars
  <2>3. QED
    BY <2>1, <2>2
<1>2. CASE Processes
  <2>1. ~Pending' /\ Processed \in [Test -> TestState]
    BY <1>2, OutcomeStands, ProcessedType DEF Processes, StopsThen
  <2>2. CASE ~started
    BY <1>2, <2>1, <2>2 DEF Processes
  <2>3. CASE started /\ StartsNext(Processed) /\ UNCHANGED <<started, opened, posts, runVars>>
    BY <2>1, <2>3 DEF StartsNext
  <2>4. CASE started /\ StopsThen("announce")
    BY <2>1, <2>4 DEF StopsThen
  <2>5. QED
    BY <1>2, <2>2, <2>3, <2>4 DEF Processes
<1>3. CASE Joined
  BY <1>3, OutcomeStands DEF Joined, TypeInv, TypeOK
<1>4. CASE LoadsTest
  BY <1>4, OutcomeStands DEF LoadsTest
<1>5. CASE Announce
  BY <1>5, OutcomeStands DEF Announce, runVars
<1>6. CASE RunSetsState
  BY <1>6, OutcomeStands DEF RunSetsState, windowVars
<1>7. CASE RunEnds
  BY <1>7, OutcomeStands DEF RunEnds, windowVars
<1>8. CASE ReportsEnd(Good)
  <2>1. /\ user \in {running, NoTest} /\ Open(running) /\ outcome[running] \in Result
        /\ gui # "process"
    BY <1>8 DEF ReportsEnd, RunOfAnOpenTest
  <2>2. UNCHANGED <<item, outcome, gui>>
    BY <1>8 DEF ReportsEnd, windowVars
  <2>3. QED
    BY <1>8, <2>1, <2>2, OutcomePosted
<1>9. CASE Starts
  <2>1. gui = "idle" /\ ~Pending'
    BY <1>9, WaitingClick, OutcomeStands DEF Starts
  <2>2. CASE StartsNext(item)
    BY <2>1, <2>2 DEF StartsNext, TypeInv, TypeOK
  <2>3. CASE UNCHANGED <<item, opened, gui, after, current, passed, user>>
    BY <2>1, <2>3
  <2>4. QED
    BY <1>9, <2>2, <2>3 DEF Starts
<1>10. CASE Stops
  BY <1>10, WaitingClick, OutcomeStands DEF Stops, StopsThen
<1>11. CASE Resets
  BY <1>11, WaitingClick, OutcomeStands DEF Resets
<1>12. CASE Closes
  BY <1>12, OutcomeStands DEF Closes
<1>13. QED
  BY <1>1, <1>2, <1>3, <1>4, <1>5, <1>6, <1>7, <1>8, <1>9, <1>10, <1>11, <1>12
     DEF RunnerStep

\* A search changes no result.
LEMMA SearchKeepsResults ==
  ASSUME NEW shown \in [Test -> TestState], StartsNext(shown)
  PROVE  \A i \in Test : item'[i] = shown[i] \/ (shown[i] \in {"Unknown", "Started"}
                                                 /\ item'[i] = "Started")
  BY DEF StartsNext

\* The handlers show true outcomes, and runs change those of open tests.
LEMMA ShownTrueKept ==
  ASSUME UserWaits, TypeInv, LineInv, RunnerStep, UNCHANGED window
  PROVE  ShownAsRun(Good)'
<1>g. Good' = Good
  BY DEF Good, VCL!Good, Qt!Good
<1> USE <1>g DEF LineInv, ShownAsRun
<1>1. CASE TakeOutcome \/ Joined \/ Announce \/ RunSetsState \/ ReportsEnd(Good) \/ Closes \/ Stops
  <2>1. UNCHANGED <<item, outcome>>
    BY <1>1 DEF TakeOutcome, Joined, Announce, RunSetsState, ReportsEnd, Closes, Stops, StopsThen,
       windowVars, runVars
  <2>2. QED
    BY <2>1
<1>2. CASE Processes
  <2>1. /\ Open(current) /\ current \in Test /\ Processed \in [Test -> TestState]
        /\ Truthful(current, passed) \/ (window = "VCL" /\ current \in Special)
    BY <1>2, ProcessedType DEF Processes, TrueOutcomes, TypeInv
  <2>2. /\ \A i \in Test \ {current} : Processed[i] = item[i]
        /\ Processed[current] \in {"Manual", "Success", "Error"}
        /\ current \in Special => Processed[current] = "Manual"
        /\ passed => Processed[current] # "Error"
        /\ ~passed => Processed[current] # "Success"
    BY <2>1 DEF Processed, TypeInv, TypeOK
  <2>3. \A i \in Test : /\ Processed[i] = "Success" => outcome[i] \in Good
                        /\ Processed[i] = "Error" => outcome[i] \in (Result \ Good) \cup {"refused"}
    BY <2>1, <2>2 DEF Truthful
  <2>4. UNCHANGED outcome
    BY <1>2 DEF Processes, StopsThen, runVars
  <2>5. \A i \in Test : item'[i] \in {"Success", "Error"} => item'[i] \in {Processed[i], item[i]}
    <3>1. CASE StartsNext(Processed)
      BY <2>1, <3>1, SearchKeepsResults
    <3>2. CASE item' = Processed \/ UNCHANGED item
      BY <3>2
    <3>3. QED
      BY <1>2, <3>1, <3>2 DEF Processes
  <2>6. QED
    BY <2>3, <2>4, <2>5
<1>3. CASE LoadsTest
  <2>1. current \in Test /\ Open(current)
    BY <1>3 DEF LoadsTest, RunOfAnOpenTest, Starting
  <2>2. QED
    BY <1>3, <2>1 DEF LoadsTest, Load, Refuse, Open, TypeInv, TypeOK
<1>4. CASE RunEnds
  <2>1. running \in Test /\ Open(running)
    BY <1>4 DEF RunEnds, RunOfAnOpenTest, Idling
  <2>2. QED
    BY <1>4, <2>1 DEF RunEnds, Open, windowVars, TypeInv, TypeOK
<1>5. CASE Starts
  <2>1. UNCHANGED outcome
    BY <1>5 DEF Starts, runVars
  <2>2. \A i \in Test : item'[i] \in {"Success", "Error"} => item'[i] = item[i]
    BY <1>5, SearchKeepsResults DEF Starts, TypeInv, TypeOK
  <2>3. QED
    BY <2>1, <2>2
<1>6. CASE Resets
  BY <1>6 DEF Resets
<1>7. QED
  BY <1>1, <1>2, <1>3, <1>4, <1>5, <1>6 DEF RunnerStep

\* Sets of tests are finite, and one with Count tests has them all.
LEMMA TestsAreFinite ==
  ASSUME NEW S \in SUBSET Test
  PROVE  /\ IsFiniteSet(S) /\ Cardinality(S) \in Nat
         /\ Cardinality(S) >= Count => S = Test
<1>1. IsFiniteSet(Test) /\ Cardinality(Test) = Count
  BY FS_Interval, TestsAssumption DEF Test
<1>2. IsFiniteSet(S) /\ Cardinality(S) <= Count /\ (Count = Cardinality(S) => Test = S)
  BY <1>1, FS_Subset
<1>3. Cardinality(S) \in Nat
  BY <1>2, FS_CardinalityType
<1>4. QED
  BY <1>2, <1>3, TestsAssumption

\* The results before and after a step can be counted.
LEMMA HavingIsFinite ==
  /\ Cardinality(Having) \in Nat /\ Cardinality(Having') \in Nat
  /\ Cardinality(Having) >= Count => \A i \in Test : HasResult(i)
  /\ Cardinality(Having') >= Count => \A i \in Test : HasResult(i)'
<1>1. Having \in SUBSET Test /\ Having' \in SUBSET Test
  BY DEF Having
<1>2. Having = Test => \A i \in Test : HasResult(i)
  BY DEF Having
<1>3. Having' = Test => \A i \in Test : HasResult(i)'
  BY DEF Having, Test
<1>4. QED
  BY <1>1, <1>2, <1>3, TestsAreFinite

\* A step that gives an open test i a result and takes none away gives one more.
LEMMA OneMoreResult ==
  ASSUME NEW i \in Test, ~HasResult(i), HasResult(i)',
         \A j \in Test \ {i} : HasResult(j)' <=> HasResult(j)
  PROVE  Cardinality(Having') = Cardinality(Having) + 1
<1>1. Having' = Having \cup {i} /\ i \notin Having
  BY DEF Having
<1>2. IsFiniteSet(Having)
  BY TestsAreFinite DEF Having
<1>3. QED
  BY <1>1, <1>2, FS_AddElement, Zenon

\* A step that neither gives nor takes a result.
LEMMA SameResults ==
  ASSUME \A j \in Test : HasResult(j)' <=> HasResult(j)
  PROVE  Cardinality(Having') = Cardinality(Having)
<1>1. Having' = Having
  BY DEF Having
<1>2. QED
  BY <1>1

\* Each outcome the Qt window counts gives an open test its result.
LEMMA CountedOnceKept ==
  ASSUME UserWaits, TypeInv, LineInv, RunnerStep, UNCHANGED window
  PROVE  CountedOnce'
<1> SUFFICES ASSUME window = "Qt"
             PROVE  /\ progress' <= Cardinality(Having')
                    /\ (Saying \/ announced)' => \A i \in Test : HasResult(i)'
                    /\ announced' => gui' = "idle"
  BY DEF CountedOnce
<1> DEFINE card == Cardinality(Having)
<1>c. /\ card \in Nat /\ progress \in 0 .. Count /\ progress <= card
      /\ card >= Count => \A i \in Test : HasResult(i)
      /\ Saying \/ announced => \A i \in Test : HasResult(i)
      /\ announced => gui = "idle"
      /\ Count \in Nat /\ item \in [Test -> TestState]
  BY HavingIsFinite, TestsAssumption DEF LineInv, CountedOnce, TypeInv, TypeOK
<1> HIDE DEF card
<1>s. ASSUME UNCHANGED item
      PROVE  /\ \A i \in Test : HasResult(i)' <=> HasResult(i)
             /\ Cardinality(Having') = card
  <2>1. \A i \in Test : HasResult(i)' <=> HasResult(i)
    BY <1>s DEF HasResult
  <2>2. QED
    BY <2>1, SameResults DEF card
<1>1. CASE TakeOutcome \/ RunSetsState \/ RunEnds \/ ReportsEnd(Good)
  <2>1. UNCHANGED <<item, progress>> /\ Saying' = (Saying \/ FALSE \/ (Saying /\ Saying'))
    BY <1>1 DEF TakeOutcome, RunSetsState, RunEnds, ReportsEnd, windowVars, Saying
  <2>2. announced' => announced /\ gui' = gui
    BY <1>1 DEF TakeOutcome, RunSetsState, RunEnds, ReportsEnd, windowVars
  <2>3. QED
    BY <2>1, <2>2, <1>c, <1>s
<1>2. CASE Processes
  <2>1. PICK i \in Test : i = current /\ Open(i)
    BY <1>2 DEF Processes, LineInv, TrueOutcomes, TypeInv
  <2>2. ~announced' /\ ~announced
    BY <1>2, <1>c DEF Processes
  <2>3. CASE ~started
    BY <1>2, <2>2, <2>3, <1>c, <1>s DEF Processes, Saying
  <2>4. CASE started
    <3>1. Processed[i] \in {"Manual", "Success", "Error"}
          /\ \A j \in Test \ {i} : Processed[j] = item[j]
          /\ Processed \in [Test -> TestState]
      BY <2>1, <1>c, ProcessedType DEF Processed
    <3>2. \A j \in Test : item'[j] = Processed[j]
            \/ (Processed[j] \in {"Unknown", "Started"} /\ item'[j] = "Started")
      <4>1. CASE StartsNext(Processed)
        BY <3>1, <4>1 DEF StartsNext
      <4>2. CASE item' = Processed
        BY <4>2
      <4>3. QED
        BY <1>2, <2>4, <4>1, <4>2 DEF Processes
    <3>3. Cardinality(Having') = card + 1
      <4>1. ~HasResult(i) /\ HasResult(i)'
        BY <2>1, <3>1, <3>2 DEF Open, HasResult
      <4>2. \A j \in Test \ {i} : HasResult(j)' <=> HasResult(j)
        BY <3>1, <3>2 DEF HasResult
      <4>3. QED
        BY <4>1, <4>2, OneMoreResult DEF card
    <3>4. progress' = Position /\ Position <= progress + 1 /\ Position \in 0 .. Count
      BY <1>2, <2>4, <1>c DEF Processes, Position
    <3>5. Saying' => Position = Count
      BY <1>2, <2>4 DEF Processes, StartsNext, Saying
    <3>6. Cardinality(Having') >= Count => \A k \in Test : HasResult(k)'
      BY HavingIsFinite
    <3>7. QED
      BY <3>3, <3>4, <3>5, <3>6, <2>2, <1>c
  <2>5. QED
    BY <2>3, <2>4
<1>3. CASE Joined \/ Announce
  <2>1. UNCHANGED <<item, progress>>
    BY <1>3 DEF Joined, Announce
  <2>2. Saying' => Saying
    BY <1>3 DEF Joined, Announce, Saying
  <2>3. announced' => (announced \/ Saying) /\ gui' = "idle"
    BY <1>3, <1>c DEF Joined, Announce, Saying
  <2>4. QED
    BY <2>1, <2>2, <2>3, <1>c, <1>s
<1>4. CASE LoadsTest
  <2>1. PICK i \in Test : i = current /\ Open(i)
    BY <1>4 DEF LoadsTest, LineInv, RunOfAnOpenTest, Starting
  <2>2. ~announced' /\ ~Saying' /\ UNCHANGED progress
    BY <1>4, <1>c DEF LoadsTest, Saying
  <2>3. CASE UNCHANGED item
    BY <2>2, <2>3, <1>c, <1>s
  <2>4. CASE item' = [item EXCEPT ![current] = "Error"]
    <3>1. ~HasResult(i) /\ HasResult(i)'
          /\ \A j \in Test \ {i} : HasResult(j)' <=> HasResult(j)
      BY <1>c, <2>1, <2>4 DEF Open, HasResult
    <3>2. Cardinality(Having') = card + 1
      BY <3>1, OneMoreResult DEF card
    <3>3. QED
      BY <2>2, <3>2, <1>c
  <2>5. QED
    BY <1>4, <2>3, <2>4 DEF LoadsTest
<1>5. CASE Starts
  <2>1. ~announced' /\ UNCHANGED progress /\ gui = "idle"
    BY <1>5, WaitingClick DEF Starts
  <2>2. ~Saying'
    BY <1>5, <2>1 DEF Starts, StartsNext, Saying
  <2>3. \A i \in Test : item'[i] = item[i]
          \/ (item[i] \in {"Unknown", "Started"} /\ item'[i] = "Started")
    BY <1>5, <1>c, SearchKeepsResults DEF Starts
  <2>4. \A i \in Test : HasResult(i)' <=> HasResult(i)
    BY <2>3 DEF HasResult
  <2>5. QED
    BY <2>1, <2>2, <2>4, <1>c, SameResults DEF card
<1>6. CASE Stops \/ Closes
  <2>1. UNCHANGED <<item, progress>> /\ ~Saying' /\ ~announced'
    BY <1>6, WaitingClick DEF Stops, Closes, StopsThen, Saying
  <2>2. QED
    BY <2>1, <1>c, <1>s
<1>7. CASE Resets
  <2>1. progress' = 0 /\ gui = "idle" /\ gui' = gui /\ ~announced'
    BY <1>7, WaitingClick DEF Resets
  <2>2. Cardinality(Having') \in Nat
    BY HavingIsFinite
  <2>3. QED
    BY <2>1, <2>2 DEF Saying
<1>8. QED
  BY <1>1, <1>2, <1>3, <1>4, <1>5, <1>6, <1>7 DEF RunnerStep

------------------------------------------------------------------------------
(* The invariant and what follows from it.                                 *)

\* At first nothing is executed and no test has a result.
LEMMA InitEstablishes == RunnerInit => LineInv
<1> SUFFICES ASSUME RunnerInit PROVE LineInv
  OBVIOUS
<1>1. /\ item = [i \in Test |-> "Unknown"] /\ run = "none" /\ gui = "idle"
      /\ progress = 0 /\ announced = FALSE /\ ~Pending
  BY DEF RunnerInit, Init, Pending
<1>2. OneAtATime /\ RunOfAnOpenTest /\ TrueOutcomes
  BY <1>1 DEF OneAtATime, RunOfAnOpenTest, TrueOutcomes, Idling, Starting, Saying
<1>3. ShownAsRun(Good)
  BY <1>1 DEF ShownAsRun
<1>4. CountedOnce
  BY <1>1, HavingIsFinite DEF CountedOnce, Saying
<1>5. QED
  BY <1>2, <1>3, <1>4 DEF LineInv

\* The invariant holds in every state a waiting user can bring about.
LEMMA Invariance == ASSUME UserWaits PROVE FairSpec => []LineInv
<1>1. TypeInv /\ LineInv /\ [Next]_<<vars, window>> => LineInv'
  <2> SUFFICES ASSUME TypeInv, LineInv, [Next]_<<vars, window>> PROVE LineInv'
    OBVIOUS
  <2>1. UNCHANGED window /\ (RunnerStep \/ UNCHANGED vars)
    BY StepsOfARunner
  <2>2. CASE RunnerStep
    BY <2>1, <2>2, OneAtATimeKept, RunOfAnOpenTestKept, TrueOutcomesKept, ShownTrueKept,
       CountedOnceKept DEF LineInv
  <2>3. CASE UNCHANGED vars
    <3>1. UNCHANGED <<item, progress, started, opened, gui, after, current, passed,
                      announced, posts, user, run, running, outcome>>
      BY <2>3 DEF vars, windowVars, runVars
    <3>2. Pending' = Pending /\ Outcome' = Outcome /\ Tail(posts') = Tail(posts)
      BY <3>1, OutcomeStands
    <3>3. Good' = Good
      BY <2>1 DEF Good, VCL!Good, Qt!Good
    <3>4. OneAtATime' /\ RunOfAnOpenTest'
      BY <3>1, <3>2 DEF LineInv, OneAtATime, RunOfAnOpenTest, Idling, Starting, Saying, Open
    <3>5. TrueOutcomes'
      BY <2>1, <3>1, <3>2, <3>3 DEF LineInv, TrueOutcomes, Open, Truthful
    <3>6. ShownAsRun(Good)'
      BY <3>1, <3>3 DEF LineInv, ShownAsRun
    <3>7. CountedOnce'
      <4>1. Having' = Having /\ \A i \in Test : HasResult(i)' <=> HasResult(i)
        BY <3>1 DEF Having, HasResult
      <4>2. QED
        BY <2>1, <3>1, <4>1 DEF LineInv, CountedOnce, Saying
    <3>8. QED
      BY <3>4, <3>5, <3>6, <3>7 DEF LineInv
  <2>4. QED
    BY <2>1, <2>2, <2>3
<1>2. QED
  BY InitEstablishes, TypeInvariance, <1>1, PTL DEF FairSpec

\* Whatever the user who waits stops, resets and starts again, a result in the
\* list is what the last run of its test came to: ReportsEnd, processing.
THEOREM ResultsBelongToTheirTests ==
  ASSUME UserWaits PROVE FairSpec => []ResultsAreTheTestsOwn
<1>1. TypeInv /\ LineInv => ResultsAreTheTestsOwn
  BY DEF TypeInv, LineInv, ResultsAreTheTestsOwn, Good
<1>2. QED
  BY TypeInvariance, Invariance, <1>1, PTL

\* The Qt window, which counts outcomes and looks at no list, says that all tests
\* were completed only when each one has a result.
THEOREM CompletedIsComplete ==
  ASSUME UserWaits PROVE FairSpec => []CompletedMeansAll
<1>1. LineInv => CompletedMeansAll
  BY DEF LineInv, CountedOnce, CompletedMeansAll, AllWereCompleted
<1>2. QED
  BY Invariance, <1>1, PTL

------------------------------------------------------------------------------
(* The chain of outcomes, whenever the user clicks.                        *)

\* The window joins to go on idle, or to say that it is done, only when it has
\* stopped; and a run will report to the window unless this is closed.
Closing == gui = "closed" \/ (gui = "join" /\ after = "closed")
ChainInv ==
  /\ gui = "announce" \/ (gui = "join" /\ after \in {"idle", "announce"}) => ~started
  /\ Executes \/ gui = "load" \/ (gui = "join" /\ after = "load") =>
       user # NoTest \/ Closing
  /\ gui = "load" \/ (gui = "join" /\ after = "load") => current \in Test

LEMMA ChainKept ==
  ASSUME TypeInv, ChainInv, RunnerStep \/ UNCHANGED vars
  PROVE  ChainInv'
<1> USE DEF ChainInv, Closing, Executes, NoTest
<1>1. CASE TakeOutcome
  BY <1>1 DEF TakeOutcome, runVars
<1>0. NoTest \notin Test
  BY TestsAssumption DEF Test
<1>2. ASSUME NEW shown, StartsNext(shown), UNCHANGED runVars, gui \in {"idle", "process"}
      PROVE  ChainInv'
  <2>1. \/ gui' = "idle" /\ UNCHANGED <<after, current, user>>
        \/ /\ user' \in Test /\ current' \in Test
           /\ gui' = "process" \/ (gui' = "join" /\ after' = "load")
    BY <1>2 DEF StartsNext
  <2>2. QED
    BY <1>0, <1>2, <2>1 DEF runVars
<1>3. ASSUME NEW next \in {"idle", "announce"}, StopsThen(next), gui \in {"idle", "process"}
      PROVE  ChainInv'
  BY <1>3 DEF StopsThen, Cancel
<1>4. CASE Processes
  BY <1>4, <1>2, <1>3 DEF Processes, runVars
<1>5. CASE Joined
  BY <1>5 DEF Joined, TypeInv, TypeOK
<1>6. CASE LoadsTest
  BY <1>6 DEF LoadsTest, Load, Refuse
<1>7. CASE Announce
  BY <1>7 DEF Announce, runVars
<1>8. CASE RunSetsState \/ RunEnds \/ ReportsEnd(Good)
  BY <1>8 DEF RunSetsState, RunEnds, ReportsEnd, windowVars
<1>9. CASE Starts
  <2>1. CASE StartsNext(item) /\ opened'
    BY <1>9, <2>1, <1>2 DEF Starts, Click
  <2>2. CASE UNCHANGED <<item, opened, gui, after, current, passed, user>>
    BY <1>9, <2>2 DEF Starts, Click, runVars
  <2>3. QED
    BY <1>9, <2>1, <2>2 DEF Starts
<1>10. CASE Stops
  BY <1>10, <1>3 DEF Stops, Click
<1>11. CASE Resets
  BY <1>11 DEF Resets, runVars
<1>12. CASE Closes
  BY <1>12 DEF Closes, Cancel
<1>13. CASE UNCHANGED vars
  BY <1>13 DEF vars, windowVars, runVars
<1>14. QED
  BY <1>1, <1>4, <1>5, <1>6, <1>7, <1>8, <1>9, <1>10, <1>11, <1>12, <1>13 DEF RunnerStep

LEMMA ChainInvariance == FairSpec => []ChainInv
<1>1. RunnerInit => ChainInv
  BY DEF RunnerInit, Init, ChainInv, Executes
<1>2. TypeInv /\ ChainInv /\ [Next]_<<vars, window>> => ChainInv'
  BY StepsOfARunner, ChainKept
<1>3. QED
  BY TypeInvariance, <1>1, <1>2, PTL DEF FairSpec

\* Each step of a runner passes the last outcome on.
LEMMA EachStepHandsOn ==
  ASSUME TypeInv, ChainInv, RunnerStep \/ UNCHANGED vars
  PROVE  HandedOn
<1> SUFFICES ASSUME UnderWay, ~UnderWay', started', gui' # "closed"
             PROVE  \/ \A i \in Test : HasResult(i)'
                    \/ gui = "load" /\ outcome'[current] = "refused"
  BY DEF HandedOn
<1> USE DEF UnderWay, Executes
<1>1. CASE TakeOutcome
  BY <1>1 DEF TakeOutcome
<1>2. ASSUME NEW shown \in [Test -> TestState], StartsNext(shown)
      PROVE  \A i \in Test : HasResult(i)'
  <2>1. item' = shown /\ \A i \in Test : shown[i] \notin {"Unknown", "Started"}
    BY <1>2 DEF StartsNext
  <2>2. QED
    BY <2>1 DEF HasResult, TestState
<1>3. CASE Processes
  BY <1>3, <1>2, ProcessedType DEF Processes, StopsThen
<1>4. CASE Joined
  BY <1>4 DEF Joined, ChainInv
<1>5. CASE LoadsTest
  <2>1. Refuse
    BY <1>5 DEF LoadsTest, Load
  <2>2. current \in Test
    BY <1>5 DEF LoadsTest, ChainInv
  <2>3. QED
    BY <1>5, <2>1, <2>2 DEF Refuse, LoadsTest, TypeInv, TypeOK
<1>6. CASE Announce
  BY <1>6 DEF Announce, ChainInv
<1>7. CASE RunSetsState \/ RunEnds
  BY <1>7 DEF RunSetsState, RunEnds
<1>8. CASE ReportsEnd(Good)
  BY <1>8 DEF ReportsEnd, ChainInv, Closing, windowVars, TypeInv, TypeOK
<1>9. CASE Starts
  BY <1>9, <1>2 DEF Starts, TypeInv, TypeOK, runVars
<1>10. CASE Stops
  BY <1>10 DEF Stops, StopsThen
<1>11. CASE Resets
  BY <1>11 DEF Resets, runVars
<1>12. CASE Closes
  BY <1>12 DEF Closes
<1>13. CASE UNCHANGED vars
  BY <1>13 DEF vars, windowVars, runVars
<1>14. QED
  BY <1>1, <1>3, <1>4, <1>5, <1>6, <1>7, <1>8, <1>9, <1>10, <1>11, <1>12, <1>13 DEF RunnerStep

\* However many tests there are and whatever the user clicks meanwhile, the last
\* outcome under way is dropped by neither window while a test is open and the
\* tests are not stopped: interpreterStartNext after every one.
THEOREM ChainIsNotDropped == FairSpec => OutcomesAreHandedOn
<1>1. TypeInv /\ ChainInv /\ [Next]_<<vars, window>> => [HandedOn]_<<vars, window>>
  BY StepsOfARunner, EachStepHandsOn
<1>2. QED
  BY TypeInvariance, ChainInvariance, <1>1, PTL DEF FairSpec, OutcomesAreHandedOn
==============================================================================
