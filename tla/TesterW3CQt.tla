---------------------------- MODULE TesterW3CQt -----------------------------
(***************************************************************************)
(* The W3C test runner for Qt, mainwindow.cpp.  invokeMethod posts a call  *)
(* to the window's thread when it is made on another one; the handle       *)
(* starts asynchronously, so that all are.  Special tests are run like the *)
(* others, and the progress bar counts outcomes instead of positions.      *)
(***************************************************************************)
EXTENDS W3CTests

\* States of a chart that count as passed.
Good == {"pass"}

OnInterpreterStopped == ReportsEnd(Good)

\* MainWindow::interpreterStartNext up to the join of usclib_StartInterpreter.
interpreterStartNext(shown) ==
  LET open == {i \in Test : shown[i] \in {"Unknown", "Started"}}
      next == CHOOSE i \in open : \A j \in open : i <= j
  IN  IF open = {}
      THEN item' = shown /\ gui' = "idle" /\ UNCHANGED <<after, current, passed, user>>
      ELSE /\ item' = [shown EXCEPT ![next] = "Started"]
           /\ user' = next /\ current' = next
           /\ gui' = "join" /\ after' = "load"
           /\ UNCHANGED passed

\* usclib_StartInterpreter after its join.
StartInterpreter ==
  /\ gui = "load"
  /\ gui' = "idle"
  /\ \/ Load /\ UNCHANGED item
     \/ Refuse /\ item' = [item EXCEPT ![current] = "Error"]
  /\ UNCHANGED <<progress, started, opened, after, current, passed, announced,
                 clicks, posts, user>>

\* usclib_OpenInterpreter, at the first click, may fail: Stop is enabled then.
on_btnStart_clicked ==
  /\ Click /\ ~started
  /\ started' = TRUE
  /\ \/ opened' = TRUE /\ interpreterStartNext(item)
     \/ ~opened /\ UNCHANGED <<item, opened, gui, after, current, passed, user>>
  /\ UNCHANGED <<progress, posts, runVars>>

\* usclib_StopInterpreter on the window's thread, which then goes on at next.
Stop(next) ==
  /\ started' = FALSE
  /\ IF opened THEN Cancel /\ gui' = "join" /\ after' = next
               ELSE gui' = next /\ UNCHANGED <<run, after>>
  /\ UNCHANGED <<opened, current, passed, posts, user, running, outcome>>

on_btnStop_clicked ==
  /\ Click /\ started
  /\ Stop("idle")
  /\ UNCHANGED <<item, progress>>

on_btnReset_clicked ==
  /\ Click
  /\ item' = [i \in Test |-> "Unknown"]
  /\ progress' = 0
  /\ UNCHANGED <<started, opened, gui, after, current, passed, posts, user, runVars>>

\* setValue() ignores a value beyond the maximum.
Advanced == IF progress < Count THEN progress + 1 ELSE progress

\* Broken variant: the outcome of a cancelled run is counted.
InterpreterStoppedCounts ==
  /\ gui = "process"
  /\ IF ~started
     THEN gui' = "idle" /\ progress' = Advanced /\ UNCHANGED <<item, started, opened, after,
                                       current, passed, posts, user, runVars>>
     ELSE LET shown == [item EXCEPT ![current] =
                          CASE current \in Special -> "Manual"
                            [] current \notin Special /\ passed -> "Success"
                            [] OTHER -> "Error"]
          IN  /\ progress' = Advanced
              /\ IF Advanced = Count
                 THEN item' = shown /\ Stop("announce")
                 ELSE /\ interpreterStartNext(shown)
                      /\ UNCHANGED <<started, opened, posts, runVars>>
  /\ UNCHANGED <<announced, clicks>>

\* Handled when Stop is disabled, the outcome is of a cancelled run.  When all
\* outcomes are counted Stop is clicked.
InterpreterStopped ==
  /\ gui = "process"
  /\ IF ~started
     THEN gui' = "idle" /\ UNCHANGED <<item, progress, started, opened, after,
                                       current, passed, posts, user, runVars>>
     ELSE LET shown == [item EXCEPT ![current] =
                          CASE current \in Special -> "Manual"
                            [] current \notin Special /\ passed -> "Success"
                            [] OTHER -> "Error"]
          IN  /\ progress' = Advanced
              /\ IF Advanced = Count
                 THEN item' = shown /\ Stop("announce")
                 ELSE /\ interpreterStartNext(shown)
                      /\ UNCHANGED <<started, opened, posts, runVars>>
  /\ UNCHANGED <<announced, clicks>>

\* The destructor closes the handle: the callback is cleared, the run joined.
CloseWindow ==
  /\ gui = "idle"
  /\ IF opened THEN Cancel /\ user' = NoTest /\ gui' = "join" /\ after' = "closed"
               ELSE gui' = "closed" /\ UNCHANGED <<run, user, after>>
  /\ announced' = FALSE
  /\ UNCHANGED <<item, progress, started, opened, current, passed, clicks, posts,
                 running, outcome>>

WindowNext == TakeOutcome \/ InterpreterStopped \/ Joined \/ StartInterpreter \/ Announce
RunNext == RunSetsState \/ RunEnds \/ OnInterpreterStopped
UserNext == on_btnStart_clicked \/ on_btnStop_clicked \/ on_btnReset_clicked \/ CloseWindow
=============================================================================
