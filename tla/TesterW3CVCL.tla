---------------------------- MODULE TesterW3CVCL ----------------------------
(***************************************************************************)
(* The W3C test runner for C++ Builder, UnitTesterW3C.cpp.  TIdNotify runs *)
(* a notification at once when it is made on the window's thread; here all *)
(* are made on an interpreter thread, since the handle starts              *)
(* asynchronously.  Special tests are not run but processed at once.       *)
(***************************************************************************)
EXTENDS W3CTests

\* States of a chart that count as passed.
Good == {"pass", "final"}

OnInterpreterStopped == ReportsEnd(Good)

\* Broken variant: a test that was cancelled is not run again.
InterpreterStartNextUnknownOnly(shown) ==
  LET open == {i \in Test : shown[i] = "Unknown"}
      next == CHOOSE i \in open : \A j \in open : i <= j
  IN  IF open = {}
      THEN item' = shown /\ gui' = "idle" /\ UNCHANGED <<after, current, passed, user>>
      ELSE /\ item' = [shown EXCEPT ![next] = "Started"]
           /\ user' = next /\ current' = next
           /\ passed' = FALSE
           /\ IF next \in Special THEN gui' = "process" /\ UNCHANGED after
                                  ELSE gui' = "join" /\ after' = "load"

\* TFormW3C::InterpreterStartNext, with the states shown that the caller leaves
\* behind, up to the join of usclib_StartInterpreter.
InterpreterStartNext(shown) ==
  LET open == {i \in Test : shown[i] \in {"Unknown", "Started"}}
      next == CHOOSE i \in open : \A j \in open : i <= j
  IN  IF open = {}
      THEN item' = shown /\ gui' = "idle" /\ UNCHANGED <<after, current, passed, user>>
      ELSE /\ item' = [shown EXCEPT ![next] = "Started"]
           /\ user' = next /\ current' = next
           /\ passed' = FALSE
           /\ IF next \in Special THEN gui' = "process" /\ UNCHANGED after
                                  ELSE gui' = "join" /\ after' = "load"

\* usclib_StartInterpreter after its join.
StartInterpreter ==
  /\ gui = "load"
  /\ gui' = "idle"
  /\ \/ Load /\ UNCHANGED item
     \/ Refuse /\ item' = [item EXCEPT ![current] = "Error"]
  /\ UNCHANGED <<progress, started, opened, after, current, passed, announced,
                 clicks, posts, user>>

\* usclib_OpenInterpreter, at the first click, may fail: Stop is enabled then.
BtnStartClick ==
  /\ Click /\ ~started
  /\ started' = TRUE
  /\ \/ opened' = TRUE /\ InterpreterStartNext(item)
     \/ ~opened /\ UNCHANGED <<item, opened, gui, after, current, passed, user>>
  /\ UNCHANGED <<progress, posts, runVars>>

\* usclib_StopInterpreter on the window's thread, which then goes on at next.
Stop(next) ==
  /\ started' = FALSE
  /\ IF opened THEN Cancel /\ gui' = "join" /\ after' = next
               ELSE gui' = next /\ UNCHANGED <<run, after>>
  /\ UNCHANGED <<opened, current, passed, posts, user, running, outcome>>

BtnStopClick ==
  /\ Click /\ started
  /\ Stop("idle")
  /\ UNCHANGED <<item, progress>>

BtnResetClick ==
  /\ Click
  /\ item' = [i \in Test |-> "Unknown"]
  /\ progress' = 0
  /\ UNCHANGED <<started, opened, gui, after, current, passed, posts, user, runVars>>

\* Broken variant: the outcome of a cancelled run is not told apart.
ProcessedNodeAlways ==
  /\ gui = "process"
  /\ progress' = current
  /\ LET shown == [item EXCEPT ![current] = IF passed THEN "Success" ELSE "Error"]
     IN  InterpreterStartNext(shown)
  /\ UNCHANGED <<started, opened, announced, clicks, posts, runVars>>

\* Processed when Stop is disabled, the outcome is of a cancelled run.  The
\* progress bar takes the node's index; at its end Stop is clicked.
ProcessedNode ==
  /\ gui = "process"
  /\ IF ~started
     THEN gui' = "idle" /\ UNCHANGED <<item, progress, started, opened, after,
                                       current, passed, posts, user, runVars>>
     ELSE LET shown == [item EXCEPT ![current] =
                          CASE current \in Special -> "Manual"
                            [] current \notin Special /\ passed -> "Success"
                            [] OTHER -> "Error"]
          IN  /\ progress' = current
              /\ IF current = Count
                 THEN item' = shown /\ Stop("announce")
                 ELSE /\ InterpreterStartNext(shown)
                      /\ UNCHANGED <<started, opened, posts, runVars>>
  /\ UNCHANGED <<announced, clicks>>

\* The destructor closes the handle: the callback is cleared, the run joined.
CloseForm ==
  /\ gui = "idle"
  /\ IF opened THEN Cancel /\ user' = NoTest /\ gui' = "join" /\ after' = "closed"
               ELSE gui' = "closed" /\ UNCHANGED <<run, user, after>>
  /\ announced' = FALSE
  /\ UNCHANGED <<item, progress, started, opened, current, passed, clicks, posts,
                 running, outcome>>

WindowNext == TakeOutcome \/ ProcessedNode \/ Joined \/ StartInterpreter \/ Announce
RunNext == RunSetsState \/ RunEnds \/ OnInterpreterStopped
UserNext == BtnStartClick \/ BtnStopClick \/ BtnResetClick \/ CloseForm
=============================================================================
