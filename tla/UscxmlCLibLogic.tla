--------------------------- MODULE UscxmlCLibLogic ---------------------------
(***************************************************************************)
(* The contract of one interpreter handle, as the repository documents it  *)
(* in src/Examples/StateCharts/UscxmlCLibLogic.scxml: which library call   *)
(* is meant in which phase and where it leads.                             *)
(*                                                                         *)
(* The chart's initial state RegisterCallbacks leaves for Stopped by an    *)
(* eventless transition, so both are one phase here.  A transition of a    *)
(* compound state (Started, Opened) is a transition of each of its leaves. *)
(***************************************************************************)

VARIABLE phase

Started == phase \in {"Active", "Paused"}
Opened  == Started \/ phase = "Stopped"

TypeOK == phase \in {"Closed", "Stopped", "Active", "Paused"}

Init == phase = "Closed"

OpenInterpreter   == phase = "Closed"  /\ phase' = "Stopped"
CloseInterpreter  == Opened            /\ phase' = "Closed"
StartInterpreter  == phase = "Stopped" /\ phase' = "Active"
PauseInterpreter  == phase = "Active"  /\ phase' = "Paused"
ResumeInterpreter == phase = "Paused"  /\ phase' = "Active"

\* usclib_StopInterpreter, or the chart reaching USCXML_FINISHED.
StopOrFinish == Started /\ phase' = "Stopped"

Next ==
  \/ OpenInterpreter \/ CloseInterpreter
  \/ StartInterpreter \/ StopOrFinish
  \/ PauseInterpreter \/ ResumeInterpreter

Spec == Init /\ [][Next]_phase
==============================================================================
