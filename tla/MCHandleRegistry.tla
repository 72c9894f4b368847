-------------------------- MODULE MCHandleRegistry --------------------------
(* An instance of HandleRegistry for TLC; the other constants are in the .cfg. *)
EXTENDS HandleRegistry
OneOfEachKind == {"usclib_StartInterpreter", "usclib_TriggerIntEvent"}
==============================================================================
