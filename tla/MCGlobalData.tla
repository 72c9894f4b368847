---------------------------- MODULE MCGlobalData ----------------------------
(* Instances of GlobalData for TLC; the constants are given in the .cfg. *)
EXTENDS GlobalData
==============================================================================
