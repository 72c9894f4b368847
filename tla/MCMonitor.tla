----------------------------- MODULE MCMonitor -----------------------------
(* Instances of Monitor for TLC; the other constants are given in the .cfg. *)
EXTENDS Monitor, TLC
EditorTypes == {"smttBeforeEnter", "smttBeforeExit", "smttBeforeTakingTransition",
                "smttBeforeInvoke", "smttBeforeUnInvoke"}
==============================================================================
