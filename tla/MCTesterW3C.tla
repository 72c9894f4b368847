---------------------------- MODULE MCTesterW3C -----------------------------
(* An instance of TesterW3C for TLC; the other constants are in the .cfg.   *)
EXTENDS TesterW3C

MCSpecial == {2}
=============================================================================
