----------------------------- MODULE MCScxmlBase -----------------------------
(* Instances of ScxmlBase for TLC; the constants are given in the .cfg's. *)
EXTENDS ScxmlBase
==============================================================================
