-------------------------- MODULE MCInterpreterPause --------------------------
(* An instance of InterpreterPause for TLC: events, and invoked charts, are   *)
(* interchangeable.                                                           *)
EXTENDS InterpreterPause, TLC

Symmetry == Permutations(Event) \cup Permutations(Nested)
==============================================================================
