----------------------------- MODULE MCDataStore -----------------------------
(* An instance of DataStore for TLC: a key, an index with two spellings, and *)
(* a number that does not fit into an int.                                   *)
EXTENDS DataStore, TLC

MCElem == {"key", "7", "07", "99999999999"}
MCChildOf == ("key" :> "key") @@ ("7" :> "[7]") @@ ("07" :> "[7]")
             @@ ("99999999999" :> Unparsable)

\* An atom, another atom, and a JSON object with one member.
MCValue == {(<<>> :> "1"), (<<>> :> "2"), (<<>> :> NoAtom) @@ (<<"key">> :> "3")}
==============================================================================
