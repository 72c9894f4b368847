------------------------------ MODULE DataStore ------------------------------
(***************************************************************************)
(* The global data of an interpreter: ScxmlBase::setGlobal and getGlobal   *)
(* on _global_data_storage.  A global is a tree of uscxml::Data nodes, each *)
(* with an atom and with children under keys or indices; a path names a    *)
(* node by a dotted list of elements.  An element without any other        *)
(* character than digits is an index: std::stoi makes the same index of    *)
(* several spellings, and throws for one that is too large or empty.       *)
(*                                                                         *)
(* Both operations hold _mutex while they are in the tree, so each is one  *)
(* step.  A node's address is its global's name followed by the children   *)
(* that lead to it.                                                        *)
(***************************************************************************)
EXTENDS Naturals, Sequences, SequencesExt

CONSTANTS
  Name,       \* names of globals
  Child,      \* keys and indices of nodes
  Elem,       \* spellings of path elements
  ChildOf,    \* the child an element names, or Unparsable
  Unparsable,
  Value,      \* what is written: trees, functions from relative addresses to atoms
  NoAtom,     \* the atom of an empty Data
  MaxDepth,   \* bound: the elements of a path
  MaxWrites   \* bound: the completed calls of setGlobal

ASSUME StoreAssumption ==
  /\ ChildOf \in [Elem -> Child \cup {Unparsable}] /\ Unparsable \notin Child
  /\ \A v \in Value : /\ <<>> \in DOMAIN v /\ DOMAIN v \subseteq Seq(Child)
                     /\ \A r \in DOMAIN v : Prefixes(r) \subseteq DOMAIN v
  /\ MaxDepth \in Nat /\ MaxWrites \in Nat

VARIABLES
  store,   \* _global_data_storage: the atom at each address where a node is
  result,  \* how the last setGlobal ended
  writes   \* history: the completed calls of setGlobal, [at, value]

vars == <<store, result, writes>>

Path == UNION {[1 .. k -> Elem] : k \in 0 .. MaxDepth}
Parsable(path) == \A i \in DOMAIN path : ChildOf[path[i]] # Unparsable
Address(name, path) == <<name>> \o [i \in DOMAIN path |-> ChildOf[path[i]]]

\* The part of a path before the element that std::stoi cannot convert.
ParsedPart(path) ==
  CHOOSE p \in Prefixes(path) :
    /\ Parsable(p)
    /\ p = path \/ ChildOf[path[Len(p) + 1]] = Unparsable

\* The types; every node hangs on a node, up to the one of its name.
TypeOK ==
  /\ \A a \in DOMAIN store : /\ a # <<>> /\ a[1] \in Name
                             /\ Prefixes(a) \ {<<>>} \subseteq DOMAIN store
  /\ result \in {"none", "stored", "thrown"}
  /\ \A i \in DOMAIN writes : writes[i].value \in Value

Init == store = <<>> /\ result = "none" /\ writes = <<>>

------------------------------------------------------------------------------
(* The walk and the assignment of setGlobal.                               *)

\* Broken variant: the nodes on the way are not inserted.
ReachesLast(a) ==
  [b \in DOMAIN store \cup {a} |-> IF b \in DOMAIN store THEN store[b] ELSE NoAtom]

\* The nodes on the way to a, inserted where there are none.
Reaches(a) ==
  [b \in DOMAIN store \cup (Prefixes(a) \ {<<>>}) |->
     IF b \in DOMAIN store THEN store[b] ELSE NoAtom]

\* Broken variant: the new data is merged into the node.
AssignMerges(tree, a, value) ==
  LET new == {a \o r : r \in DOMAIN value}
  IN  [b \in DOMAIN tree \cup new |->
         IF b \in new THEN value[SubSeq(b, Len(a) + 1, Len(b))] ELSE tree[b]]

\* *dataptr = data: the whole subtree at a is replaced.
Assign(tree, a, value) ==
  LET new == {a \o r : r \in DOMAIN value}
  IN  [b \in {b \in DOMAIN tree : ~IsPrefix(a, b)} \cup new |->
         IF b \in new THEN value[SubSeq(b, Len(a) + 1, Len(b))] ELSE tree[b]]

setGlobal(name, path, value) ==
  LET a == Address(name, path)
  IN  IF Parsable(path)
      THEN /\ store' = Assign(Reaches(a), a, value)
           /\ result' = "stored"
           /\ writes' = Append(writes, [at |-> a, value |-> value])
      ELSE \* the nodes inserted before the exception stay
           /\ store' = Reaches(Address(name, ParsedPart(path)))
           /\ result' = "thrown"
           /\ UNCHANGED writes

\* What getGlobal answers: the subtree at the path, an empty Data where it
\* does not lead to a node, or the exception of the conversion.
getGlobal(name, path) ==
  LET a == Address(name, ParsedPart(path))
  IN  CASE a \notin DOMAIN store -> [r \in {<<>>} |-> NoAtom]
        [] a \in DOMAIN store /\ Parsable(path) ->
             [r \in {SubSeq(b, Len(a) + 1, Len(b)) :
                       b \in {b \in DOMAIN store : IsPrefix(a, b)}} |-> store[a \o r]]
        [] OTHER -> [r \in {} |-> NoAtom]

Next ==
  \E name \in Name, path \in Path, value \in Value :
    /\ Parsable(path) => Len(writes) < MaxWrites
    /\ setGlobal(name, path, value)

Spec == Init /\ [][Next]_vars

------------------------------------------------------------------------------
(* Properties                                                              *)

\* The atom that the writes alone put at an address: the last one at it or
\* above it decides, with an atom or by leaving no node there.
Written(a) ==
  LET Above == {i \in DOMAIN writes : IsPrefix(writes[i].at, a)}
      last  == CHOOSE i \in Above : \A j \in Above : j <= i
      rest  == SubSeq(a, Len(writes[last].at) + 1, Len(a))
  IN  IF Above # {} /\ rest \in DOMAIN writes[last].value
      THEN writes[last].value[rest] ELSE NoAtom

\* getGlobal answers with what was last written at, above or below the path,
\* under whatever spelling.  A setGlobal that throws halfway changes no atom:
\* what it leaves are nodes without one.
AnswersFollowWrites ==
  \A name \in Name, path \in Path : Parsable(path) =>
    LET a      == Address(name, path)
        answer == getGlobal(name, path)
    IN  /\ \A r \in DOMAIN answer : answer[r] = Written(a \o r)
        /\ \A i \in DOMAIN writes : \A r \in DOMAIN writes[i].value :
             LET b == writes[i].at \o r
             IN  IsPrefix(a, b) /\ Written(b) # NoAtom =>
                   SubSeq(b, Len(a) + 1, Len(b)) \in DOMAIN answer
==============================================================================
