--------------------------- MODULE DataStoreProofs ---------------------------
(***************************************************************************)
(* Proofs about DataStore, for any names, spellings of path elements,      *)
(* values and any number of writes.  The argument: the atom that the tree  *)
(* has at an address, where a node that is missing has none, changes with  *)
(* each write exactly as what the writes alone say of that address, and a  *)
(* write that throws halfway changes neither.                              *)
(***************************************************************************)
EXTENDS DataStore, SequenceTheorems, WellFoundedInduction, TLAPS

(* Prefixes of sequences, and the rest of a sequence after one.            *)

Rest(a, b) == SubSeq(b, Len(a) + 1, Len(b))

\* A prefix, element by element.
LEMMA PrefixElements ==
  ASSUME NEW S, NEW a \in Seq(S), NEW b \in Seq(S)
  PROVE  IsPrefix(a, b) <=> Len(a) <= Len(b) /\ \A i \in 1 .. Len(a) : a[i] = b[i]
PROOF
  <1>1. SubSeq(a, 1, Len(a)) = a /\ Len(a) \in Nat /\ Len(b) \in Nat
    BY SubSeqFull, LenProperties
  <1>2. ASSUME Len(a) <= Len(b)
        PROVE  SubSeq(b, 1, Len(a)) = a <=> \A i \in 1 .. Len(a) : a[i] = b[i]
    <2>1. \A i \in 1 .. Len(a) : b[i] \in S
      BY <1>1, <1>2, ElementOfSeq
    <2>2. /\ SubSeq(b, 1, Len(a)) \in Seq(S) /\ Len(SubSeq(b, 1, Len(a))) = Len(a)
          /\ \A i \in 1 .. Len(a) : SubSeq(b, 1, Len(a))[i] = b[i]
      BY <1>1, <2>1, SubSeqProperties
    <2> QED BY <2>2, SeqEqual
  <1> QED BY <1>1, <1>2 DEF IsPrefix

\* Prefixes are the sequences that IsPrefix says.
LEMMA PrefixSet ==
  ASSUME NEW S, NEW b \in Seq(S)
  PROVE  /\ Prefixes(b) \subseteq Seq(S)
         /\ \A a \in Seq(S) : a \in Prefixes(b) <=> IsPrefix(a, b)
PROOF
  <1>1. Len(b) \in Nat
    BY LenProperties
  <1>2. ASSUME NEW l \in 0 .. Len(b)
        PROVE  /\ SubSeq(b, 1, l) \in Seq(S) /\ Len(SubSeq(b, 1, l)) = l
               /\ \A i \in 1 .. l : SubSeq(b, 1, l)[i] = b[i]
    <2>1. \A i \in 1 .. l : b[i] \in S
      BY <1>1, ElementOfSeq
    <2> QED BY <1>1, <2>1, SubSeqProperties
  <1>3. Prefixes(b) \subseteq Seq(S)
    BY <1>2 DEF Prefixes
  <1>4. ASSUME NEW a \in Seq(S)
        PROVE  a \in Prefixes(b) <=> IsPrefix(a, b)
    <2>1. ASSUME a \in Prefixes(b) PROVE IsPrefix(a, b)
      <3>1. PICK l \in 0 .. Len(b) : a = SubSeq(b, 1, l)
        BY <2>1 DEF Prefixes
      <3>2. Len(a) = l /\ \A i \in 1 .. l : a[i] = b[i]
        BY <1>2, <3>1
      <3> QED BY <1>1, <3>2, PrefixElements
    <2>2. ASSUME IsPrefix(a, b) PROVE a \in Prefixes(b)
      <3>1. Len(a) \in 0 .. Len(b) /\ a = SubSeq(b, 1, Len(a))
        BY <1>1, <2>2, SubSeqFull, LenProperties DEF IsPrefix
      <3> QED BY <3>1 DEF Prefixes
    <2> QED BY <2>1, <2>2
  <1> QED BY <1>3, <1>4

LEMMA PrefixOrder ==
  ASSUME NEW S, NEW a \in Seq(S), NEW b \in Seq(S)
  PROVE  /\ IsPrefix(a, a) /\ IsPrefix(<<>>, a)
         /\ IsPrefix(a, b) /\ IsPrefix(b, a) => a = b
         /\ \A c \in Seq(S) : IsPrefix(a, b) /\ IsPrefix(b, c) => IsPrefix(a, c)
         /\ \A c \in Seq(S) : IsPrefix(a, c) /\ IsPrefix(b, c) => IsPrefix(a, b) \/ IsPrefix(b, a)
PROOF
  <1>1. Len(a) \in Nat /\ Len(b) \in Nat /\ \A c \in Seq(S) : Len(c) \in Nat
    BY LenProperties
  <1>2. IsPrefix(a, a) /\ IsPrefix(<<>>, a)
    <2>1. <<>> \in Seq(S) /\ Len(<<>>) = 0
      BY EmptySeq
    <2>2. 0 <= Len(a) /\ \A i \in 1 .. 0 : <<>>[i] = a[i]
      BY <1>1
    <2>3. IsPrefix(<<>>, a)
      BY <2>1, <2>2, PrefixElements
    <2>4. IsPrefix(a, a)
      BY <1>1 DEF IsPrefix
    <2> QED BY <2>3, <2>4
  <1>3. IsPrefix(a, b) /\ IsPrefix(b, a) => a = b
    BY <1>1, PrefixElements, SeqEqual
  <1>4. ASSUME NEW c \in Seq(S), IsPrefix(a, b), IsPrefix(b, c) PROVE IsPrefix(a, c)
    BY <1>1, <1>4, PrefixElements
  <1>5. ASSUME NEW c \in Seq(S), IsPrefix(a, c), IsPrefix(b, c)
        PROVE  IsPrefix(a, b) \/ IsPrefix(b, a)
    BY <1>1, <1>5, PrefixElements
  <1> QED BY <1>2, <1>3, <1>4, <1>5

\* What follows a prefix, put back behind it, gives the whole.
LEMMA PasteRest ==
  ASSUME NEW S, NEW a \in Seq(S), NEW b \in Seq(S), IsPrefix(a, b)
  PROVE  Rest(a, b) \in Seq(S) /\ a \o Rest(a, b) = b
PROOF
  <1>1. /\ Len(a) \in Nat /\ Len(b) \in Nat /\ Len(a) <= Len(b)
        /\ \A i \in 1 .. Len(a) : a[i] = b[i]
    BY PrefixElements, LenProperties
  <1>2. \A i \in Len(a) + 1 .. Len(b) : b[i] \in S
    BY <1>1, ElementOfSeq
  <1>3. /\ Rest(a, b) \in Seq(S) /\ Len(Rest(a, b)) = Len(b) - Len(a)
        /\ \A i \in 1 .. Len(b) - Len(a) : Rest(a, b)[i] = b[Len(a) + i]
    BY <1>1, <1>2, SubSeqProperties DEF Rest
  <1>4. /\ a \o Rest(a, b) \in Seq(S) /\ Len(a \o Rest(a, b)) = Len(b)
        /\ \A i \in 1 .. Len(b) : (a \o Rest(a, b))[i] =
             IF i <= Len(a) THEN a[i] ELSE Rest(a, b)[i - Len(a)]
    BY <1>1, <1>3, ConcatProperties
  <1>5. \A i \in 1 .. Len(b) : (a \o Rest(a, b))[i] = b[i]
    BY <1>1, <1>3, <1>4
  <1> QED BY <1>3, <1>4, <1>5, SeqEqual

\* A sequence behind another is what follows it.
LEMMA CutRest ==
  ASSUME NEW S, NEW a \in Seq(S), NEW r \in Seq(S)
  PROVE  a \o r \in Seq(S) /\ IsPrefix(a, a \o r) /\ Rest(a, a \o r) = r
PROOF
  <1>1. /\ a \o r \in Seq(S) /\ Len(a \o r) = Len(a) + Len(r)
        /\ \A i \in 1 .. Len(a) + Len(r) : (a \o r)[i] = IF i <= Len(a) THEN a[i] ELSE r[i - Len(a)]
        /\ Len(a) \in Nat /\ Len(r) \in Nat
    BY ConcatProperties, LenProperties
  <1>2. IsPrefix(a, a \o r)
    <2>1. Len(a) <= Len(a \o r) /\ \A i \in 1 .. Len(a) : a[i] = (a \o r)[i]
      BY <1>1
    <2> QED BY <1>1, <2>1, PrefixElements
  <1>3. \A i \in Len(a) + 1 .. Len(a) + Len(r) : (a \o r)[i] \in S
    BY <1>1, ElementOfSeq
  <1>4. /\ Rest(a, a \o r) \in Seq(S) /\ Len(Rest(a, a \o r)) = Len(r)
        /\ \A i \in 1 .. Len(r) : Rest(a, a \o r)[i] = (a \o r)[Len(a) + i]
    BY <1>1, <1>3, SubSeqProperties DEF Rest
  <1>5. \A i \in 1 .. Len(r) : Rest(a, a \o r)[i] = r[i]
    BY <1>1, <1>4
  <1> QED BY <1>1, <1>2, <1>4, <1>5, SeqEqual

------------------------------------------------------------------------------
(* Paths and addresses.                                                    *)

Key  == Name \cup Child
Node == {a \in Seq(Key) : a # <<>> /\ a[1] \in Name}

\* A set of numbers that is not empty has a least one.
LEMMA LeastNumber ==
  ASSUME NEW T \in SUBSET Nat, T # {}
  PROVE  \E k \in T : \A j \in T : k <= j
PROOF
  <1>1. PICK k \in T : \A j \in T : ~(<<j, k>> \in OpToRel(<, Nat))
    BY NatLessThanWellFounded, WFMin
  <1>2. ASSUME NEW j \in T PROVE k <= j
    <2>1. j \in Nat /\ k \in Nat
      OBVIOUS
    <2>2. j < k => <<j, k>> \in OpToRel(<, Nat)
      BY <2>1, Zenon DEF OpToRel
    <2>3. ~(j < k)
      BY <1>1, <2>2, Zenon
    <2> QED BY <2>1, <2>3
  <1> QED BY <1>2

\* ... and one below a bound has a greatest.
LEMMA GreatestNumber ==
  ASSUME NEW n \in Nat, NEW T \in SUBSET (1 .. n), T # {}
  PROVE  \E k \in T : \A j \in T : j <= k
PROOF
  <1> DEFINE D == {n - k : k \in T}
  <1>1. D \in SUBSET Nat /\ D # {}
    <2>1. \A k \in T : n - k \in Nat
      OBVIOUS
    <2>2. D \subseteq Nat
      BY <2>1
    <2>3. PICK k \in T : TRUE
      OBVIOUS
    <2>4. n - k \in D
      BY <2>3
    <2> QED BY <2>2, <2>4
  <1>2. PICK x \in D : \A y \in D : x <= y
    <2> HIDE DEF D
    <2> QED BY <1>1, LeastNumber
  <1>3. PICK k \in T : x = n - k
    BY <1>2
  <1>4. ASSUME NEW j \in T PROVE j <= k
    <2>1. n - j \in D
      OBVIOUS
    <2>2. n - k <= n - j
      BY <1>2, <1>3, <2>1
    <2> QED BY <2>2
  <1> QED BY <1>4

LEMMA PathIsSequence ==
  ASSUME NEW path \in Path
  PROVE  /\ path \in Seq(Elem) /\ Len(path) \in 0 .. MaxDepth
         /\ DOMAIN path = 1 .. Len(path)
PROOF
  <1>1. PICK k \in 0 .. MaxDepth : path \in [1 .. k -> Elem]
    BY DEF Path
  <1>2. k \in Nat
    BY StoreAssumption DEF StoreAssumption
  <1>3. path \in Seq(Elem)
    BY <1>1, <1>2, SeqDef
  <1>4. Len(path) = k
    BY <1>1, <1>2, <1>3, LenProperties
  <1> QED BY <1>1, <1>3, <1>4

\* A path whose elements can all be converted names a node.
LEMMA AddressNode ==
  ASSUME NEW name \in Name, NEW path \in Seq(Elem), Parsable(path)
  PROVE  Address(name, path) \in Node
PROOF
  <1> DEFINE c == [i \in DOMAIN path |-> ChildOf[path[i]]]
  <1>1. Len(path) \in Nat /\ DOMAIN path = 1 .. Len(path) /\ \A i \in 1 .. Len(path) : path[i] \in Elem
    BY LenProperties, ElementOfSeq
  <1>2. c \in [1 .. Len(path) -> Key]
    BY <1>1, StoreAssumption DEF StoreAssumption, Parsable, Key
  <1>3. c \in Seq(Key) /\ <<name>> \in Seq(Key) /\ Len(<<name>>) = 1 /\ <<name>>[1] = name
    BY <1>1, <1>2, SeqDef DEF Key
  <1> HIDE DEF c
  <1>4. /\ <<name>> \o c \in Seq(Key) /\ Len(<<name>> \o c) = 1 + Len(c)
        /\ (<<name>> \o c)[1] = name /\ Len(c) \in Nat
    BY <1>3, ConcatProperties, LenProperties
  <1>5. <<name>> \o c # <<>>
    BY <1>4, EmptySeq
  <1> QED BY <1>4, <1>5 DEF Address, c, Node

\* The part of a path that can be converted exists, and is the path if all of it
\* can.
LEMMA ParsedPartOf ==
  ASSUME NEW path \in Path
  PROVE  /\ ParsedPart(path) \in Seq(Elem) /\ Parsable(ParsedPart(path))
         /\ Parsable(path) => ParsedPart(path) = path
PROOF
  <1> DEFINE P(p) == Parsable(p) /\ (p = path \/ ChildOf[path[Len(p) + 1]] = Unparsable)
  <1>1. path \in Seq(Elem) /\ Len(path) \in Nat /\ DOMAIN path = 1 .. Len(path)
    BY PathIsSequence, LenProperties
  <1>2. Prefixes(path) \subseteq Seq(Elem) /\ path \in Prefixes(path)
    BY <1>1, PrefixSet, PrefixOrder
  <1>3. CASE Parsable(path)
    <2>1. P(path)
      BY <1>3
    <2>2. ASSUME NEW p \in Prefixes(path), P(p) PROVE p = path
      <3> SUFFICES ASSUME p # path PROVE FALSE
        OBVIOUS
      <3>1. ChildOf[path[Len(p) + 1]] = Unparsable
        BY <2>2
      <3>2. p \in Seq(Elem) /\ IsPrefix(p, path) /\ Len(p) \in Nat
        BY <1>1, <1>2, PrefixSet, LenProperties
      <3>3. Len(p) <= Len(path) /\ \A i \in 1 .. Len(p) : p[i] = path[i]
        BY <1>1, <3>2, PrefixElements
      <3>4. Len(p) # Len(path)
        BY <1>1, <3>2, <3>3, SeqEqual
      <3>5. Len(p) + 1 \in DOMAIN path
        BY <1>1, <3>2, <3>3, <3>4
      <3> QED BY <1>3, <3>1, <3>5 DEF Parsable
    <2>3. ParsedPart(path) = path
      BY <1>2, <2>1, <2>2 DEF ParsedPart
    <2> QED BY <1>1, <1>3, <2>3
  <1>4. CASE ~Parsable(path)
    <2> DEFINE T == {i \in DOMAIN path : ChildOf[path[i]] = Unparsable}
    <2>1. T \in SUBSET Nat /\ T # {}
      BY <1>1, <1>4 DEF Parsable
    <2>2. PICK k \in T : \A j \in T : k <= j
      <3> HIDE DEF T
      <3> QED BY <2>1, LeastNumber
    <2>3. k \in 1 .. Len(path) /\ k - 1 \in 0 .. Len(path)
      BY <1>1, <2>2
    <2> DEFINE p == SubSeq(path, 1, k - 1)
    <2>4. \A i \in 1 .. k - 1 : path[i] \in Elem
      BY <1>1, <2>3, ElementOfSeq
    <2>5. /\ p \in Seq(Elem) /\ Len(p) = k - 1 /\ \A i \in 1 .. k - 1 : p[i] = path[i]
      BY <1>1, <2>3, <2>4, SubSeqProperties
    <2>6. p \in Prefixes(path)
      BY <2>3 DEF Prefixes
    <2>7. DOMAIN p = 1 .. k - 1
      BY <2>5, LenProperties
    <2>8. Parsable(p)
      BY <1>1, <2>2, <2>3, <2>5, <2>7 DEF Parsable
    <2>9. P(p)
      BY <2>2, <2>3, <2>5, <2>8
    <2> HIDE DEF p
    <2>10. ParsedPart(path) \in Prefixes(path) /\ P(ParsedPart(path))
      BY <2>6, <2>9 DEF ParsedPart
    <2> QED BY <1>2, <1>4, <2>10
  <1> QED BY <1>3, <1>4

------------------------------------------------------------------------------
(* One call of setGlobal on the tree.                                      *)

Closed(nodes) == \A b \in nodes : Prefixes(b) \ {<<>>} \subseteq nodes
Atom(b)       == IF b \in DOMAIN store THEN store[b] ELSE NoAtom
Nodes         == DOMAIN store \subseteq Node /\ Closed(DOMAIN store)

\* A prefix of a node that is not empty is a node.
LEMMA PrefixNode ==
  ASSUME NEW a \in Node, NEW b \in Prefixes(a), b # <<>>
  PROVE  b \in Node
PROOF
  <1>1. a \in Seq(Key) /\ a[1] \in Name
    BY DEF Node
  <1>2. b \in Seq(Key) /\ IsPrefix(b, a)
    BY <1>1, PrefixSet
  <1>3. Len(b) \in Nat /\ Len(b) # 0
    BY <1>2, LenProperties, EmptySeq
  <1>4. b[1] = a[1]
    BY <1>1, <1>2, <1>3, PrefixElements
  <1> QED BY <1>1, <1>2, <1>4 DEF Node

\* What is pasted behind a node is one.
LEMMA PastedNode ==
  ASSUME NEW a \in Node, NEW r \in Seq(Child)
  PROVE  /\ a \o r \in Node /\ r \in Seq(Key)
         /\ IsPrefix(a, a \o r) /\ Rest(a, a \o r) = r
PROOF
  <1>1. a \in Seq(Key) /\ a # <<>> /\ a[1] \in Name
    BY DEF Node
  <1>2. r \in Seq(Key)
    BY SeqMonotonic DEF Key
  <1>3. a \o r \in Seq(Key) /\ IsPrefix(a, a \o r) /\ Rest(a, a \o r) = r
    BY <1>1, <1>2, CutRest
  <1>4. Len(a) \in Nat /\ Len(a) # 0
    BY <1>1, LenProperties, EmptySeq
  <1>5. (a \o r)[1] = a[1] /\ Len(a) <= Len(a \o r) /\ Len(a \o r) \in Nat
    BY <1>1, <1>3, <1>4, PrefixElements, LenProperties
  <1>6. a \o r # <<>>
    BY <1>4, <1>5, EmptySeq
  <1> QED BY <1>1, <1>2, <1>3, <1>5, <1>6 DEF Node

\* The walk to a inserts the nodes on the way, all of them empty.
LEMMA WalkInsertsEmptyNodes ==
  ASSUME Nodes, NEW a \in Node
  PROVE  /\ DOMAIN Reaches(a) = DOMAIN store \cup (Prefixes(a) \ {<<>>})
         /\ DOMAIN Reaches(a) \subseteq Node /\ Closed(DOMAIN Reaches(a))
         /\ \A b \in DOMAIN Reaches(a) : Reaches(a)[b] = Atom(b)
         /\ \A b : b \notin DOMAIN Reaches(a) => Atom(b) = NoAtom
PROOF
  <1> DEFINE D == DOMAIN store \cup (Prefixes(a) \ {<<>>})
  <1>1. DOMAIN Reaches(a) = D /\ \A b \in D : Reaches(a)[b] = Atom(b)
    BY DEF Reaches, Atom
  <1>2. D \subseteq Node
    BY PrefixNode DEF Nodes
  <1>3. ASSUME NEW b \in D, NEW c \in Prefixes(b) \ {<<>>} PROVE c \in D
    <2>1. CASE b \in DOMAIN store
      BY <1>3, <2>1 DEF Nodes, Closed
    <2>2. CASE b \in Prefixes(a)
      <3>1. a \in Seq(Key) /\ b \in Seq(Key) /\ c \in Seq(Key)
        BY <1>2, <1>3, PrefixSet DEF Node
      <3>2. IsPrefix(c, a)
        BY <1>3, <2>2, <3>1, PrefixSet, PrefixOrder
      <3> QED BY <1>3, <3>1, <3>2, PrefixSet
    <2> QED BY <1>3, <2>1, <2>2
  <1>4. \A b : b \notin D => Atom(b) = NoAtom
    BY DEF Atom
  <1> QED BY <1>1, <1>2, <1>3, <1>4 DEF Closed

\* What follows a prefix is ordered like the wholes.
LEMMA RestOrder ==
  ASSUME NEW S, NEW a \in Seq(S), NEW b \in Seq(S), NEW c \in Seq(S),
         IsPrefix(a, c), IsPrefix(c, b)
  PROVE  IsPrefix(Rest(a, c), Rest(a, b))
PROOF
  <1>1. Len(a) \in Nat /\ Len(b) \in Nat /\ Len(c) \in Nat
    BY LenProperties
  <1>2. /\ Len(a) <= Len(c) /\ \A i \in 1 .. Len(a) : a[i] = c[i]
        /\ Len(c) <= Len(b) /\ \A i \in 1 .. Len(c) : c[i] = b[i]
    BY PrefixElements
  <1>3. ASSUME NEW d \in Seq(S), Len(a) <= Len(d)
        PROVE  /\ Rest(a, d) \in Seq(S) /\ Len(Rest(a, d)) = Len(d) - Len(a)
               /\ \A i \in 1 .. Len(d) - Len(a) : Rest(a, d)[i] = d[Len(a) + i]
    <2>1. Len(d) \in Nat
      BY LenProperties
    <2>2. \A i \in Len(a) + 1 .. Len(d) : d[i] \in S
      BY <1>1, <2>1, ElementOfSeq
    <2> QED BY <1>1, <1>3, <2>1, <2>2, SubSeqProperties DEF Rest
  <1>4. Len(a) <= Len(b)
    BY <1>1, <1>2
  <1>5. /\ Rest(a, c) \in Seq(S) /\ Rest(a, b) \in Seq(S)
        /\ Len(Rest(a, c)) = Len(c) - Len(a) /\ Len(Rest(a, b)) = Len(b) - Len(a)
        /\ \A i \in 1 .. Len(c) - Len(a) : Rest(a, c)[i] = c[Len(a) + i]
        /\ \A i \in 1 .. Len(b) - Len(a) : Rest(a, b)[i] = b[Len(a) + i]
    BY <1>2, <1>3, <1>4
  <1>6. ASSUME NEW i \in 1 .. Len(c) - Len(a) PROVE Rest(a, c)[i] = Rest(a, b)[i]
    <2>1. Len(a) + i \in 1 .. Len(c) /\ i \in 1 .. Len(b) - Len(a)
      BY <1>1, <1>2
    <2>2. Rest(a, c)[i] = c[Len(a) + i] /\ Rest(a, b)[i] = b[Len(a) + i]
      BY <1>5, <2>1
    <2> QED BY <1>2, <2>1, <2>2
  <1>7. Len(Rest(a, c)) <= Len(Rest(a, b))
    BY <1>1, <1>2, <1>5
  <1> QED BY <1>5, <1>6, <1>7, PrefixElements

\* The assignment replaces the subtree at a and keeps the rest, and the tree
\* stays a tree.
LEMMA AssignReplacesSubtree ==
  ASSUME NEW tree, DOMAIN tree \subseteq Node, Closed(DOMAIN tree),
         NEW a \in DOMAIN tree, NEW value \in Value
  PROVE  /\ DOMAIN Assign(tree, a, value) \subseteq Node
         /\ Closed(DOMAIN Assign(tree, a, value))
         /\ \A b \in Node :
              b \in DOMAIN Assign(tree, a, value) <=>
                IF IsPrefix(a, b) THEN Rest(a, b) \in DOMAIN value ELSE b \in DOMAIN tree
         /\ \A b \in DOMAIN Assign(tree, a, value) :
              Assign(tree, a, value)[b] =
                IF IsPrefix(a, b) THEN value[Rest(a, b)] ELSE tree[b]
PROOF
  <1> DEFINE new == {a \o r : r \in DOMAIN value}
  <1> DEFINE D == {b \in DOMAIN tree : ~IsPrefix(a, b)} \cup new
  <1>1. /\ DOMAIN Assign(tree, a, value) = D
        /\ \A b \in D : Assign(tree, a, value)[b] = IF b \in new THEN value[Rest(a, b)] ELSE tree[b]
    BY DEF Assign, Rest
  <1>2. /\ a \in Node /\ a \in Seq(Key) /\ \A b \in Node : b \in Seq(Key)
        /\ DOMAIN value \subseteq Seq(Child)
        /\ \A r \in DOMAIN value : Prefixes(r) \subseteq DOMAIN value
    BY StoreAssumption DEF StoreAssumption, Node
  <1>3. \A r \in DOMAIN value : /\ a \o r \in Node /\ r \in Seq(Key)
                                /\ IsPrefix(a, a \o r) /\ Rest(a, a \o r) = r
    BY <1>2, PastedNode
  <1>4. ASSUME NEW b \in Node
        PROVE  b \in new <=> IsPrefix(a, b) /\ Rest(a, b) \in DOMAIN value
    <2>1. ASSUME b \in new PROVE IsPrefix(a, b) /\ Rest(a, b) \in DOMAIN value
      BY <1>3, <2>1
    <2>2. ASSUME IsPrefix(a, b), Rest(a, b) \in DOMAIN value PROVE b \in new
      <3>1. a \o Rest(a, b) = b
        BY <1>2, <2>2, PasteRest
      <3> QED BY <2>2, <3>1
    <2> QED BY <2>1, <2>2
  <1>5. D \subseteq Node
    BY <1>3
  <1>6. ASSUME NEW b \in Node
        PROVE  b \in D <=> IF IsPrefix(a, b) THEN Rest(a, b) \in DOMAIN value
                           ELSE b \in DOMAIN tree
    BY <1>4
  <1> HIDE DEF new, D
  <1>7. ASSUME NEW b \in D, NEW c \in Prefixes(b) \ {<<>>} PROVE c \in D
    <2>1. b \in Node /\ c \in Node /\ b \in Seq(Key) /\ c \in Seq(Key) /\ IsPrefix(c, b)
      BY <1>2, <1>5, <1>7, PrefixNode, PrefixSet
    <2>2. CASE IsPrefix(a, b) /\ IsPrefix(a, c)
      <3>1. IsPrefix(Rest(a, c), Rest(a, b)) /\ Rest(a, b) \in DOMAIN value
        BY <1>2, <1>6, <1>7, <2>1, <2>2, RestOrder
      <3>2. Rest(a, c) \in Seq(Key) /\ Rest(a, b) \in Seq(Key)
        BY <1>2, <2>1, <2>2, PasteRest
      <3>3. Rest(a, c) \in Prefixes(Rest(a, b))
        BY <3>1, <3>2, PrefixSet
      <3>4. Rest(a, c) \in DOMAIN value
        BY <1>2, <3>1, <3>3
      <3> QED BY <1>6, <2>1, <2>2, <3>4
    <2>3. CASE IsPrefix(a, b) /\ ~IsPrefix(a, c)
      <3>1. IsPrefix(c, a)
        BY <1>2, <2>1, <2>3, PrefixOrder
      <3>2. c \in Prefixes(a)
        BY <1>2, <2>1, <3>1, PrefixSet
      <3>3. c \in DOMAIN tree
        BY <1>7, <3>2 DEF Closed
      <3> QED BY <1>6, <2>1, <2>3, <3>3
    <2>4. CASE ~IsPrefix(a, b)
      <3>1. b \in DOMAIN tree
        BY <1>6, <1>7, <2>1, <2>4
      <3>2. c \in DOMAIN tree
        BY <1>7, <3>1 DEF Closed
      <3>3. ~IsPrefix(a, c)
        BY <1>2, <2>1, <2>4, PrefixOrder
      <3> QED BY <1>6, <2>1, <3>2, <3>3
    <2> QED BY <2>2, <2>3, <2>4
  <1>8. ASSUME NEW b \in D
        PROVE  Assign(tree, a, value)[b] = IF IsPrefix(a, b) THEN value[Rest(a, b)] ELSE tree[b]
    BY <1>1, <1>4, <1>5, <1>6, <1>8
  <1> QED BY <1>1, <1>5, <1>6, <1>7, <1>8 DEF Closed

------------------------------------------------------------------------------
(* What a history of writes says of an address.                            *)

History == Seq([at : Node, value : Value])

\* The writes at an address or above it, and the atom that one of them puts there.
Over(ws, b)  == {i \in DOMAIN ws : IsPrefix(ws[i].at, b)}
Put(w, b)    == IF Rest(w.at, b) \in DOMAIN w.value THEN w.value[Rest(w.at, b)] ELSE NoAtom
Says(ws, b)  == IF Over(ws, b) = {} THEN NoAtom
                ELSE Put(ws[CHOOSE i \in Over(ws, b) : \A j \in Over(ws, b) : j <= i], b)

LEMMA HistoryElement ==
  ASSUME NEW ws \in History, NEW i \in DOMAIN ws
  PROVE  ws[i].at \in Node /\ ws[i].value \in Value
PROOF
  <1>1. ws \in Seq([at : Node, value : Value]) /\ i \in 1 .. Len(ws)
    BY LenProperties DEF History
  <1>2. ws[i] \in [at : Node, value : Value]
    BY <1>1, ElementOfSeq
  <1> QED BY <1>2

\* This is what Written reads out of writes.
LEMMA WrittenSays == \A b : Written(b) = Says(writes, b)
PROOF
  BY DEF Written, Says, Over, Put, Rest

\* The last write at or above an address decides.
LEMMA LastDecides ==
  ASSUME NEW ws \in History, NEW b, NEW k \in Over(ws, b), \A j \in Over(ws, b) : j <= k
  PROVE  Says(ws, b) = Put(ws[k], b)
PROOF
  <1> DEFINE last == CHOOSE i \in Over(ws, b) : \A j \in Over(ws, b) : j <= i
  <1>1. Over(ws, b) \subseteq Nat
    BY LenProperties DEF History, Over
  <1>2. ASSUME NEW i \in Over(ws, b), \A j \in Over(ws, b) : j <= i PROVE i = k
    <2>1. i \in Nat /\ k \in Nat /\ i <= k /\ k <= i
      BY <1>1, <1>2
    <2> QED BY <2>1
  <1>3. last = k
    BY <1>2, Zenon
  <1> QED BY <1>3 DEF Says

\* One more write decides for the addresses below it and no others.
LEMMA OneMoreWrite ==
  ASSUME NEW ws \in History, NEW w \in [at : Node, value : Value], NEW b
  PROVE  Says(Append(ws, w), b) = IF IsPrefix(w.at, b) THEN Put(w, b) ELSE Says(ws, b)
PROOF
  <1> DEFINE new == Append(ws, w)
  <1>1. /\ Len(ws) \in Nat /\ DOMAIN ws = 1 .. Len(ws)
        /\ new \in History /\ DOMAIN new = 1 .. Len(ws) + 1
        /\ \A i \in 1 .. Len(ws) : new[i] = ws[i]
        /\ new[Len(ws) + 1] = w
    BY AppendProperties, LenProperties DEF History
  <1> HIDE DEF new
  <1>2. CASE IsPrefix(w.at, b)
    <2>1. Len(ws) + 1 \in Over(new, b) /\ \A j \in Over(new, b) : j <= Len(ws) + 1
      BY <1>1, <1>2 DEF Over
    <2> QED BY <1>1, <1>2, <2>1, LastDecides DEF new
  <1>3. CASE ~IsPrefix(w.at, b)
    <2>1. Over(new, b) = Over(ws, b) /\ Over(ws, b) \in SUBSET (1 .. Len(ws))
      BY <1>1, <1>3 DEF Over
    <2>2. CASE Over(ws, b) = {}
      BY <1>3, <2>1, <2>2 DEF Says, new
    <2>3. CASE Over(ws, b) # {}
      <3>1. PICK k \in Over(ws, b) : \A j \in Over(ws, b) : j <= k
        BY <1>1, <2>1, <2>3, GreatestNumber
      <3>2. Says(ws, b) = Put(ws[k], b) /\ Says(new, b) = Put(new[k], b)
        BY <1>1, <2>1, <3>1, LastDecides
      <3>3. new[k] = ws[k]
        BY <1>1, <2>1
      <3> QED BY <1>3, <3>2, <3>3 DEF new
    <2> QED BY <2>2, <2>3
  <1> QED BY <1>2, <1>3

------------------------------------------------------------------------------
(* The invariant: at every address, the tree has the atom that the writes  *)
(* alone say.                                                              *)

StoreInvariant ==
  /\ Nodes
  /\ TypeOK
  /\ writes \in History
  /\ \A b \in Node : Atom(b) = Says(writes, b)

\* A path that can be converted: the tree and the history change together.
LEMMA StoredStep ==
  ASSUME StoreInvariant, NEW name \in Name, NEW path \in Path, NEW value \in Value,
         Parsable(path), setGlobal(name, path, value)
  PROVE  StoreInvariant'
PROOF
  <1> DEFINE a == Address(name, path)
  <1> DEFINE w == [at |-> a, value |-> value]
  <1>1. a \in Node /\ a \in Seq(Key) /\ a # <<>>
    BY PathIsSequence, AddressNode DEF Node
  <1>2. store' = Assign(Reaches(a), a, value) /\ result' = "stored" /\ writes' = Append(writes, w)
    BY DEF setGlobal
  <1>w. w \in [at : Node, value : Value] /\ w.at = a /\ w.value = value
    BY <1>1
  <1> HIDE DEF a, w
  <1>3. /\ DOMAIN Reaches(a) = DOMAIN store \cup (Prefixes(a) \ {<<>>})
        /\ DOMAIN Reaches(a) \subseteq Node /\ Closed(DOMAIN Reaches(a))
        /\ \A b \in DOMAIN Reaches(a) : Reaches(a)[b] = Atom(b)
        /\ \A b : b \notin DOMAIN Reaches(a) => Atom(b) = NoAtom
    BY <1>1, WalkInsertsEmptyNodes DEF StoreInvariant
  <1>4. a \in DOMAIN Reaches(a)
    BY <1>1, <1>3, PrefixSet, PrefixOrder
  <1>5. /\ DOMAIN store' \subseteq Node /\ Closed(DOMAIN store')
        /\ \A b \in Node : b \in DOMAIN store' <=>
             IF IsPrefix(a, b) THEN Rest(a, b) \in DOMAIN value ELSE b \in DOMAIN Reaches(a)
        /\ \A b \in DOMAIN store' : store'[b] =
             IF IsPrefix(a, b) THEN value[Rest(a, b)] ELSE Reaches(a)[b]
    <2> DEFINE tree == Reaches(a)
    <2>1. DOMAIN tree \subseteq Node /\ Closed(DOMAIN tree) /\ a \in DOMAIN tree /\ store' = Assign(tree, a, value)
      BY <1>2, <1>3, <1>4
    <2> HIDE DEF tree
    <2>2. /\ DOMAIN store' \subseteq Node /\ Closed(DOMAIN store')
          /\ \A b \in Node : b \in DOMAIN store' <=>
               IF IsPrefix(a, b) THEN Rest(a, b) \in DOMAIN value ELSE b \in DOMAIN tree
          /\ \A b \in DOMAIN store' : store'[b] =
               IF IsPrefix(a, b) THEN value[Rest(a, b)] ELSE tree[b]
      BY <2>1, AssignReplacesSubtree
    <2> QED BY <2>2 DEF tree
  <1>6. Nodes'
    BY <1>5 DEF Nodes, Closed
  <1>7. writes' \in History /\ \A i \in DOMAIN writes' : writes'[i].value \in Value
    <2>1. writes' \in History
      BY <1>2, <1>w, AppendProperties DEF StoreInvariant, History
    <2> QED BY <2>1, HistoryElement
  <1>8. TypeOK'
    BY <1>2, <1>5, <1>7 DEF TypeOK, Closed, Node
  <1>9. ASSUME NEW b \in Node PROVE Atom(b)' = Says(writes', b)
    <2>1. Atom(b)' = IF IsPrefix(a, b) THEN Put(w, b) ELSE Atom(b)
      BY <1>3, <1>5, <1>w DEF Atom, Put
    <2>2. Says(writes', b) = IF IsPrefix(a, b) THEN Put(w, b) ELSE Says(writes, b)
      BY <1>2, <1>w, OneMoreWrite DEF StoreInvariant
    <2> QED BY <2>1, <2>2 DEF StoreInvariant
  <1> QED BY <1>6, <1>7, <1>8, <1>9 DEF StoreInvariant

\* A path that cannot: the nodes inserted on the way have no atom.
LEMMA ThrownStep ==
  ASSUME StoreInvariant, NEW name \in Name, NEW path \in Path, NEW value \in Value,
         ~Parsable(path), setGlobal(name, path, value)
  PROVE  StoreInvariant'
PROOF
  <1> DEFINE a == Address(name, ParsedPart(path))
  <1>1. a \in Node
    BY ParsedPartOf, AddressNode
  <1>2. store' = Reaches(a) /\ result' = "thrown" /\ writes' = writes
    BY DEF setGlobal
  <1> HIDE DEF a
  <1>3. /\ DOMAIN store' \subseteq Node /\ Closed(DOMAIN store')
        /\ \A b \in DOMAIN store' : store'[b] = Atom(b)
        /\ \A b : b \notin DOMAIN store' => Atom(b) = NoAtom
    BY <1>1, <1>2, WalkInsertsEmptyNodes DEF StoreInvariant
  <1>4. Nodes'
    BY <1>3 DEF Nodes, Closed
  <1>5. TypeOK'
    BY <1>2, <1>3 DEF TypeOK, StoreInvariant, Closed, Node
  <1>6. \A b \in Node : Atom(b)' = Atom(b)
    BY <1>3 DEF Atom
  <1> QED BY <1>2, <1>4, <1>5, <1>6 DEF StoreInvariant

LEMMA StoreInvariantHolds == Spec => []StoreInvariant
PROOF
  <1>1. Init => StoreInvariant
    <2> SUFFICES ASSUME Init PROVE StoreInvariant
      OBVIOUS
    <2>1. DOMAIN store = {} /\ writes = <<>> /\ result = "none"
      BY DEF Init
    <2>2. writes \in History /\ DOMAIN writes = {}
      BY <2>1, EmptySeq DEF History
    <2>3. \A b : Says(writes, b) = NoAtom /\ Atom(b) = NoAtom
      BY <2>1, <2>2 DEF Says, Over, Atom
    <2> QED BY <2>1, <2>2, <2>3 DEF StoreInvariant, Nodes, Closed, TypeOK
  <1>2. StoreInvariant /\ [Next]_vars => StoreInvariant'
    <2> SUFFICES ASSUME StoreInvariant, [Next]_vars PROVE StoreInvariant'
      OBVIOUS
    <2>1. CASE Next
      BY <2>1, StoredStep, ThrownStep DEF Next
    <2>2. CASE UNCHANGED vars
      BY <2>2 DEF vars, StoreInvariant, Nodes, Closed, TypeOK, Atom
    <2> QED BY <2>1, <2>2
  <1> QED BY <1>1, <1>2, PTL DEF Spec

------------------------------------------------------------------------------
(* Theorems                                                                *)

\* Every node of the tree hangs on a node, up to the one of its global's name,
\* also after a setGlobal that threw on its way.
THEOREM DataStoreTypeCorrect == Spec => []TypeOK
PROOF
  <1>1. StoreInvariant => TypeOK
    BY DEF StoreInvariant
  <1> QED BY <1>1, StoreInvariantHolds, PTL

\* What AnswersFollowWrites asks of one answer.
AnswerFollows(a, answer) ==
  /\ \A r \in DOMAIN answer : answer[r] = Written(a \o r)
  /\ \A i \in DOMAIN writes : \A r \in DOMAIN writes[i].value :
       LET b == writes[i].at \o r
       IN  IsPrefix(a, b) /\ Written(b) # NoAtom =>
             SubSeq(b, Len(a) + 1, Len(b)) \in DOMAIN answer

\* getGlobal answers with what was last written at, above or below the path.
THEOREM AnswersAreLastWrites == Spec => []AnswersFollowWrites
PROOF
  <1>1. StoreInvariant => AnswersFollowWrites
    <2> SUFFICES ASSUME StoreInvariant, NEW name \in Name, NEW path \in Path, Parsable(path)
                 PROVE  AnswerFollows(Address(name, path), getGlobal(name, path))
      BY DEF AnswersFollowWrites, AnswerFollows
    <2> DEFINE a      == Address(name, path)
    <2> DEFINE answer == getGlobal(name, path)
    <2>1. a \in Node /\ a \in Seq(Key) /\ a # <<>>
      BY PathIsSequence, AddressNode DEF Node
    <2>2. \A b \in Node : Written(b) = Atom(b)
      BY WrittenSays DEF StoreInvariant
    <2>3. answer = IF a \notin DOMAIN store THEN [r \in {<<>>} |-> NoAtom]
                   ELSE [r \in {Rest(a, b) : b \in {b \in DOMAIN store : IsPrefix(a, b)}} |-> store[a \o r]]
      <3>1. ParsedPart(path) = path
        BY ParsedPartOf
      <3>2. CASE a \notin DOMAIN store
        BY <3>1, <3>2 DEF getGlobal
      <3>3. CASE a \in DOMAIN store
        BY <3>1, <3>3 DEF getGlobal, Rest
      <3> QED BY <3>2, <3>3
    <2> HIDE DEF a, answer
    <2>4. ASSUME NEW r \in DOMAIN answer PROVE answer[r] = Written(a \o r)
      <3>1. CASE a \notin DOMAIN store
        <4>1. r = <<>> /\ answer[r] = NoAtom
          BY <2>3, <2>4, <3>1
        <4>2. a \o r = a
          BY <2>1, <4>1, ConcatEmptySeq
        <4> QED BY <2>1, <2>2, <3>1, <4>1, <4>2 DEF Atom
      <3>2. CASE a \in DOMAIN store
        <4>1. PICK b \in DOMAIN store : IsPrefix(a, b) /\ r = Rest(a, b)
          BY <2>3, <2>4, <3>2
        <4>2. b \in Node /\ b \in Seq(Key)
          BY DEF StoreInvariant, Nodes, Node
        <4>3. a \o r = b
          BY <2>1, <4>1, <4>2, PasteRest
        <4>4. answer[r] = store[b]
          BY <2>3, <2>4, <3>2, <4>3
        <4> QED BY <2>2, <4>2, <4>3, <4>4 DEF Atom
      <3> QED BY <3>1, <3>2
    <2>5. ASSUME NEW i \in DOMAIN writes, NEW r \in DOMAIN writes[i].value,
                 IsPrefix(a, writes[i].at \o r), Written(writes[i].at \o r) # NoAtom
          PROVE  Rest(a, writes[i].at \o r) \in DOMAIN answer
      <3> DEFINE b == writes[i].at \o r
      <3>1. writes[i].at \in Node /\ r \in Seq(Child)
        BY StoreAssumption, HistoryElement DEF StoreInvariant, StoreAssumption
      <3>2. b \in Node /\ b \in Seq(Key)
        BY <3>1, PastedNode DEF Node
      <3>3. b \in DOMAIN store
        BY <2>2, <2>5, <3>2 DEF Atom
      <3>4. a \in Prefixes(b)
        BY <2>1, <2>5, <3>2, PrefixSet
      <3>5. a \in DOMAIN store
        BY <2>1, <3>3, <3>4 DEF StoreInvariant, Nodes, Closed
      <3> QED BY <2>3, <2>5, <3>3, <3>5
    <2>6. AnswerFollows(a, answer)
      BY <2>4, <2>5 DEF AnswerFollows, Rest
    <2> QED BY <2>6 DEF a, answer
  <1> QED BY <1>1, StoreInvariantHolds, PTL
==============================================================================
