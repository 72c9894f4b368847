----------------------------- MODULE SalusProofs -----------------------------
(***************************************************************************)
(* Proofs about the thermostat: about SalusDataModel for any length of the *)
(* programs, any ranges and any documents that satisfy what each theorem   *)
(* assumes of them, then about SalusWindow for any number of notifications *)
(* that are pending.                                                       *)
(***************************************************************************)
EXTENDS SalusDataModel, SalusWindow, SequenceTheorems, WellFoundedInduction, TLAPS

\* A set of items that is not empty has a last one, which is what the search of
\* currentProgramItem finds.
LEMMA LastOfItems ==
  ASSUME NEW S \in SUBSET Item, S # {}
  PROVE  \E k \in S : \A j \in S : j <= k
PROOF
  <1>a. Count \in Nat \ {0}
    BY SalusAssumption DEF SalusAssumption
  <1> DEFINE T == {LastItem - k : k \in S}
  <1>b. \A k \in S : LastItem - k \in Nat /\ k \in Int
    BY <1>a DEF Item, LastItem
  <1>1. T \subseteq Nat /\ T # {}
    BY <1>b
  <1>2. PICK x \in T : \A y \in T : ~(<<y, x>> \in OpToRel(<, Nat))
    <2> HIDE DEF T
    <2> QED BY <1>1, NatLessThanWellFounded, WFMin
  <1>3. ASSUME NEW y \in T  PROVE x <= y
    <2>1. x \in Nat /\ y \in Nat
      BY <1>1
    <2>2. y < x => <<y, x>> \in OpToRel(<, Nat)
      <3> HIDE DEF T
      <3> QED BY <2>1, Zenon DEF OpToRel
    <2>3. ~(y < x)
      <3> HIDE DEF T
      <3> QED BY <1>2, <2>2, Zenon
    <2> QED BY <2>1, <2>3
  <1>4. PICK k \in S : x = LastItem - k
    BY <1>2
  <1>5. \A j \in S : LastItem - k <= LastItem - j
    BY <1>3, <1>4
  <1> QED
    BY <1>5, <1>a DEF Item, LastItem

\* The number currentProgramItem finds is that of an item: the last started, or
\* the last of all when none has.
LEMMA CurrentIsLastStarted ==
  /\ CurrentNumber \in Item
  /\ (\E k \in Item : Started(k)) =>
       Started(CurrentNumber) /\ \A j \in Item : j > CurrentNumber => ~Started(j)
  /\ (\A k \in Item : ~Started(k)) => CurrentNumber = LastItem
PROOF
  <1>a. Count \in Nat \ {0}
    BY SalusAssumption DEF SalusAssumption
  <1> DEFINE S == {k \in Item : Started(k)}
  <1>1. ASSUME \E k \in Item : Started(k)
        PROVE  \E k \in Item : Started(k) /\ \A j \in k + 1 .. LastItem : ~Started(j)
    <2>1. PICK k \in S : \A j \in S : j <= k
      BY <1>1, LastOfItems
    <2>2. k \in Item /\ Started(k)
      BY <2>1
    <2>3. \A j \in k + 1 .. LastItem : j \in Item /\ ~(j <= k)
      BY <2>2, <1>a DEF Item, LastItem
    <2>4. \A j \in k + 1 .. LastItem : ~Started(j)
      BY <2>1, <2>3
    <2> QED BY <2>2, <2>4
  <1>2. CASE \E k \in Item : Started(k)
    <2>1. /\ CurrentNumber \in Item /\ Started(CurrentNumber)
          /\ \A j \in CurrentNumber + 1 .. LastItem : ~Started(j)
      BY <1>1, <1>2 DEF CurrentNumber
    <2>2. \A j \in Item : j > CurrentNumber => j \in CurrentNumber + 1 .. LastItem
      BY <2>1, <1>a DEF Item, LastItem
    <2> QED BY <1>2, <2>1, <2>2
  <1>3. CASE ~\E k \in Item : Started(k)
    BY <1>3, <1>a DEF CurrentNumber, Item, LastItem
  <1> QED BY <1>2, <1>3

-----------------------------------------------------------------------------
(* Types.                                                                  *)

\* A step of an hour, a minute or a temperature never leaves the numbers.
LEMMA StepStays ==
  ASSUME NEW x \in Nat, NEW low \in Nat, NEW high \in Int, NEW up \in BOOLEAN
  PROVE  Step(x, low, high, up) \in Nat
BY DEF Step

\* What a document leaves behind has the types of a document.
LEMMA LoadTypes ==
  ASSUME TypeOK, NEW doc \in Document, loadFromXML(doc)
  PROVE  /\ hour' \in Nat /\ minute' \in Nat /\ day' \in Nat
         /\ program' \in [WeekType -> [Item -> ProgramItem]]
         /\ seams' \in [WeekType -> SUBSET (Item \ {0})]
PROOF
  <1>1. hour' \in Nat /\ minute' \in Nat /\ day' \in Nat
    BY DEF loadFromXML, TypeOK, Document
  <1>2. program' \in [WeekType -> [Item -> ProgramItem]]
    <2>1. \A w \in WeekType, k \in Item :
            doc.program[w][k] \in ProgramItem /\ program[w][k] \in ProgramItem
      BY DEF Document, TypeOK
    <2> QED BY <2>1 DEF loadFromXML, ProgramItem
  <1>3. seams' \in [WeekType -> SUBSET (Item \ {0})]
    BY DEF loadFromXML
  <1> QED BY <1>1, <1>2, <1>3

LEMMA TypeOfEdited == TypeOK => Edited \in ProgramItem /\ record.number \in Item
BY DEF TypeOK, Edited

\* An item is replaced by an item.
LEMMA ChangeTypes ==
  ASSUME TypeOK, NEW i \in ProgramItem, ChangeItem(i)
  PROVE  TypeOK'
BY DEF ChangeItem, Event, TypeOK, clock

LEMMA TypeInit == Init => TypeOK
PROOF
  <1> SUFFICES ASSUME Init PROVE TypeOK
    OBVIOUS
  <1>1. Settings \in Document /\ Count \in Nat \ {0} /\ MaxTemperature \in Nat
    BY SalusAssumption DEF SalusAssumption
  <1>2. hour \in Nat /\ minute \in Nat /\ day \in Nat
        /\ program \in [WeekType -> [Item -> ProgramItem]]
    BY <1>1 DEF Init, Document
  <1> QED
    BY <1>1, <1>2 DEF Init, TypeOK, FirstRecord, WeekType, Item

LEMMA TypeNext == TypeOK /\ [Next]_vars => TypeOK'
PROOF
  <1> SUFFICES ASSUME TypeOK, [Next]_vars PROVE TypeOK'
    OBVIOUS
  <1>a. /\ Count \in Nat \ {0} /\ MaxTemperature \in Nat
        /\ MaxHour \in Nat /\ MaxMinute \in Nat /\ MaxDay \in Nat
        /\ Settings \in Document /\ Files \subseteq Document
    BY SalusAssumption DEF SalusAssumption
  <1>1. ASSUME NEW up \in BOOLEAN, StepHour(up) PROVE TypeOK'
    BY <1>1, <1>a, StepStays DEF StepHour, Event, TypeOK
  <1>2. ASSUME NEW up \in BOOLEAN, StepMinute(up) PROVE TypeOK'
    BY <1>2, <1>a, StepStays DEF StepMinute, Event, TypeOK
  <1>3. ASSUME NEW up \in BOOLEAN, StepDay(up) PROVE TypeOK'
    BY <1>3, <1>a, StepStays DEF StepDay, Event, TypeOK
  <1>4. ASSUME NEW up \in BOOLEAN, StepProgramNumber(up) PROVE TypeOK'
    <2>1. Step(record.number, 0, LastItem, up) \in Item
      BY <1>a DEF TypeOK, Step, Item, LastItem
    <2> QED BY <1>4, <2>1 DEF StepProgramNumber, Event, TypeOK, clock
  <1>5. ASSUME NEW up \in BOOLEAN, StepProgramHour(up) PROVE TypeOK'
    <2> DEFINE week == program[record.week]
               n    == record.number
               low  == IF n > 0 THEN week[n - 1].hour + 1 ELSE 0
               high == IF n < LastItem THEN week[n + 1].hour - 1 ELSE MaxHour
    <2>1. \A k \in Item : week[k].hour \in Nat
      BY DEF TypeOK, ProgramItem
    <2>2. n \in Item /\ (n > 0 => n - 1 \in Item) /\ (n < LastItem => n + 1 \in Item)
      BY <1>a DEF TypeOK, Item, LastItem
    <2>3. low \in Nat /\ high \in Int
      BY <1>a, <2>1, <2>2
    <2>4. Edited \in ProgramItem
      BY TypeOfEdited
    <2>5. Step(Edited.hour, low, high, up) \in Nat
      <3>1. Edited.hour \in Nat
        BY <2>4 DEF ProgramItem
      <3> HIDE DEF low, high
      <3> QED BY <2>3, <3>1, StepStays
    <2>6. [Edited EXCEPT !.hour = Step(@, low, high, up)] \in ProgramItem
      <3> HIDE DEF low, high
      <3> QED BY <2>4, <2>5 DEF ProgramItem
    <2>7. ChangeItem([Edited EXCEPT !.hour = Step(@, low, high, up)])
      BY <1>5 DEF StepProgramHour
    <2> HIDE DEF low, high
    <2> QED BY <2>6, <2>7, ChangeTypes
  <1>6. ASSUME NEW up \in BOOLEAN, StepProgramMinute(up) PROVE TypeOK'
    <2>1. Edited \in ProgramItem /\ Edited.minute \in Nat
      BY TypeOfEdited DEF ProgramItem
    <2>2. Step(Edited.minute, 0, MaxMinute, up) \in Nat
      BY <1>a, <2>1, StepStays
    <2>3. [Edited EXCEPT !.minute = Step(@, 0, MaxMinute, up)] \in ProgramItem
      BY <2>1, <2>2 DEF ProgramItem
    <2> QED BY <1>6, <2>3, ChangeTypes DEF StepProgramMinute
  <1>7. ASSUME NEW up \in BOOLEAN, StepProgramTemperature(up) PROVE TypeOK'
    <2>1. [Edited EXCEPT !.temperature = Step(@, 0, MaxTemperature, up)] \in ProgramItem
      BY <1>a, TypeOfEdited DEF ProgramItem, Step
    <2> QED BY <1>7, <2>1, ChangeTypes DEF StepProgramTemperature
  <1>8. CASE incrementTemporaryTemperature \/ decrementTemporaryTemperature
    BY <1>8 DEF incrementTemporaryTemperature, decrementTemporaryTemperature,
                Event, TypeOK, clock
  <1>9. CASE resetTemporaryTemperature
    <2>1. currentProgramItem \in ProgramItem
      BY CurrentIsLastStarted DEF currentProgramItem, TypeOK, WeekOf, WeekType
    <2> QED BY <1>9, <2>1 DEF resetTemporaryTemperature, Event, TypeOK, clock, ProgramItem
  <1>10. CASE StepProgramDay \/ resetProgramRecord
    <2>1. FirstRecord \in [week : WeekType, number : Item]
      BY <1>a DEF FirstRecord, WeekType, Item
    <2> QED BY <1>10, <2>1 DEF StepProgramDay, resetProgramRecord, Event, TypeOK, clock
  <1>11. CASE resetToFactorySettings
    <2>1. FirstRecord \in [week : WeekType, number : Item]
      BY <1>a DEF FirstRecord, WeekType, Item
    <2> QED BY <1>11, <1>a, <2>1, LoadTypes DEF resetToFactorySettings, Event, TypeOK
  <1>12. CASE loadFromFile
    BY <1>12, <1>a, LoadTypes DEF loadFromFile, Event, TypeOK
  <1>13. CASE UNCHANGED vars
    BY <1>13 DEF vars, clock, TypeOK
  <1> QED
    BY <1>1, <1>2, <1>3, <1>4, <1>5, <1>6, <1>7, <1>8, <1>9, <1>10, <1>11,
       <1>12, <1>13 DEF Next

\* The data keep their types for any documents and any sequence of calls: the
\* number of the item that is set up, and that of the item in effect, stay
\* numbers of items.
THEOREM SalusTypeCorrect == Spec => []TypeOK
BY TypeInit, TypeNext, PTL DEF Spec

-----------------------------------------------------------------------------
(* The order of the items.                                                 *)

\* A document that is read up to an item has been read up to all before it.
LEMMA ReadInOrder ==
  ASSUME NEW doc \in Document, NEW w \in WeekType, NEW i \in Item, NEW j \in Item,
         i <= j, HourRead(doc, w, j)
  PROVE  HourRead(doc, w, i)
PROOF
  <1>1. Count \in Nat /\ doc.reads \in Nat
    BY SalusAssumption DEF SalusAssumption, Document
  <1> QED BY <1>1 DEF HourRead, Place, Item

\* An hour is that of the document if it has been read, else the old one.
LEMMA LoadHours ==
  ASSUME TypeOK, NEW doc \in Document, loadFromXML(doc)
  PROVE  \A w \in WeekType, k \in Item :
           program'[w][k].hour = IF HourRead(doc, w, k) THEN doc.program[w][k].hour
                                                        ELSE program[w][k].hour
BY DEF loadFromXML, HourRead

\* Wherever a document fails, the order stays between two items without a seam.
\* When both have been read, it is the document's; when the first has and the
\* second has not, there is a seam behind the last that has been read; when
\* neither has, there was no seam between them before.
LEMMA LoadKeepsOrder ==
  ASSUME TypeOK, ProgramInOrder, NEW doc \in Document, InOrder(doc.program),
         loadFromXML(doc)
  PROVE  ProgramInOrder'
PROOF
  <1>a. Count \in Nat \ {0}
    BY SalusAssumption DEF SalusAssumption
  <1> SUFFICES ASSUME NEW w \in WeekType, NEW i \in Item, NEW j \in Item, i < j,
                      (i + 1 .. j) \cap seams'[w] = {}
               PROVE  program'[w][i].hour < program'[w][j].hour
    BY DEF ProgramInOrder
  <1>1. \A k \in Item : k \in seams'[w] <=>
          /\ k # 0 /\ ~HourRead(doc, w, k)
          /\ HourRead(doc, w, k - 1) \/ k \in seams[w]
    BY DEF loadFromXML
  <1>2. CASE HourRead(doc, w, j)
    <2>1. HourRead(doc, w, i)
      BY <1>2, ReadInOrder, <1>a DEF Item
    <2> QED BY <1>2, <2>1, LoadHours DEF InOrder
  <1>3. CASE HourRead(doc, w, i) /\ ~HourRead(doc, w, j)
    <2> DEFINE S == {k \in Item : HourRead(doc, w, k)}
    <2>1. PICK m \in S : \A k \in S : k <= m
      BY <1>3, LastOfItems
    <2>2. m \in Item /\ HourRead(doc, w, m) /\ i <= m
      BY <1>3, <2>1
    <2>3. ~(j <= m)
      BY <1>3, <2>2, ReadInOrder
    <2>4. m + 1 \in Item /\ m + 1 # 0 /\ m + 1 \in i + 1 .. j
          /\ ~(m + 1 <= m) /\ (m + 1) - 1 = m
      BY <1>a, <2>2, <2>3 DEF Item
    <2>5. ~HourRead(doc, w, m + 1)
      BY <2>1, <2>4
    <2>6. m + 1 \in seams'[w]
      BY <1>1, <2>2, <2>4, <2>5
    <2> QED BY <2>4, <2>6
  <1>4. CASE ~HourRead(doc, w, i) /\ ~HourRead(doc, w, j)
    <2>1. ASSUME NEW n \in i + 1 .. j, n \in seams[w] PROVE FALSE
      <3>1. n \in Item /\ i <= n /\ n # 0
        BY <1>a, <2>1 DEF Item
      <3>2. ~HourRead(doc, w, n)
        BY <1>4, <3>1, ReadInOrder
      <3> QED BY <1>1, <2>1, <3>1, <3>2
    <2>2. program[w][i].hour < program[w][j].hour
      BY <2>1 DEF ProgramInOrder
    <2> QED BY <1>4, <2>2, LoadHours
  <1> QED BY <1>2, <1>3, <1>4

\* Nor does the change of an item that keeps its hour away from those of the
\* items that no seam divides from it.
LEMMA ChangeKeepsOrder ==
  ASSUME TypeOK, ProgramInOrder, NEW i \in ProgramItem, ChangeItem(i),
         \A k \in Item :
           k < record.number /\ (k + 1 .. record.number) \cap seams[record.week] = {}
             => program[record.week][k].hour < i.hour,
         \A k \in Item :
           record.number < k /\ (record.number + 1 .. k) \cap seams[record.week] = {}
             => i.hour < program[record.week][k].hour
  PROVE  ProgramInOrder'
PROOF
  <1>1. Count \in Nat \ {0}
    BY SalusAssumption DEF SalusAssumption
  <1>2. record.week \in WeekType /\ record.number \in Item
    BY DEF TypeOK
  <1>3. \A w \in WeekType, k \in Item :
          program'[w][k] = IF w = record.week /\ k = record.number THEN i ELSE program[w][k]
    BY <1>2 DEF ChangeItem, TypeOK
  <1>6. seams' = seams
    BY DEF ChangeItem
  <1> SUFFICES ASSUME NEW w \in WeekType, NEW a \in Item, NEW b \in Item, a < b,
                      (a + 1 .. b) \cap seams[w] = {}
               PROVE  program'[w][a].hour < program'[w][b].hour
    BY <1>6 DEF ProgramInOrder
  <1>4. program[w][a].hour < program[w][b].hour
    BY DEF ProgramInOrder
  <1>5. ~(a = record.number /\ b = record.number)
    BY <1>1 DEF Item
  <1> QED
    BY <1>3, <1>4, <1>5

\* The step of an hour is within its neighbours, or none.
LEMMA HourKeepsOrder ==
  ASSUME TypeOK, ProgramInOrder, NEW up \in BOOLEAN, StepProgramHour(up)
  PROVE  ProgramInOrder'
PROOF
  <1> DEFINE week == program[record.week]
             n    == record.number
             low  == IF n > 0 THEN week[n - 1].hour + 1 ELSE 0
             high == IF n < LastItem THEN week[n + 1].hour - 1 ELSE MaxHour
             h    == Step(week[n].hour, low, high, up)
             i    == [Edited EXCEPT !.hour = Step(@, low, high, up)]
  <1>a. Count \in Nat \ {0} /\ MaxHour \in Nat
    BY SalusAssumption DEF SalusAssumption
  <1>1. \A k \in Item : week[k].hour \in Nat
    BY DEF TypeOK, ProgramItem
  <1>b. Item \subseteq Int
    BY DEF Item
  <1>2. n \in Item /\ (n > 0 => n - 1 \in Item) /\ (n < LastItem => n + 1 \in Item)
    BY <1>a DEF TypeOK, Item, LastItem
  <1>3. low \in Nat /\ high \in Int
    BY <1>a, <1>1, <1>2
  <1>4. i \in ProgramItem /\ i.hour = h
    <2>1. Edited \in ProgramItem /\ Edited = week[n]
      BY TypeOfEdited DEF Edited
    <2>2. h \in Nat
      <3> HIDE DEF low, high
      <3> QED BY <1>1, <1>2, <1>3, StepStays
    <2> HIDE DEF low, high
    <2> QED BY <2>1, <2>2 DEF ProgramItem
  <1>5. \A a, b \in Item : a < b /\ (a + 1 .. b) \cap seams[record.week] = {}
                             => week[a].hour < week[b].hour
    BY DEF ProgramInOrder, TypeOK
  <1>6. ASSUME NEW k \in Item, k < n, (k + 1 .. n) \cap seams[record.week] = {}
        PROVE  week[k].hour < h
    <2>1. n > 0 /\ (k = n - 1 \/ k < n - 1)
      BY <1>b, <1>2, <1>6, <1>a DEF Item
    <2>2. week[k].hour <= week[n - 1].hour /\ week[k].hour < week[n].hour
      <3>0. (k + 1 .. n - 1) \cap seams[record.week] = {}
        <4>1. k \in Int /\ n \in Int
          BY <1>b, <1>2
        <4>2. k + 1 .. n - 1 \subseteq k + 1 .. n
          <5> HIDE DEF n
          <5> QED BY <4>1
        <4> QED BY <1>6, <4>2
      <3>1. k = n - 1 \/ week[k].hour < week[n - 1].hour
        BY <1>2, <1>5, <2>1, <3>0
      <3> HIDE DEF week, n
      <3> QED BY <1>1, <1>2, <1>5, <1>6, <2>1, <3>1
    <2>3. low = week[n - 1].hour + 1
      BY <2>1
    <2>4. h \in {week[n].hour, week[n].hour + 1} \/ (h = week[n].hour - 1 /\ week[n].hour > low)
      <3> HIDE DEF low, high
      <3> QED BY <1>1, <1>2, <1>3 DEF Step
    <2>5. week[n].hour \in Nat /\ week[k].hour \in Nat /\ week[n - 1].hour \in Nat
      BY <1>1, <1>2, <2>1
    <2> HIDE DEF h, low, week
    <2> QED BY <2>2, <2>3, <2>4, <2>5
  <1>7. ASSUME NEW k \in Item, n < k, (n + 1 .. k) \cap seams[record.week] = {}
        PROVE  h < week[k].hour
    <2>1. n < LastItem /\ (k = n + 1 \/ n + 1 < k)
      BY <1>b, <1>2, <1>7, <1>a DEF Item, LastItem
    <2>2. week[n + 1].hour <= week[k].hour /\ week[n].hour < week[k].hour
      <3>0. (n + 1 + 1 .. k) \cap seams[record.week] = {}
        <4>1. k \in Int /\ n \in Int
          BY <1>b, <1>2
        <4>2. n + 1 + 1 .. k \subseteq n + 1 .. k
          <5> HIDE DEF n
          <5> QED BY <4>1
        <4> QED BY <1>7, <4>2
      <3>1. k = n + 1 \/ week[n + 1].hour < week[k].hour
        BY <1>2, <1>5, <2>1, <3>0
      <3> HIDE DEF week, n
      <3> QED BY <1>1, <1>2, <1>5, <1>7, <2>1, <3>1
    <2>3. high = week[n + 1].hour - 1
      BY <2>1
    <2>4. h \in {week[n].hour, week[n].hour - 1} \/ (h = week[n].hour + 1 /\ week[n].hour < high)
      <3> HIDE DEF low, high
      <3> QED BY <1>1, <1>2, <1>3 DEF Step
    <2>5. week[n].hour \in Nat /\ week[k].hour \in Nat /\ week[n + 1].hour \in Nat
      BY <1>1, <1>2, <2>1
    <2> HIDE DEF h, high, week
    <2> QED BY <2>2, <2>3, <2>4, <2>5
  <1>8. ChangeItem(i)
    BY DEF StepProgramHour
  <1> HIDE DEF h, i
  <1> QED
    BY <1>4, <1>6, <1>7, <1>8, ChangeKeepsOrder

LEMMA OrderNext ==
  ASSUME FilesInOrder, TypeOK, ProgramInOrder, [Next]_vars
  PROVE  ProgramInOrder'
PROOF
  <1>a. /\ Count \in Nat \ {0} /\ Settings \in Document /\ Files \subseteq Document
        /\ MaxMinute \in Nat /\ MaxTemperature \in Nat
    BY SalusAssumption DEF SalusAssumption
  <1>0. ASSUME UNCHANGED <<program, seams>> PROVE ProgramInOrder'
    BY <1>0 DEF ProgramInOrder
  <1>1. ASSUME NEW up \in BOOLEAN, StepProgramHour(up) PROVE ProgramInOrder'
    BY <1>1, HourKeepsOrder
  <1>2. ASSUME NEW up \in BOOLEAN, StepProgramMinute(up) \/ StepProgramTemperature(up)
        PROVE  ProgramInOrder'
    <2> DEFINE m == [Edited EXCEPT !.minute = Step(@, 0, MaxMinute, up)]
               t == [Edited EXCEPT !.temperature = Step(@, 0, MaxTemperature, up)]
    <2>1. Edited \in ProgramItem /\ Edited.minute \in Nat /\ Edited.temperature \in Int
      BY TypeOfEdited DEF ProgramItem
    <2>2. Step(Edited.minute, 0, MaxMinute, up) \in Nat
          /\ Step(Edited.temperature, 0, MaxTemperature, up) \in Int
      BY <1>a, <2>1 DEF Step
    <2>3. m \in ProgramItem /\ t \in ProgramItem /\ m.hour = Edited.hour /\ t.hour = Edited.hour
      BY <2>1, <2>2 DEF ProgramItem
    <2>4. \A k \in Item :
            /\ k < record.number /\ (k + 1 .. record.number) \cap seams[record.week] = {}
                 => program[record.week][k].hour < Edited.hour
            /\ record.number < k /\ (record.number + 1 .. k) \cap seams[record.week] = {}
                 => Edited.hour < program[record.week][k].hour
      BY DEF ProgramInOrder, TypeOK, Edited
    <2>5. ChangeItem(m) \/ ChangeItem(t)
      BY <1>2 DEF StepProgramMinute, StepProgramTemperature
    <2> HIDE DEF m, t
    <2> QED BY <2>3, <2>4, <2>5, ChangeKeepsOrder
  <1>3. CASE resetToFactorySettings
    BY <1>3, <1>a, LoadKeepsOrder DEF resetToFactorySettings, FilesInOrder
  <1>4. CASE loadFromFile
    BY <1>4, <1>a, LoadKeepsOrder DEF loadFromFile, FilesInOrder
  <1>5. ASSUME NEW up \in BOOLEAN,
               StepHour(up) \/ StepMinute(up) \/ StepDay(up) \/ StepProgramNumber(up)
        PROVE  ProgramInOrder'
    BY <1>0, <1>5 DEF StepHour, StepMinute, StepDay, StepProgramNumber
  <1>6. CASE \/ incrementTemporaryTemperature \/ decrementTemporaryTemperature
             \/ resetTemporaryTemperature \/ StepProgramDay \/ resetProgramRecord
    BY <1>0, <1>6 DEF incrementTemporaryTemperature, decrementTemporaryTemperature,
                resetTemporaryTemperature, StepProgramDay, resetProgramRecord
  <1>7. CASE UNCHANGED vars
    BY <1>0, <1>7 DEF vars
  <1> QED
    BY <1>1, <1>2, <1>3, <1>4, <1>5, <1>6, <1>7 DEF Next

\* If the documents are in order, then for programs of any length no sequence of
\* edits, of any items, and no document, wherever it fails, brings two items of a
\* week into one hour or out of their order, unless they are on the two sides of
\* a place where a document failed and nothing was read since.
THEOREM ProgramStaysInOrder == FilesInOrder => (Spec => []ProgramInOrder)
PROOF
  <1> SUFFICES ASSUME FilesInOrder PROVE Spec => []ProgramInOrder
    OBVIOUS
  <1>1. Init => ProgramInOrder
    BY DEF Init, FilesInOrder, ProgramInOrder, InOrder
  <1>2. TypeOK /\ ProgramInOrder /\ [Next]_vars => ProgramInOrder'
    BY OrderNext
  <1> QED
    BY <1>1, <1>2, SalusTypeCorrect, PTL DEF Spec

-----------------------------------------------------------------------------
(* The program in effect.                                                  *)

MinutesOf(p) == \A w \in WeekType : \A k \in Item : p[w][k].minute <= MaxMinute

\* The documents give minutes of an hour.
FileMinutes ==
  \A doc \in Files \cup {Settings} : doc.minute <= MaxMinute /\ MinutesOf(doc.program)

MinutesInRange == minute <= MaxMinute /\ MinutesOf(program)

\* The minutes since midnight compare like hours and then minutes.
LEMMA TimesCompare ==
  ASSUME NEW M \in Nat, NEW a \in Nat, NEW b \in Nat,
         NEW x \in Nat, NEW y \in Nat, x <= M, y <= M
  PROVE  (a * (M + 1) + x < b * (M + 1) + y) <=> (a < b \/ (a = b /\ x < y))
PROOF
  <1>1. ASSUME NEW c \in Nat, NEW d \in Nat, c < d
        PROVE  c * (M + 1) + (M + 1) <= d * (M + 1)
    <2>1. PICK e \in Nat : d = c + 1 + e
      <3>1. d - c - 1 \in Nat /\ d = c + 1 + (d - c - 1)
        BY <1>1
      <3> QED BY <3>1
    <2>2. d * (M + 1) = c * (M + 1) + (M + 1) + e * (M + 1)
      BY <2>1
    <2>3. e * (M + 1) \in Nat /\ c * (M + 1) \in Nat
      OBVIOUS
    <2> HIDE <2>1
    <2> QED BY <2>2, <2>3
  <1>2. a * (M + 1) \in Nat /\ b * (M + 1) \in Nat
    OBVIOUS
  <1>3. CASE a < b
    BY <1>1, <1>2, <1>3
  <1>4. CASE b < a
    BY <1>1, <1>2, <1>4
  <1>5. CASE a = b
    BY <1>2, <1>5
  <1> QED BY <1>3, <1>4, <1>5

LEMMA LoadMinutes ==
  ASSUME TypeOK, MinutesInRange, NEW doc \in Document,
         doc.minute <= MaxMinute, MinutesOf(doc.program), loadFromXML(doc)
  PROVE  MinutesInRange'
PROOF
  <1>1. minute' <= MaxMinute
    BY DEF loadFromXML, MinutesInRange
  <1>2. \A w \in WeekType, k \in Item :
          program'[w][k].minute \in {doc.program[w][k].minute, program[w][k].minute}
    BY DEF loadFromXML
  <1> QED BY <1>1, <1>2 DEF MinutesInRange, MinutesOf

LEMMA ChangeMinutes ==
  ASSUME TypeOK, MinutesInRange, NEW i \in ProgramItem, i.minute <= MaxMinute,
         ChangeItem(i)
  PROVE  MinutesInRange'
BY DEF ChangeItem, MinutesInRange, MinutesOf, TypeOK, clock

LEMMA MinutesNext ==
  ASSUME FileMinutes, TypeOK, MinutesInRange, [Next]_vars
  PROVE  MinutesInRange'
PROOF
  <1>a. /\ Settings \in Document /\ Files \subseteq Document
        /\ MaxMinute \in Nat /\ MaxTemperature \in Nat
    BY SalusAssumption DEF SalusAssumption
  <1>0. ASSUME UNCHANGED <<minute, program>> PROVE MinutesInRange'
    BY <1>0 DEF MinutesInRange, MinutesOf
  <1>b. Edited \in ProgramItem /\ Edited.minute <= MaxMinute
    BY TypeOfEdited DEF MinutesInRange, MinutesOf, Edited, TypeOK
  <1>1. ASSUME NEW up \in BOOLEAN, StepMinute(up) PROVE MinutesInRange'
    <2>1. minute' <= MaxMinute
      BY <1>1, <1>a DEF StepMinute, Step, MinutesInRange, TypeOK
    <2> QED BY <1>1, <2>1 DEF StepMinute, MinutesInRange, MinutesOf
  <1>2. ASSUME NEW up \in BOOLEAN, NEW low, NEW high,
               ChangeItem([Edited EXCEPT !.hour = Step(@, low, high, up)])
        PROVE  MinutesInRange'
    <2> DEFINE i == [Edited EXCEPT !.hour = Step(@, low, high, up)]
    <2>1. i.minute <= MaxMinute
      BY <1>b DEF ProgramItem
    <2>2. \A w \in WeekType, k \in Item :
            program'[w][k] = IF w = record.week /\ k = record.number THEN i ELSE program[w][k]
      BY <1>2 DEF ChangeItem, TypeOK
    <2>3. minute' = minute
      BY <1>2 DEF ChangeItem, clock
    <2> HIDE DEF i
    <2> QED BY <2>1, <2>2, <2>3 DEF MinutesInRange, MinutesOf
  <1>3. ASSUME NEW up \in BOOLEAN, StepProgramHour(up) PROVE MinutesInRange'
    BY <1>2, <1>3 DEF StepProgramHour
  <1>4. ASSUME NEW up \in BOOLEAN, StepProgramMinute(up) PROVE MinutesInRange'
    <2> DEFINE i == [Edited EXCEPT !.minute = Step(@, 0, MaxMinute, up)]
    <2>1. Edited.minute \in Nat
      BY <1>b DEF ProgramItem
    <2>2. Step(Edited.minute, 0, MaxMinute, up) \in Nat
          /\ Step(Edited.minute, 0, MaxMinute, up) <= MaxMinute
      BY <1>a, <1>b, <2>1 DEF Step
    <2>3. i \in ProgramItem /\ i.minute <= MaxMinute
      BY <1>b, <2>2 DEF ProgramItem
    <2>4. ChangeItem(i)
      BY <1>4 DEF StepProgramMinute
    <2> HIDE DEF i
    <2> QED BY <2>3, <2>4, ChangeMinutes
  <1>5. ASSUME NEW up \in BOOLEAN, StepProgramTemperature(up) PROVE MinutesInRange'
    <2> DEFINE i == [Edited EXCEPT !.temperature = Step(@, 0, MaxTemperature, up)]
    <2>1. i \in ProgramItem /\ i.minute <= MaxMinute
      BY <1>a, <1>b DEF ProgramItem, Step
    <2>2. ChangeItem(i)
      BY <1>5 DEF StepProgramTemperature
    <2> HIDE DEF i
    <2> QED BY <2>1, <2>2, ChangeMinutes
  <1>6. CASE resetToFactorySettings
    BY <1>6, <1>a, LoadMinutes DEF resetToFactorySettings, FileMinutes
  <1>7. CASE loadFromFile
    BY <1>7, <1>a, LoadMinutes DEF loadFromFile, FileMinutes
  <1>8. ASSUME NEW up \in BOOLEAN, StepHour(up) \/ StepDay(up) \/ StepProgramNumber(up)
        PROVE  MinutesInRange'
    BY <1>0, <1>8 DEF StepHour, StepDay, StepProgramNumber, clock
  <1>9. CASE \/ incrementTemporaryTemperature \/ decrementTemporaryTemperature
             \/ resetTemporaryTemperature \/ StepProgramDay \/ resetProgramRecord
             \/ UNCHANGED vars
    BY <1>0, <1>9 DEF incrementTemporaryTemperature, decrementTemporaryTemperature,
         resetTemporaryTemperature, StepProgramDay, resetProgramRecord, vars, clock
  <1> QED
    BY <1>1, <1>3, <1>4, <1>5, <1>6, <1>7, <1>8, <1>9 DEF Next

\* The search from the end is right when the program of the day has no seam, for
\* then its items are in their order.
LEMMA SearchIsRight ==
  ASSUME TypeOK, ProgramInOrder, MinutesInRange
  PROVE  CurrentStartedLast
PROOF
  <1> SUFFICES ASSUME seams[WeekOf(day)] = {} PROVE CurrentStartedLast
    BY DEF CurrentStartedLast
  <1> DEFINE week  == program[WeekOf(day)]
             At(k) == week[k].hour * (MaxMinute + 1) + week[k].minute
             now   == hour * (MaxMinute + 1) + minute
             past  == {k \in Item : At(k) < now}
             c     == CurrentNumber
  <1>a. MaxMinute \in Nat /\ Count \in Nat \ {0}
    BY SalusAssumption DEF SalusAssumption
  <1>b. Item \subseteq Nat
    BY DEF Item
  <1>1. WeekOf(day) \in WeekType
    BY DEF WeekOf, WeekType
  <1>2. \A k \in Item : /\ week[k].hour \in Nat /\ week[k].minute \in Nat
                        /\ week[k].minute <= MaxMinute
    BY <1>1 DEF TypeOK, ProgramItem, MinutesInRange, MinutesOf
  <1>3. hour \in Nat /\ minute \in Nat /\ minute <= MaxMinute
    BY DEF TypeOK, MinutesInRange
  <1>4. \A k \in Item : k \in past <=> Started(k)
    <2> SUFFICES ASSUME NEW k \in Item PROVE At(k) < now <=> Started(k)
      OBVIOUS
    <2>1. At(k) < now <=> (week[k].hour < hour
                            \/ (week[k].hour = hour /\ week[k].minute < minute))
      <3> DEFINE a == week[k].hour
                 x == week[k].minute
      <3>1. a \in Nat /\ x \in Nat /\ x <= MaxMinute
        BY <1>2
      <3>2. At(k) = a * (MaxMinute + 1) + x
        OBVIOUS
      <3> HIDE DEF a, x, At, week
      <3>3. (a * (MaxMinute + 1) + x < hour * (MaxMinute + 1) + minute)
              <=> (a < hour \/ (a = hour /\ x < minute))
        BY <1>a, <1>3, <3>1, TimesCompare
      <3> USE DEF a, x
      <3> QED BY <3>2, <3>3
    <2>2. Started(k) <=> (week[k].hour < hour
                            \/ (week[k].hour = hour /\ week[k].minute < minute))
      BY <1>2, <1>3 DEF Started
    <2> HIDE DEF week, At, now
    <2> QED BY <2>1, <2>2
  <1>5. \A j, k \in Item : j < k => At(j) <= At(k)
    <2> SUFFICES ASSUME NEW j \in Item, NEW k \in Item, j < k PROVE At(j) <= At(k)
      OBVIOUS
    <2>1. week[j].hour < week[k].hour
      BY <1>1 DEF ProgramInOrder
    <2>2. At(j) < At(k)
      <3> HIDE DEF week
      <3> QED BY <1>a, <1>2, <2>1, TimesCompare
    <2>3. At(j) \in Nat /\ At(k) \in Nat
      <3> HIDE DEF week
      <3> QED BY <1>a, <1>2
    <2> HIDE DEF At
    <2> QED BY <2>2, <2>3
  <1>6. \A k \in Item : At(k) <= At(k)
    <2> HIDE DEF week
    <2> QED BY <1>a, <1>2
  <1>7. c \in Item
    BY CurrentIsLastStarted
  <1>8. CASE past # {}
    <2>1. Started(c) /\ \A j \in Item : j > c => ~Started(j)
      BY <1>4, <1>8, CurrentIsLastStarted
    <2>2. c \in past
      BY <1>4, <1>7, <2>1
    <2>3. \A k \in past : k = c \/ k < c
      <3> HIDE DEF c
      <3> QED BY <1>4, <1>b, <1>7, <2>1
    <2>4. \A k \in past : At(k) <= At(c)
      <3> HIDE DEF c, At
      <3> QED BY <1>5, <1>6, <1>7, <2>3
    <2> QED BY <1>8, <2>2, <2>4 DEF CurrentStartedLast
  <1>9. CASE past = {}
    <2>1. c = LastItem
      BY <1>4, <1>9, CurrentIsLastStarted
    <2>2. \A k \in Item : k = c \/ k < c
      BY <1>a, <2>1 DEF Item, LastItem
    <2>3. \A k \in Item : At(k) <= At(c)
      <3> HIDE DEF c, At
      <3> QED BY <1>5, <1>6, <1>7, <2>2
    <2> QED BY <1>9, <2>3 DEF CurrentStartedLast
  <1> QED BY <1>8, <1>9

\* If the documents are in order and have minutes below an hour, the item in effect
\* is the one that started last, or the last of the week's when none has started,
\* whenever the program of the day has no seam: for any number of items, any edits
\* of clock and items, and documents that fail anywhere but inside that program.
THEOREM EffectIsLastStarted == FilesInOrder /\ FileMinutes => (Spec => []CurrentStartedLast)
PROOF
  <1> SUFFICES ASSUME FilesInOrder, FileMinutes PROVE Spec => []CurrentStartedLast
    OBVIOUS
  <1>1. Init => MinutesInRange
    BY DEF Init, FileMinutes, MinutesInRange
  <1>2. TypeOK /\ MinutesInRange /\ [Next]_vars => MinutesInRange'
    BY MinutesNext
  <1>3. TypeOK /\ ProgramInOrder /\ MinutesInRange => CurrentStartedLast
    BY SearchIsRight
  <1>4. Spec => []ProgramInOrder
    BY ProgramStaysInOrder
  <1> QED
    BY <1>1, <1>2, <1>3, <1>4, SalusTypeCorrect, PTL DEF Spec

(***************************************************************************)
(* The window of the thermostat.                                           *)
(***************************************************************************)

\* The names of the states around a state of the chart, and what has them.
Name == {"On", "Test", "Operative", "DisplayFunctional", "DisplayNormal",
         "DisplayTemporary", "ProgSetup"}
Names(c, depth) == {Path[c][i] : i \in 1 .. depth}
Around(c) == Names(c, Len(Path[c]))

\* Every path is one of names, "Operative" is the second, "DisplayFunctional" the
\* third, and the displays have all three outside.
LEMMA PathsAreSeqs ==
  ASSUME NEW c \in ChartState
  PROVE  Path[c] \in Seq(Name)
PROOF
  <1>1. /\ Path["Off"] \in Seq(Name) /\ Path["Test"] \in Seq(Name)
        /\ Path["SleepMode"] \in Seq(Name) /\ Path["DisplayNormal"] \in Seq(Name)
        /\ Path["DisplayTemporary"] \in Seq(Name) /\ Path["TimeSetup"] \in Seq(Name)
        /\ Path["ProgSetup"] \in Seq(Name)
    BY DEF Path, Name
  <1> QED
    BY <1>1 DEF ChartState, Path

\* A path has four states at most, each with its place in it.
LEMMA PathFacts ==
  ASSUME NEW c \in ChartState
  PROVE  /\ Len(Path[c]) \in 0 .. 4
         /\ \A i \in 1 .. Len(Path[c]) :
              /\ i = 1 => Path[c][i] = "On"
              /\ i = 2 => Path[c][i] \in {"Test", "Operative"}
              /\ i = 3 => Path[c][i] \in {"DisplayFunctional", "ProgSetup"}
              /\ i = 4 => /\ Path[c][i] = c /\ c \in {"DisplayNormal", "DisplayTemporary"}
                          /\ Path[c][3] = "DisplayFunctional"
         /\ Len(Path[c]) < 4 => c \notin {"DisplayNormal", "DisplayTemporary"}
         /\ c # "Off" => Len(Path[c]) >= 1
         /\ c \in Operative <=> Len(Path[c]) >= 2 /\ Path[c][2] = "Operative"
PROOF
  <1>0. CASE c = "Off"
    BY <1>0 DEF Path, Operative, Functional
  <1>1. CASE c = "Test"
    BY <1>1 DEF Path, Operative, Functional
  <1>2. CASE c = "SleepMode"
    BY <1>2 DEF Path, Operative, Functional
  <1>3. CASE c = "DisplayNormal"
    BY <1>3 DEF Path, Operative, Functional
  <1>4. CASE c = "DisplayTemporary"
    BY <1>4 DEF Path, Operative, Functional
  <1>5. CASE c = "TimeSetup"
    BY <1>5 DEF Path, Operative, Functional
  <1>6. CASE c = "ProgSetup"
    BY <1>6 DEF Path, Operative, Functional
  <1> QED
    BY <1>0, <1>1, <1>2, <1>3, <1>4, <1>5, <1>6 DEF ChartState, Path

\* What the path of each state has in it.
LEMMA AroundFacts ==
  ASSUME NEW c \in ChartState
  PROVE  /\ "DisplayNormal" \in Around(c) <=> c = "DisplayNormal"
         /\ "DisplayTemporary" \in Around(c) <=> c = "DisplayTemporary"
         /\ "DisplayFunctional" \in Around(c) <=> c \in Functional
         /\ "Operative" \in Around(c) <=> c \in Operative
         /\ "Test" \in Around(c) <=> c = "Test"
PROOF
  <1>0. CASE c = "Off"
    BY <1>0 DEF Path, Around, Names, Functional, Operative
  <1>1. CASE c = "Test"
    BY <1>1 DEF Path, Around, Names, Functional, Operative
  <1>2. CASE c = "SleepMode"
    BY <1>2 DEF Path, Around, Names, Functional, Operative
  <1>3. CASE c = "DisplayNormal"
    BY <1>3 DEF Path, Around, Names, Functional, Operative
  <1>4. CASE c = "DisplayTemporary"
    BY <1>4 DEF Path, Around, Names, Functional, Operative
  <1>5. CASE c = "TimeSetup"
    BY <1>5 DEF Path, Around, Names, Functional, Operative
  <1>6. CASE c = "ProgSetup"
    BY <1>6 DEF Path, Around, Names, Functional, Operative
  <1> QED
    BY <1>0, <1>1, <1>2, <1>3, <1>4, <1>5, <1>6 DEF ChartState, Path

\* The notifications of what is exited outside the first d states, the innermost first.
LEMMA ExitedFacts ==
  ASSUME NEW c \in ChartState, NEW d \in 0 .. Len(Path[c])
  PROVE  LET p == SubSeq(Path[c], d + 1, Len(Path[c]))
         IN  /\ Exited(p) \in Seq(Note)
             /\ Len(Exited(p)) = Len(Path[c]) - d
             /\ \A i \in 1 .. Len(Path[c]) - d : Exited(p)[i] = Left(Path[c][Len(Path[c]) + 1 - i])
PROOF
  <1> DEFINE p == SubSeq(Path[c], d + 1, Len(Path[c]))
  <1>1. Path[c] \in Seq(Name) /\ Len(Path[c]) \in Nat
    BY PathsAreSeqs, PathFacts
  <1>2. /\ p \in Seq(Name) /\ Len(p) = Len(Path[c]) - d
        /\ \A i \in 1 .. Len(p) : p[i] = Path[c][d + i]
    <2> HIDE DEF p
    <2> QED BY <1>1 DEF p
  <1>3. /\ Reverse(p) = [i \in 1 .. Len(p) |-> p[Len(p) - i + 1]]
    BY DEF Reverse
  <1>4. /\ Exited(p) = [i \in 1 .. Len(p) |-> Left(p[Len(p) - i + 1])]
    <2> HIDE DEF p
    <2> QED BY <1>2, <1>3 DEF Exited, Left
  <1>5. /\ \A i \in 1 .. Len(p) : Len(p) - i + 1 \in 1 .. Len(p)
    <2> HIDE DEF p
    <2> QED BY <1>1, <1>2
  <1>6. \A i \in 1 .. Len(p) : p[i] \in Name
    <2> HIDE DEF p
    <2> QED BY <1>2
  <1>7. \A i \in 1 .. Len(p) : Left(p[Len(p) - i + 1]) \in Note
    <2> HIDE DEF p
    <2> QED BY <1>5, <1>6 DEF Left, Note, Name
  <1>8. Exited(p) \in Seq(Note) /\ Len(Exited(p)) = Len(p)
    <2> HIDE DEF p
    <2> QED BY <1>2, <1>4, <1>7
  <1>9. ASSUME NEW i \in 1 .. Len(Path[c]) - d
        PROVE  Exited(p)[i] = Left(Path[c][Len(Path[c]) + 1 - i])
    <2>1. i \in 1 .. Len(p) /\ Len(p) - i + 1 \in 1 .. Len(p)
      <3> HIDE DEF p
      <3> QED BY <1>1, <1>2
    <2>2. Exited(p)[i] = Left(p[Len(p) - i + 1])
      <3> HIDE DEF p
      <3> QED BY <1>4, <2>1
    <2>3. d + (Len(p) - i + 1) = Len(Path[c]) + 1 - i
      <3> HIDE DEF p
      <3> QED BY <1>1, <1>2
    <2> HIDE DEF p
    <2> QED BY <1>2, <2>1, <2>2, <2>3
  <1> HIDE DEF p
  <1> QED
    BY <1>2, <1>8, <1>9 DEF p

\* The notifications of what is entered inside the first d states, the outermost first.
LEMMA EnteredFacts ==
  ASSUME NEW c \in ChartState, NEW d \in 0 .. Len(Path[c])
  PROVE  LET p == SubSeq(Path[c], d + 1, Len(Path[c]))
         IN  /\ Entered(p) \in Seq(Note)
             /\ Len(Entered(p)) = Len(Path[c]) - d
             /\ \A i \in 1 .. Len(Path[c]) - d : Entered(p)[i] = Changed(Path[c][d + i])
PROOF
  <1> DEFINE p == SubSeq(Path[c], d + 1, Len(Path[c]))
  <1>1. Path[c] \in Seq(Name) /\ Len(Path[c]) \in Nat
    BY PathsAreSeqs, PathFacts
  <1>2. /\ p \in Seq(Name) /\ Len(p) = Len(Path[c]) - d
        /\ \A i \in 1 .. Len(p) : p[i] = Path[c][d + i]
    <2> HIDE DEF p
    <2> QED BY <1>1 DEF p
  <1>4. Entered(p) = [i \in 1 .. Len(p) |-> Changed(p[i])]
    <2> HIDE DEF p
    <2> QED BY <1>2 DEF Entered, Changed
  <1>6. \A i \in 1 .. Len(p) : p[i] \in Name
    <2> HIDE DEF p
    <2> QED BY <1>2
  <1>7. \A i \in 1 .. Len(p) : Changed(p[i]) \in Note
    <2> HIDE DEF p
    <2> QED BY <1>6 DEF Changed, Note, Name
  <1>8. Entered(p) \in Seq(Note) /\ Len(Entered(p)) = Len(p)
    <2> HIDE DEF p
    <2>1. Len(p) \in Nat
      BY <1>1, <1>2
    <2>2. [i \in 1 .. Len(p) |-> Changed(p[i])] \in Seq(Note)
      BY <2>1, <1>7
    <2>3. Len([i \in 1 .. Len(p) |-> Changed(p[i])]) = Len(p)
      BY <2>1
    <2> QED BY <1>4, <2>2, <2>3, Zenon
  <1> HIDE DEF p
  <1> QED
    BY <1>2, <1>4, <1>8 DEF p

\* What the notifications have told so far: the states that the chart is in, that
\* the mode was flipped by an event since DisplayNormal was entered, that an event
\* came outside DisplayNormal, and that the chart has left Operative.
After(note, a) ==
  [told   |-> IF note.kind = "enter" THEN a.told \cup {note.name}
              ELSE IF note.kind = "exit" THEN a.told \ {note.name} ELSE a.told,
   flip   |-> IF note.kind = "event" THEN a.flip \/ "DisplayNormal" \in a.told
              ELSE a.flip /\ note # Left("DisplayNormal"),
   late   |-> a.late \/ (note.kind = "event" /\ "DisplayNormal" \notin a.told),
   asleep |-> (a.asleep /\ note # Changed("Operative")) \/ note = Left("Operative")]

\* The chart tells a state and the states inside it in an order that the window
\* relies on.
Legal(note, a) ==
  /\ note = Changed("DisplayNormal") => "DisplayNormal" \notin a.told
  /\ note = Changed("DisplayTemporary") =>
       "DisplayNormal" \notin a.told /\ "DisplayFunctional" \in a.told
  /\ note = Left("DisplayFunctional") =>
       "DisplayNormal" \notin a.told /\ "DisplayTemporary" \notin a.told
  /\ note.kind = "event" /\ "DisplayNormal" \in a.told =>
       "DisplayTemporary" \notin a.told /\ "DisplayFunctional" \in a.told

IsRun(q, ns, a, b) ==
  /\ q[0] = a /\ q[Len(ns)] = b
  /\ \A i \in 1 .. Len(ns) : Legal(ns[i], q[i - 1]) /\ q[i] = After(ns[i], q[i - 1])

\* The notifications ns, in their order, lead from a to b.
Leads(ns, a, b) == \E q : IsRun(q, ns, a, b)

\* No notification changes nothing, and one what it tells.
LEMMA NothingLeads ==
  ASSUME NEW a, NEW b
  PROVE  Leads(<<>>, a, b) <=> a = b
PROOF
  <1>1. Leads(<<>>, a, b) => a = b
    BY DEF Leads, IsRun
  <1>2. ASSUME a = b  PROVE Leads(<<>>, a, b)
    <2>1. IsRun([i \in {0} |-> a], <<>>, a, b)
      BY <1>2 DEF IsRun
    <2> QED BY <2>1, Zenon DEF Leads
  <1> QED
    BY <1>1, <1>2

LEMMA OneLeads ==
  ASSUME NEW note, NEW a, Legal(note, a)
  PROVE  Leads(<<note>>, a, After(note, a))
PROOF
  <1> DEFINE b == After(note, a)
  <1>2. IsRun([i \in {0, 1} |-> IF i = 0 THEN a ELSE b], <<note>>, a, b)
    <2> HIDE DEF b
    <2>0. b = After(note, a) BY DEF b
    <2> QED BY <2>0 DEF IsRun
  <1> QED
    BY <1>2, Zenon DEF Leads

\* Notifications that come after others go on from where those lead.
LEMMA LeadsOn ==
  ASSUME NEW S, NEW ns \in Seq(S), NEW ms \in Seq(S), NEW a, NEW b, NEW c,
         Leads(ns, a, b), Leads(ms, b, c)
  PROVE  Leads(ns \o ms, a, c)
PROOF
  <1>1. PICK q : IsRun(q, ns, a, b)
    BY Zenon DEF Leads
  <1>2. PICK r : IsRun(r, ms, b, c)
    BY Zenon DEF Leads
  <1> DEFINE l == Len(ns)
             s == [i \in 0 .. Len(ns \o ms) |-> IF i <= l THEN q[i] ELSE r[i - l]]
  <1>3. /\ l \in Nat /\ Len(ms) \in Nat /\ Len(ns \o ms) = l + Len(ms)
        /\ \A i \in 1 .. l : (ns \o ms)[i] = ns[i]
        /\ \A i \in l + 1 .. l + Len(ms) : (ns \o ms)[i] = ms[i - l]
    OBVIOUS
  <1>4. q[0] = a /\ q[l] = b /\ r[0] = b /\ r[Len(ms)] = c
    BY <1>1, <1>2 DEF IsRun
  <1>5. s[0] = a /\ s[Len(ns \o ms)] = c
    <2> HIDE DEF l
    <2> QED BY <1>3, <1>4
  <1>6. ASSUME NEW i \in 1 .. Len(ns \o ms)
        PROVE  Legal((ns \o ms)[i], s[i - 1]) /\ s[i] = After((ns \o ms)[i], s[i - 1])
    <2>1. CASE i <= l
      <3>1. i \in 1 .. l /\ s[i] = q[i] /\ s[i - 1] = q[i - 1] /\ (ns \o ms)[i] = ns[i]
        <4> HIDE DEF l
        <4> QED BY <2>1, <1>3
      <3>2. Legal(ns[i], q[i - 1]) /\ q[i] = After(ns[i], q[i - 1])
        BY <1>1, <3>1 DEF IsRun
      <3> QED BY <3>1, <3>2, Zenon
    <2>2. CASE i > l
      <3>1. /\ i - l \in 1 .. Len(ms) /\ s[i] = r[i - l] /\ (ns \o ms)[i] = ms[i - l]
            /\ s[i - 1] = r[i - l - 1]
        <4> HIDE DEF l
        <4> QED BY <2>2, <1>3, <1>4
      <3>2. Legal(ms[i - l], r[i - l - 1]) /\ r[i - l] = After(ms[i - l], r[i - l - 1])
        BY <1>2, <3>1 DEF IsRun
      <3> QED BY <3>1, <3>2, Zenon
    <2> QED
      <3> HIDE DEF l
      <3> QED BY <2>1, <2>2, <1>3
  <1>7. IsRun(s, ns \o ms, a, c)
    <2> HIDE DEF s, l
    <2> QED BY <1>5, <1>6, Zenon DEF IsRun
  <1> QED
    BY <1>7, Zenon DEF Leads

\* Once the first notification is taken, the rest leads on from what it told.
LEMMA LeadsPastHead ==
  ASSUME NEW S, NEW ns \in Seq(S), ns # <<>>, NEW a, NEW b, Leads(ns, a, b)
  PROVE  Legal(Head(ns), a) /\ Leads(Tail(ns), After(Head(ns), a), b)
PROOF
  <1>1. PICK q : IsRun(q, ns, a, b)
    BY Zenon DEF Leads
  <1> DEFINE s == [i \in 0 .. Len(ns) - 1 |-> q[i + 1]]
  <1>2. /\ Len(ns) \in Nat /\ Len(ns) >= 1 /\ Len(Tail(ns)) = Len(ns) - 1
        /\ Head(ns) = ns[1]
        /\ \A i \in 1 .. Len(ns) - 1 : Tail(ns)[i] = ns[i + 1]
    OBVIOUS
  <1>3. Legal(Head(ns), a) /\ q[1] = After(Head(ns), a)
    <2>1. 1 \in 1 .. Len(ns) /\ 1 - 1 = 0
      BY <1>2
    <2>2. Legal(ns[1], q[1 - 1]) /\ q[1] = After(ns[1], q[1 - 1])
      BY <1>1, <2>1 DEF IsRun
    <2>3. q[1 - 1] = a
      BY <1>1, <2>1 DEF IsRun
    <2> QED BY <2>2, <2>3, <1>2
  <1>4. s[0] = After(Head(ns), a) /\ s[Len(Tail(ns))] = b
    <2>1. q[Len(ns)] = b
      BY <1>1 DEF IsRun
    <2>2. s[0] = q[1] /\ s[Len(Tail(ns))] = q[Len(ns)]
      BY <1>2
    <2> QED BY <2>1, <2>2, <1>3
  <1>5. ASSUME NEW i \in 1 .. Len(Tail(ns))
        PROVE  Legal(Tail(ns)[i], s[i - 1]) /\ s[i] = After(Tail(ns)[i], s[i - 1])
    <2>1. /\ i + 1 \in 1 .. Len(ns) /\ s[i] = q[i + 1] /\ s[i - 1] = q[i + 1 - 1]
          /\ Tail(ns)[i] = ns[i + 1]
      BY <1>2
    <2>2. Legal(ns[i + 1], q[i + 1 - 1]) /\ q[i + 1] = After(ns[i + 1], q[i + 1 - 1])
      BY <1>1, <2>1 DEF IsRun
    <2> QED BY <2>1, <2>2, Zenon
  <1>6. IsRun(s, Tail(ns), After(Head(ns), a), b)
    <2> HIDE DEF s
    <2> QED BY <1>4, <1>5, Zenon DEF IsRun
  <1> QED
    BY <1>3, <1>6, Zenon DEF Leads

\* What can be told, by its parts.
Heard(told, flip, late, asleep) ==
  [told |-> told, flip |-> flip, late |-> late, asleep |-> asleep]

\* The innermost of the first j states is exited, or entered.
LEMMA ExitOne ==
  ASSUME NEW c \in ChartState, NEW j \in 1 .. Len(Path[c]),
         NEW f \in BOOLEAN, NEW l \in BOOLEAN, NEW z \in BOOLEAN
  PROVE  LET a == Heard(Names(c, j), f, l, z)
             note == Left(Path[c][j])
         IN  /\ Legal(note, a)
             /\ After(note, a) = Heard(Names(c, j - 1), f /\ Path[c][j] # "DisplayNormal", l,
                                      z \/ Path[c][j] = "Operative")
PROOF
  <1>1. Len(Path[c]) \in 0 .. 4
    BY PathFacts
  <1>2. \A i, k \in 1 .. Len(Path[c]) : Path[c][i] = Path[c][k] => i = k
    BY PathFacts
  <1>3. Names(c, j) \ {Path[c][j]} = Names(c, j - 1)
    BY <1>1, <1>2 DEF Names
  <1>4. Path[c][j] = "DisplayFunctional" =>
          "DisplayNormal" \notin Names(c, j) /\ "DisplayTemporary" \notin Names(c, j)
    <2>1. Path[c][j] = "DisplayFunctional" => j = 3
      BY <1>1, PathFacts
    <2>2. \A i \in 1 .. 3 : i <= Len(Path[c]) =>
            Path[c][i] \notin {"DisplayNormal", "DisplayTemporary"}
      BY PathFacts
    <2> QED BY <2>1, <2>2, <1>1 DEF Names
  <1> DEFINE N == Names(c, j)
             M == Names(c, j - 1)
             x == Path[c][j]
  <1>5. N \ {x} = M /\ (x = "DisplayFunctional" =>
          "DisplayNormal" \notin N /\ "DisplayTemporary" \notin N)
    BY <1>3, <1>4
  <1> HIDE DEF N, M, x
  <1>6. Legal(Left(x), Heard(N, f, l, z))
    BY <1>5 DEF Legal, Left, Changed, Heard
  <1>7. After(Left(x), Heard(N, f, l, z)) = Heard(M, f /\ x # "DisplayNormal", l, z \/ x = "Operative")
    BY <1>5 DEF After, Left, Changed, Heard
  <1> QED
    BY <1>6, <1>7 DEF N, M, x

LEMMA EnterOne ==
  ASSUME NEW c \in ChartState, NEW j \in 1 .. Len(Path[c]),
         NEW l \in BOOLEAN, NEW z \in BOOLEAN
  PROVE  LET a == Heard(Names(c, j - 1), FALSE, l, z)
             note == Changed(Path[c][j])
         IN  /\ Legal(note, a)
             /\ After(note, a) = Heard(Names(c, j), FALSE, l, z /\ Path[c][j] # "Operative")
PROOF
  <1>1. Len(Path[c]) \in 0 .. 4
    BY PathFacts
  <1>3. Names(c, j - 1) \cup {Path[c][j]} = Names(c, j)
    BY <1>1 DEF Names
  <1>4. Path[c][j] \in {"DisplayNormal", "DisplayTemporary"} =>
          /\ "DisplayNormal" \notin Names(c, j - 1)
          /\ "DisplayFunctional" \in Names(c, j - 1)
    <2>1. Path[c][j] \in {"DisplayNormal", "DisplayTemporary"} => j = 4
      BY <1>1, PathFacts
    <2>2. /\ j = 4 => Path[c][3] = "DisplayFunctional"
          /\ \A i \in 1 .. 3 : i <= Len(Path[c]) => Path[c][i] # "DisplayNormal"
      BY PathFacts
    <2> QED BY <2>1, <2>2, <1>1 DEF Names
  <1> DEFINE N == Names(c, j)
             M == Names(c, j - 1)
             x == Path[c][j]
  <1>5. M \cup {x} = N /\ (x \in {"DisplayNormal", "DisplayTemporary"} =>
          "DisplayNormal" \notin M /\ "DisplayFunctional" \in M)
    BY <1>3, <1>4
  <1> HIDE DEF N, M, x
  <1>6. Legal(Changed(x), Heard(M, FALSE, l, z))
    BY <1>5 DEF Legal, Left, Changed, Heard
  <1>7. After(Changed(x), Heard(M, FALSE, l, z)) = Heard(N, FALSE, l, z /\ x # "Operative")
    BY <1>5 DEF After, Left, Changed, Heard
  <1> QED
    BY <1>6, <1>7 DEF N, M, x

\* What a transition exits tells, one state after the other, that the chart is only
\* in the states outside the transition, and that it has left Operative if it has.
LEMMA ExitsLead ==
  ASSUME NEW c \in ChartState, NEW d \in 0 .. Len(Path[c]),
         NEW f \in BOOLEAN, NEW l \in BOOLEAN, NEW z \in BOOLEAN,
         f => c = "DisplayNormal" /\ d <= 3
  PROVE  Leads(Exited(SubSeq(Path[c], d + 1, Len(Path[c]))), Heard(Around(c), f, l, z),
               Heard(Names(c, d), FALSE, l, z \/ (d <= 1 /\ c \in Operative)))
PROOF
  <1> DEFINE L == Len(Path[c])
             ns == Exited(SubSeq(Path[c], d + 1, L))
             op == c \in Operative
             q == [i \in 0 .. L - d |->
                     Heard(Names(c, L - i), f /\ i = 0, l, z \/ (L - i <= 1 /\ op))]
  <1>1. L \in 0 .. 4 /\ op \in BOOLEAN
    BY PathFacts
  <1>2. Len(ns) = L - d /\ \A i \in 1 .. L - d : ns[i] = Left(Path[c][L + 1 - i])
    BY ExitedFacts
  <1>3. op => L >= 2
    BY PathFacts
  <1>4. (f => L = 4) /\ d \in 0 .. L
    BY PathFacts
  <1>5. q[0] = Heard(Around(c), f, l, z)
    <2>1. 0 \in 0 .. L - d /\ L - 0 = L /\ ~(L <= 1 /\ op)
      BY <1>1, <1>3
    <2>2. q[0] = Heard(Names(c, L - 0), f /\ 0 = 0, l, z \/ (L - 0 <= 1 /\ op))
      <3> HIDE DEF L, op
      <3> QED BY <2>1
    <2>3. (f /\ 0 = 0) = f /\ (z \/ (L - 0 <= 1 /\ op)) = z
      <3> HIDE DEF L, op
      <3> QED BY <2>1
    <2>4. Names(c, L - 0) = Around(c)
      BY <2>1 DEF Around
    <2> HIDE DEF q, L, op
    <2> QED BY <2>2, <2>3, <2>4, Zenon
  <1>6. q[L - d] = Heard(Names(c, d), FALSE, l, z \/ (d <= 1 /\ op))
    <2>1. L - d \in 0 .. L - d /\ L - (L - d) = d /\ ~(f /\ L - d = 0)
      <3> HIDE DEF L, op
      <3> QED BY <1>1, <1>4
    <2>2. q[L - d] = Heard(Names(c, L - (L - d)), f /\ L - d = 0, l,
                           z \/ (L - (L - d) <= 1 /\ op))
      <3> HIDE DEF L, op
      <3> QED BY <2>1
    <2>3. (f /\ L - d = 0) = FALSE
      <3> HIDE DEF L, op
      <3> QED BY <2>1
    <2> HIDE DEF q, L, op
    <2> QED BY <2>1, <2>2, <2>3, Zenon
  <1>7. ASSUME NEW i \in 1 .. L - d
        PROVE  Legal(ns[i], q[i - 1]) /\ q[i] = After(ns[i], q[i - 1])
    <2> DEFINE j == L + 1 - i
               g == f /\ i - 1 = 0
               y == z \/ (j <= 1 /\ op)
    <2>1. j \in 1 .. L /\ L - (i - 1) = j /\ L - i = j - 1
          /\ i - 1 \in 0 .. L - d /\ i \in 0 .. L - d /\ i # 0
      <3> HIDE DEF L
      <3> QED BY <1>1
    <2>2. q[i - 1] = Heard(Names(c, j), g, l, y)
      <3>1. q[i - 1] = Heard(Names(c, L - (i - 1)), f /\ i - 1 = 0, l,
                             z \/ (L - (i - 1) <= 1 /\ op))
        <4> HIDE DEF L, op, j
        <4> QED BY <2>1
      <3> HIDE DEF q, L, op, j
      <3> QED BY <3>1, <2>1, Zenon
    <2>3. q[i] = Heard(Names(c, j - 1), FALSE, l, z \/ (j - 1 <= 1 /\ op))
      <3>1. q[i] = Heard(Names(c, L - i), f /\ i = 0, l, z \/ (L - i <= 1 /\ op))
        <4> HIDE DEF L, op, j
        <4> QED BY <2>1
      <3>2. (f /\ i = 0) = FALSE
        BY <2>1
      <3> HIDE DEF q, L, op, j
      <3> QED BY <3>1, <3>2, <2>1, Zenon
    <2>4. ns[i] = Left(Path[c][j])
      BY <1>2
    <2>5. /\ Legal(Left(Path[c][j]), Heard(Names(c, j), g, l, y))
          /\ After(Left(Path[c][j]), Heard(Names(c, j), g, l, y))
               = Heard(Names(c, j - 1), g /\ Path[c][j] # "DisplayNormal", l,
                       y \/ Path[c][j] = "Operative")
      <3>1. g \in BOOLEAN /\ y \in BOOLEAN
        OBVIOUS
      <3> HIDE DEF j, g, y
      <3> QED BY <3>1, <2>1, ExitOne
    <2>6. (g /\ Path[c][j] # "DisplayNormal") = FALSE
      <3>1. g => j = 4 /\ c = "DisplayNormal" /\ L = 4
        <4> HIDE DEF L
        <4> QED BY <1>1, <1>4
      <3>2. L = 4 => Path[c][4] = c
        BY PathFacts
      <3> HIDE DEF j, g
      <3> QED BY <3>1, <3>2
    <2>7. (y \/ Path[c][j] = "Operative") = (z \/ (j - 1 <= 1 /\ op))
      <3>1. Path[c][j] = "Operative" <=> j = 2 /\ op
        <4> HIDE DEF j
        <4> QED BY <1>1, <2>1, PathFacts
      <3>2. j \in 1 .. 4
        <4> HIDE DEF j, L
        <4> QED BY <1>1, <2>1
      <3>3. op \in BOOLEAN
        OBVIOUS
      <3> DEFINE w == Path[c][j] = "Operative"
      <3> HIDE DEF j, op
      <3>4. w <=> j = 2 /\ op
        BY <3>1
      <3>5. w \in BOOLEAN
        OBVIOUS
      <3> HIDE DEF w
      <3>6. (j <= 1 /\ op) \/ w <=> (j - 1 <= 1 /\ op)
        BY <3>2, <3>3, <3>4, <3>5
      <3> QED BY <3>6 DEF w
    <2> HIDE DEF q, ns, j, g, y, op, L
    <2> QED BY <2>2, <2>3, <2>4, <2>5, <2>6, <2>7, Zenon
  <1>8. IsRun(q, ns, Heard(Around(c), f, l, z), Heard(Names(c, d), FALSE, l, z \/ (d <= 1 /\ op)))
    <2> HIDE DEF q, ns, L, op
    <2> QED BY <1>2, <1>5, <1>6, <1>7 DEF IsRun
  <1> QED
    <2> HIDE DEF q
    <2> QED BY <1>8, Zenon DEF Leads

\* What a transition enters tells, one state after the other, that the chart is in
\* the states around its target.
LEMMA EntersLead ==
  ASSUME NEW c \in ChartState, NEW d \in 0 .. Len(Path[c]),
         NEW l \in BOOLEAN, NEW z \in BOOLEAN
  PROVE  Leads(Entered(SubSeq(Path[c], d + 1, Len(Path[c]))),
               Heard(Names(c, d), FALSE, l, z),
               Heard(Around(c), FALSE, l, z /\ ~(d <= 1 /\ c \in Operative)))
PROOF
  <1> DEFINE L == Len(Path[c])
             ns == Entered(SubSeq(Path[c], d + 1, L))
             op == c \in Operative
             awake(i) == d <= 1 /\ d + i >= 2 /\ op
             q == [i \in 0 .. L - d |-> Heard(Names(c, d + i), FALSE, l, z /\ ~awake(i))]
  <1>1. L \in 0 .. 4 /\ op \in BOOLEAN
    BY PathFacts
  <1>2. Len(ns) = L - d /\ \A i \in 1 .. L - d : ns[i] = Changed(Path[c][d + i])
    BY EnteredFacts
  <1>3. op => L >= 2
    BY PathFacts
  <1>4. d \in 0 .. L
    OBVIOUS
  <1>5. q[0] = Heard(Names(c, d), FALSE, l, z)
    <2>1. 0 \in 0 .. L - d /\ d + 0 = d /\ ~awake(0)
      <3> HIDE DEF L, op
      <3> QED BY <1>1, <1>4
    <2>2. q[0] = Heard(Names(c, d + 0), FALSE, l, z /\ ~awake(0))
      <3> HIDE DEF L, awake
      <3> QED BY <2>1
    <2>3. (z /\ ~awake(0)) = z
      <3> HIDE DEF awake
      <3> QED BY <2>1
    <2> HIDE DEF q, L, awake
    <2> QED BY <2>1, <2>2, <2>3, Zenon
  <1>6. q[L - d] = Heard(Around(c), FALSE, l, z /\ ~(d <= 1 /\ op))
    <2>1. L - d \in 0 .. L - d /\ d + (L - d) = L /\ (awake(L - d) <=> d <= 1 /\ op)
      <3> HIDE DEF L, op
      <3> QED BY <1>1, <1>3, <1>4
    <2>2. q[L - d] = Heard(Names(c, d + (L - d)), FALSE, l, z /\ ~awake(L - d))
      <3> HIDE DEF L, awake
      <3> QED BY <2>1
    <2>3. (z /\ ~awake(L - d)) = (z /\ ~(d <= 1 /\ op))
      <3> HIDE DEF awake, L, op
      <3> QED BY <2>1
    <2>4. Names(c, L) = Around(c)
      BY DEF Around
    <2> HIDE DEF q, L, awake, op
    <2> QED BY <2>1, <2>2, <2>3, <2>4, Zenon
  <1>7. ASSUME NEW i \in 1 .. L - d
        PROVE  Legal(ns[i], q[i - 1]) /\ q[i] = After(ns[i], q[i - 1])
    <2> DEFINE j == d + i
               y == z /\ ~awake(i - 1)
    <2>1. /\ j \in 1 .. L /\ j \in 1 .. 4 /\ d + (i - 1) = j - 1
          /\ i - 1 \in 0 .. L - d /\ i \in 0 .. L - d
      <3> HIDE DEF L
      <3> QED BY <1>1, <1>4
    <2>2. q[i - 1] = Heard(Names(c, j - 1), FALSE, l, y)
      <3>1. q[i - 1] = Heard(Names(c, d + (i - 1)), FALSE, l, z /\ ~awake(i - 1))
        <4> HIDE DEF L, awake, j
        <4> QED BY <2>1
      <3> HIDE DEF q, L, awake, j
      <3> QED BY <3>1, <2>1, Zenon
    <2>3. q[i] = Heard(Names(c, j), FALSE, l, z /\ ~awake(i))
      <3> HIDE DEF L, awake
      <3> QED BY <2>1
    <2>4. ns[i] = Changed(Path[c][j])
      BY <1>2
    <2>5. /\ Legal(Changed(Path[c][j]), Heard(Names(c, j - 1), FALSE, l, y))
          /\ After(Changed(Path[c][j]), Heard(Names(c, j - 1), FALSE, l, y))
               = Heard(Names(c, j), FALSE, l, y /\ Path[c][j] # "Operative")
      <3>1. y \in BOOLEAN
        OBVIOUS
      <3> HIDE DEF j, y
      <3> QED BY <3>1, <2>1, EnterOne
    <2>6. (y /\ Path[c][j] # "Operative") = (z /\ ~awake(i))
      <3>1. Path[c][j] = "Operative" <=> j = 2 /\ op
        <4> HIDE DEF j
        <4> QED BY <2>1, PathFacts
      <3> DEFINE w == Path[c][j] = "Operative"
      <3>2. w \in BOOLEAN /\ (w <=> j = 2 /\ op)
        BY <3>1
      <3> HIDE DEF w, op, L
      <3>3. awake(i) <=> awake(i - 1) \/ w
        BY <1>1, <1>4, <2>1, <3>2
      <3>4. (y /\ ~w) = (z /\ ~awake(i))
        <4> HIDE DEF awake
        <4> QED BY <3>3
      <3> QED BY <3>4 DEF w
    <2> HIDE DEF q, ns, j, y, op, L, awake
    <2> QED BY <2>2, <2>3, <2>4, <2>5, <2>6, Zenon
  <1>8. IsRun(q, ns, Heard(Names(c, d), FALSE, l, z),
              Heard(Around(c), FALSE, l, z /\ ~(d <= 1 /\ op)))
    <2> HIDE DEF q, ns, L, op
    <2> QED BY <1>2, <1>5, <1>6, <1>7 DEF IsRun
  <1> QED
    <2> HIDE DEF q
    <2> QED BY <1>8, Zenon DEF Leads

\* What can be told, and what the window shows of it.
Telling == [told : SUBSET Name, flip : BOOLEAN, late : BOOLEAN, asleep : BOOLEAN]

PicturesShow(a) ==
  /\ ~a.flip => (snow <=> "DisplayNormal" \in a.told /\ mode = "tmdFreeze")
  /\ a.flip => "DisplayNormal" \in a.told
  /\ flame => "DisplayNormal" \in a.told

ControlsShow(a) ==
  /\ shown <=> "Test" \in a.told
  /\ "Operative" \in a.told => files
  /\ a.asleep => ~files

ModeShows(a) ==
  ~a.late => /\ "DisplayTemporary" \in a.told => mode = "tmdTemporary"
             /\ "DisplayFunctional" \notin a.told => mode = "tmdNormal"

Shows(a) == PicturesShow(a) /\ ControlsShow(a) /\ ModeShows(a)

\* As long as the window lives it shows what it has been told, and what is still
\* pending tells the rest, up to the state that the chart is in.
NotesTellTheRest ==
  ~closing =>
    \E a \in Telling : \E late, asleep \in BOOLEAN :
      /\ Shows(a)
      /\ Leads(notes, a, Heard(Around(chart), FALSE, late, asleep))
      /\ late => stray
      /\ chart = "SleepMode" => asleep

\* A notification tells something that can be told.
LEMMA AfterIsTelling ==
  ASSUME NEW note \in Note, NEW a \in Telling
  PROVE  After(note, a) \in Telling
PROOF
  BY DEF After, Telling, Note, Name, Left, Changed

\* Two states that a transition keeps within d states have the same d outside.
LEMMA CommonOutside ==
  ASSUME NEW c \in ChartState, NEW to \in ChartState, NEW d \in 0 .. 3,
         d >= 1 => c # "Off" /\ to # "Off",
         d >= 2 => c \in Operative /\ to \in Operative,
         d >= 3 => c \in Functional /\ to \in Functional
  PROVE  /\ d \in 0 .. Len(Path[c]) /\ d \in 0 .. Len(Path[to])
         /\ Names(c, d) = Names(to, d)
PROOF
  <1>1. /\ Len(Path[c]) \in 0 .. 4 /\ Len(Path[to]) \in 0 .. 4
        /\ d >= 1 => Path[c][1] = Path[to][1] /\ Len(Path[c]) >= 1 /\ Len(Path[to]) >= 1
        /\ d >= 2 => Path[c][2] = Path[to][2] /\ Len(Path[c]) >= 2 /\ Len(Path[to]) >= 2
    BY PathFacts
  <1>2. d >= 3 => Path[c][3] = Path[to][3] /\ Len(Path[c]) >= 4 /\ Len(Path[to]) >= 4
    BY PathFacts DEF Functional
  <1>3. d \in 0 .. Len(Path[c]) /\ d \in 0 .. Len(Path[to])
    BY <1>1, <1>2
  <1>4. \A i \in 1 .. d : Path[c][i] = Path[to][i]
    <2>1. \A i \in 1 .. d : i = 1 \/ i = 2 \/ i = 3
      OBVIOUS
    <2> QED BY <1>1, <1>2, <2>1
  <1> QED
    BY <1>3, <1>4 DEF Names

\* The window takes a notification, in the order that is legal: the pictures follow
\* DisplayNormal and the mode.
LEMMA ShowsAfterPictures ==
  ASSUME NEW note \in Note, NEW a \in Telling, note.kind # "event", WindowTypeOK,
         Legal(note, a), Shows(a), EnterExitNotify(note)
  PROVE  PicturesShow(After(note, a))'
PROOF
  <1>1. CASE note = Changed("DisplayNormal")
    <2>1. /\ snow' = (snow \/ mode = "tmdFreeze") /\ mode' = mode
      BY <1>1 DEF EnterExitNotify, PicturesAfter, ModeAfter, Changed, Left
    <2>2. "DisplayNormal" \notin a.told
      BY <1>1 DEF Legal
    <2>3. After(note, a).flip = FALSE /\ "DisplayNormal" \in After(note, a).told
      BY <1>1, <2>2 DEF After, Changed, Left, Shows, PicturesShow, Telling
    <2>4. ~snow
      BY <2>2 DEF Shows, PicturesShow
    <2> QED BY <2>1, <2>3, <2>4 DEF PicturesShow
  <1>2. CASE note = Left("DisplayNormal")
    <2>1. snow' = FALSE /\ flame' = FALSE
      BY <1>2 DEF EnterExitNotify, PicturesAfter, Changed, Left
    <2>2. After(note, a).flip = FALSE /\ "DisplayNormal" \notin After(note, a).told
      BY <1>2 DEF After, Changed, Left, Telling
    <2> QED BY <2>1, <2>2 DEF PicturesShow
  <1>3. CASE note # Changed("DisplayNormal") /\ note # Left("DisplayNormal")
    <2>1. snow' = snow /\ flame' = flame
      BY <1>3 DEF EnterExitNotify, PicturesAfter
    <2>2. /\ After(note, a).flip <=> a.flip
          /\ "DisplayNormal" \in After(note, a).told <=> "DisplayNormal" \in a.told
      BY <1>3 DEF After, Changed, Left, Telling, Note
    <2>3. a.flip \/ (mode = "tmdFreeze" <=> mode' = "tmdFreeze")
                 \/ "DisplayNormal" \notin a.told
      <3>1. CASE note = Left("DisplayFunctional")
        BY <3>1 DEF Legal
      <3>2. CASE note = Changed("DisplayTemporary")
        BY <3>2 DEF Legal
      <3>3. CASE note # Left("DisplayFunctional") /\ note # Changed("DisplayTemporary")
        BY <3>3 DEF EnterExitNotify, ModeAfter
      <3> QED BY <3>1, <3>2, <3>3
    <2> QED BY <2>1, <2>2, <2>3 DEF PicturesShow, Shows
  <1> QED
    BY <1>1, <1>2, <1>3

\* The controls follow Test and Operative.
LEMMA ShowsAfterControls ==
  ASSUME NEW note \in Note, NEW a \in Telling, note.kind # "event", WindowTypeOK,
         Shows(a), EnterExitNotify(note)
  PROVE  ControlsShow(After(note, a))'
PROOF
  <1>1. /\ shown' = IF note.name = "Test" THEN note.kind = "enter" ELSE shown
        /\ files' = IF note.name = "Operative" THEN note.kind = "enter" ELSE files
    BY DEF EnterExitNotify
  <1>2. note.kind = "enter" \/ note.kind = "exit"
    BY DEF Note
  <1>3. shown' <=> "Test" \in After(note, a).told
    BY <1>1, <1>2 DEF After, Shows, ControlsShow, Telling, WindowTypeOK
  <1>4. "Operative" \in After(note, a).told => files'
    BY <1>1, <1>2 DEF After, Shows, ControlsShow, Telling, WindowTypeOK
  <1>5. After(note, a).asleep => ~files'
    BY <1>1, <1>2 DEF After, Shows, ControlsShow, Telling, WindowTypeOK, Changed, Left, Note
  <1> QED
    BY <1>3, <1>4, <1>5 DEF ControlsShow

\* The mode follows the two displays.
LEMMA ShowsAfterMode ==
  ASSUME NEW note \in Note, NEW a \in Telling, note.kind # "event", WindowTypeOK,
         Legal(note, a), Shows(a), EnterExitNotify(note)
  PROVE  ModeShows(After(note, a))'
PROOF
  <1>1. After(note, a).late <=> a.late
    BY DEF After, Telling
  <1>2. mode' = ModeAfter(note)
    BY DEF EnterExitNotify
  <1>3. CASE note = Left("DisplayFunctional")
    <2>1. mode' = "tmdNormal"
      BY <1>2, <1>3 DEF ModeAfter, Changed, Left
    <2>2. "DisplayTemporary" \notin After(note, a).told
      BY <1>3 DEF Legal, After, Left
    <2> QED BY <2>1, <2>2 DEF ModeShows
  <1>4. CASE note = Changed("DisplayTemporary")
    <2>1. mode' = "tmdTemporary"
      BY <1>2, <1>4 DEF ModeAfter, Changed, Left
    <2>2. "DisplayFunctional" \in After(note, a).told
      BY <1>4 DEF Legal, After, Changed
    <2> QED BY <2>1, <2>2 DEF ModeShows
  <1>5. CASE note # Left("DisplayFunctional") /\ note # Changed("DisplayTemporary")
    <2>1. mode' = mode
      BY <1>2, <1>5 DEF ModeAfter
    <2>2. /\ "DisplayTemporary" \in After(note, a).told => "DisplayTemporary" \in a.told
          /\ "DisplayFunctional" \notin After(note, a).told => "DisplayFunctional" \notin a.told
      BY <1>5 DEF After, Changed, Left, Note
    <2> QED BY <1>1, <2>1, <2>2 DEF ModeShows, Shows
  <1> QED
    BY <1>3, <1>4, <1>5

\* An event flips the mode and leaves the pictures and the controls alone.
LEMMA ShowsAfterEvent ==
  ASSUME NEW note \in Note, NEW a \in Telling, note.kind = "event", WindowTypeOK,
         Legal(note, a), Shows(a), EventNotify(note)
  PROVE  Shows(After(note, a))'
PROOF
  <1>1. /\ UNCHANGED <<snow, flame, shown, files>>
        /\ mode' = IF mode = "tmdFreeze" THEN "tmdNormal" ELSE "tmdFreeze"
    BY DEF EventNotify, ModeAfter, Changed, Left
  <1>2. /\ After(note, a).told = a.told
        /\ After(note, a).flip <=> a.flip \/ "DisplayNormal" \in a.told
        /\ After(note, a).late <=> a.late \/ "DisplayNormal" \notin a.told
        /\ After(note, a).asleep <=> a.asleep
    <2>1. note # Left("Operative") /\ note # Changed("Operative")
      BY DEF Changed, Left
    <2> QED BY <2>1 DEF After, Telling
  <1>3. PicturesShow(After(note, a))'
    BY <1>1, <1>2 DEF PicturesShow, Shows
  <1>4. ControlsShow(After(note, a))'
    BY <1>1, <1>2 DEF ControlsShow, Shows
  <1>5. ModeShows(After(note, a))'
    BY <1>2 DEF ModeShows, Legal
  <1> QED
    BY <1>3, <1>4, <1>5 DEF Shows

\* The states of S have the same d states outside.
Inside(S, d) ==
  \A c \in S :
    /\ d >= 1 => c # "Off"
    /\ d >= 2 => c \in Operative
    /\ d >= 3 => c \in Functional

\* What the transitions of the chart have in common.
Reported(from, d, to) ==
  /\ from \in SUBSET ChartState /\ d \in 0 .. 3 /\ to \in ChartState
  /\ Inside(from \cup {to}, d)
  /\ to = "SleepMode" => d <= 1 /\ from \subseteq Operative

\* A transition of the chart, after the event that it takes, if it reports one.
LEMMA TransitionTells ==
  ASSUME WindowTypeOK, NotesTellTheRest, NEW from, NEW d, NEW to, NEW before,
         Reported(from, d, to), NEW taken \in BOOLEAN,
         taken => from = {"DisplayNormal"}, before = IF taken THEN Taken ELSE <<>>,
         Transition(from, d, to, before), UNCHANGED stray
  PROVE  notes' \in Seq(Note) /\ (notes # <<>> => notes' # <<>>) /\ NotesTellTheRest'
PROOF
  <1> from \in SUBSET ChartState /\ d \in 0 .. 3 /\ to \in ChartState
    BY DEF Reported
  <1>0. /\ chart \in from /\ ~closing /\ chart' = to /\ closing' = closing
        /\ UNCHANGED <<mode, snow, flame, shown, files>>
        /\ notes' = notes \o before \o Exited(SubSeq(Path[chart], d + 1, Len(Path[chart])))
                          \o Entered(SubSeq(Path[to], d + 1, Len(Path[to])))
    BY DEF Transition, window
  <1>1. PICK c \in ChartState : c = chart
    BY DEF WindowTypeOK
  <1>2. PICK ns \in Seq(Note) : ns = notes
    BY DEF WindowTypeOK
  <1> DEFINE exits == Exited(SubSeq(Path[c], d + 1, Len(Path[c])))
             enters == Entered(SubSeq(Path[to], d + 1, Len(Path[to])))
  <1>3. notes' = ns \o before \o exits \o enters
    BY <1>0, <1>1, <1>2
  <1>4. /\ d \in 0 .. Len(Path[c]) /\ d \in 0 .. Len(Path[to])
        /\ Names(c, d) = Names(to, d)
    BY <1>0, <1>1, CommonOutside DEF Inside, Reported
  <1>5. exits \in Seq(Note) /\ enters \in Seq(Note)
    BY <1>4, ExitedFacts, EnteredFacts
  <1>6. before \in Seq(Note)
    <2>1. Taken \in Seq(Note)
      BY DEF Taken, Note
    <2> QED BY <2>1
  <1> HIDE DEF exits, enters
  <1>7. /\ ns \o before \in Seq(Note) /\ ns \o before \o exits \in Seq(Note)
        /\ ns \o before \o exits \o enters \in Seq(Note)
    BY <1>5, <1>6
  <1>8. PICK a \in Telling, l \in BOOLEAN, z \in BOOLEAN :
          /\ Shows(a)
          /\ Leads(ns, a, Heard(Around(c), FALSE, l, z))
          /\ l => stray
    BY <1>0, <1>1, <1>2 DEF NotesTellTheRest
  <1>9. Leads(ns \o before, a, Heard(Around(c), taken, l, z))
    <2>1. CASE taken
      <3> DEFINE note == [kind |-> "event", name |-> "Timer.FreezeMode"]
                 b == Heard(Around(c), FALSE, l, z)
      <3>1. c = "DisplayNormal" /\ c \in Functional
        BY <2>1, <1>0, <1>1 DEF Functional
      <3>2. /\ "DisplayNormal" \in Around(c) /\ "DisplayTemporary" \notin Around(c)
            /\ "DisplayFunctional" \in Around(c)
        BY <3>1, AroundFacts
      <3>3. Legal(note, b)
        BY <3>2 DEF Legal, Heard, Changed, Left
      <3>4. After(note, b) = Heard(Around(c), TRUE, l, z)
        <4>1. note # Left("Operative") /\ note # Changed("Operative")
          BY DEF Changed, Left
        <4> QED BY <3>2, <4>1 DEF After, Heard
      <3>5. Leads(<<note>>, b, Heard(Around(c), TRUE, l, z))
        <4> HIDE DEF note, b
        <4> QED BY <3>3, <3>4, OneLeads, Zenon
      <3>6. before = <<note>>
        BY <2>1 DEF Taken
      <3>7. Leads(ns \o before, a, Heard(Around(c), TRUE, l, z))
        <4> HIDE DEF note
        <4> QED BY <1>6, <1>8, <3>5, <3>6, LeadsOn
      <3>8. taken = TRUE
        BY <2>1
      <3> QED BY <3>7, <3>8
    <2>2. CASE ~taken
      <3>1. ns \o before = ns
        BY <2>2
      <3>2. taken = FALSE
        BY <2>2
      <3> QED BY <1>8, <3>1, <3>2
    <2> QED BY <2>1, <2>2
  <1> DEFINE y == z \/ (d <= 1 /\ c \in Operative)
             x == y /\ ~(d <= 1 /\ to \in Operative)
  <1>10. Leads(exits, Heard(Around(c), taken, l, z), Heard(Names(c, d), FALSE, l, y))
    <2>1. taken => c = "DisplayNormal" /\ d <= 3
      BY <1>0, <1>1
    <2> QED BY <2>1, <1>4, ExitsLead DEF exits
  <1>11. y \in BOOLEAN /\ x \in BOOLEAN
    OBVIOUS
  <1>12. Leads(enters, Heard(Names(to, d), FALSE, l, y), Heard(Around(to), FALSE, l, x))
    <2> HIDE DEF y
    <2> QED BY <1>4, <1>11, EntersLead DEF enters
  <1>13. to = "SleepMode" => x
    BY <1>0, <1>1 DEF Operative, Functional, Reported
  <1> HIDE DEF x, y
  <1>14. Leads(ns \o before \o exits, a, Heard(Names(to, d), FALSE, l, y))
    BY <1>4, <1>5, <1>7, <1>9, <1>10, LeadsOn
  <1>15. Leads(ns \o before \o exits \o enters, a, Heard(Around(to), FALSE, l, x))
    BY <1>5, <1>7, <1>12, <1>14, LeadsOn
  <1>16. Shows(a)'
    BY <1>0, <1>8 DEF Shows, PicturesShow, ControlsShow, ModeShows
  <1>17. /\ Leads(notes', a, Heard(Around(chart'), FALSE, l, x))
         /\ l => stray'
         /\ chart' = "SleepMode" => x
    BY <1>0, <1>3, <1>8, <1>13, <1>15
  <1>18. NotesTellTheRest'
    BY <1>11, <1>16, <1>17, Zenon DEF NotesTellTheRest
  <1>19. notes # <<>> => notes' # <<>>
    BY <1>2, <1>3, <1>5, <1>6
  <1> QED
    BY <1>3, <1>7, <1>18, <1>19

\* Every transition reports what it exits and enters, one of freeze mode the event too.
LEMMA ChartTells ==
  ASSUME WindowTypeOK, NotesTellTheRest, Chart \/ FreezeMode
  PROVE  notes' \in Seq(Note) /\ (notes # <<>> => notes' # <<>>) /\ NotesTellTheRest'
PROOF
  <1>a. ASSUME NEW from, NEW d, NEW to, Reported(from, d, to),
               Transition(from, d, to, <<>>), UNCHANGED stray
        PROVE  notes' \in Seq(Note) /\ (notes # <<>> => notes' # <<>>) /\ NotesTellTheRest'
    <2>1. PICK taken \in BOOLEAN : taken = FALSE
      OBVIOUS
    <2>2. PICK before : before = <<>>
      OBVIOUS
    <2>3. before = IF taken THEN Taken ELSE <<>>
      BY <2>1, <2>2
    <2> QED BY <1>a, <2>1, <2>2, <2>3, TransitionTells, Zenon
  <1>b. /\ Reported({"Off"}, 0, "Test")
        /\ Reported(Powered, 0, "Off") /\ Reported(Powered, 0, "Test")
        /\ Reported({"Test", "SleepMode"}, 1, "DisplayNormal")
        /\ Reported(Operative, 1, "SleepMode")
        /\ \A to \in {"TimeSetup", "ProgSetup"} : Reported(Functional, 2, to)
        /\ Reported({"TimeSetup", "ProgSetup"}, 2, "DisplayNormal")
        /\ Reported({"DisplayNormal"}, 3, "DisplayNormal")
        /\ Reported({"DisplayNormal"}, 3, "DisplayTemporary")
        /\ Reported({"DisplayTemporary"}, 3, "DisplayTemporary")
        /\ Reported({"DisplayTemporary"}, 3, "DisplayNormal")
    BY DEF Reported, Inside, ChartState, Path, Powered, Operative, Functional
  <1>c. Chart => UNCHANGED stray
    BY DEF Chart, timers
  <1>1. CASE Chart /\ CheckPower
    BY <1>1, <1>a, <1>b, <1>c, Zenon DEF CheckPower
  <1>2. CASE Chart /\ HardReset
    BY <1>2, <1>a, <1>b, <1>c, Zenon DEF HardReset
  <1>3. CASE Chart /\ Operate
    BY <1>3, <1>a, <1>b, <1>c, Zenon DEF Operate
  <1>4. CASE Chart /\ Sleep
    BY <1>4, <1>a, <1>b, <1>c, Zenon DEF Sleep
  <1>5. CASE Chart /\ Setup
    BY <1>5, <1>a, <1>b, <1>c, Zenon DEF Setup
  <1>6. CASE Chart /\ Refresh
    BY <1>6, <1>a, <1>b, <1>c, Zenon DEF Refresh
  <1>7. CASE Chart /\ UpOrDown
    BY <1>7, <1>a, <1>b, <1>c, Zenon DEF UpOrDown
  <1>8. CASE Chart /\ TemporaryExit
    BY <1>8, <1>a, <1>b, <1>c, Zenon DEF TemporaryExit
  <1>9. CASE FreezeMode
    <2>1. PICK taken \in BOOLEAN : taken = TRUE
      OBVIOUS
    <2>2. PICK before : before = Taken
      OBVIOUS
    <2>3. before = IF taken THEN Taken ELSE <<>>
      BY <2>1, <2>2
    <2>4. Transition({"DisplayNormal"}, 3, "DisplayNormal", before) /\ UNCHANGED stray
      BY <1>9, <2>2, Zenon DEF FreezeMode
    <2> QED BY <1>b, <2>1, <2>3, <2>4, TransitionTells, Zenon
  <1> QED
    BY <1>1, <1>2, <1>3, <1>4, <1>5, <1>6, <1>7, <1>8, <1>9 DEF Chart

\* An event outside DisplayNormal is reported as one that came too late.
LEMMA StrayTells ==
  ASSUME WindowTypeOK, NotesTellTheRest, StrayFreezeMode
  PROVE  notes' \in Seq(Note) /\ (notes # <<>> => notes' # <<>>) /\ NotesTellTheRest'
PROOF
  <1> DEFINE note == [kind |-> "event", name |-> "Timer.FreezeMode"]
  <1>0. /\ chart # "DisplayNormal" /\ ~closing /\ closing' = closing /\ chart' = chart
        /\ stray' = TRUE /\ notes' = notes \o <<note>>
        /\ UNCHANGED <<mode, snow, flame, shown, files>>
    BY DEF StrayFreezeMode, window, Taken
  <1>1. PICK c \in ChartState : c = chart
    BY DEF WindowTypeOK
  <1>2. PICK ns \in Seq(Note) : ns = notes
    BY DEF WindowTypeOK
  <1>3. note \in Note /\ <<note>> \in Seq(Note)
    BY DEF Note
  <1>4. PICK a \in Telling, l \in BOOLEAN, z \in BOOLEAN :
          /\ Shows(a)
          /\ Leads(ns, a, Heard(Around(c), FALSE, l, z))
          /\ chart = "SleepMode" => z
    BY <1>0, <1>1, <1>2 DEF NotesTellTheRest
  <1> DEFINE b == Heard(Around(c), FALSE, l, z)
  <1>5. "DisplayNormal" \notin Around(c)
    BY <1>0, <1>1, AroundFacts
  <1>6. Legal(note, b)
    BY <1>5 DEF Legal, Heard, Changed, Left
  <1>7. After(note, b) = Heard(Around(c), FALSE, TRUE, z)
    <2>1. note # Left("Operative") /\ note # Changed("Operative")
      BY DEF Changed, Left
    <2> QED BY <1>5, <2>1 DEF After, Heard
  <1>8. Leads(<<note>>, b, Heard(Around(c), FALSE, TRUE, z))
    <2> HIDE DEF note, b
    <2> QED BY <1>6, <1>7, OneLeads, Zenon
  <1>9. Leads(ns \o <<note>>, a, Heard(Around(c), FALSE, TRUE, z))
    <2> HIDE DEF note
    <2> QED BY <1>3, <1>4, <1>8, LeadsOn
  <1>10. Leads(notes', a, Heard(Around(chart'), FALSE, TRUE, z))
    BY <1>0, <1>1, <1>2, <1>9
  <1>11. Shows(a)'
    BY <1>0, <1>4 DEF Shows, PicturesShow, ControlsShow, ModeShows
  <1>12. notes' \in Seq(Note)
    BY <1>0, <1>2, <1>3
  <1>13. (TRUE => stray') /\ (chart' = "SleepMode" => z) /\ TRUE \in BOOLEAN
    BY <1>0, <1>4
  <1>14. NotesTellTheRest'
    BY <1>10, <1>11, <1>13, Zenon DEF NotesTellTheRest
  <1>15. notes' # <<>>
    BY <1>0, <1>2
  <1> QED
    BY <1>12, <1>14, <1>15

\* The window takes a notification off the queue and shows what it tells.
LEMMA NotifyTells ==
  ASSUME WindowTypeOK, NotesTellTheRest, Notify
  PROVE  notes' \in Seq(Note) /\ NotesTellTheRest'
PROOF
  <1>0. /\ notes # <<>> /\ notes' = Tail(notes) /\ chart' = chart /\ closing' = closing
        /\ stray' = stray
    BY DEF Notify, timers
  <1>1. notes' \in Seq(Note)
    BY <1>0 DEF WindowTypeOK
  <1>2. ASSUME ~closing  PROVE NotesTellTheRest'
    <2>1. PICK c \in ChartState : c = chart
      BY DEF WindowTypeOK
    <2>2. PICK ns \in Seq(Note) : ns = notes
      BY DEF WindowTypeOK
    <2>3. PICK note \in Note : note = Head(notes)
      BY <1>0 DEF WindowTypeOK
    <2>4. PICK a \in Telling, l \in BOOLEAN, z \in BOOLEAN :
            /\ Shows(a)
            /\ Leads(ns, a, Heard(Around(c), FALSE, l, z))
            /\ l => stray
            /\ chart = "SleepMode" => z
      BY <1>2, <2>1, <2>2 DEF NotesTellTheRest
    <2>5. Legal(note, a) /\ Leads(Tail(ns), After(note, a), Heard(Around(c), FALSE, l, z))
      BY <1>0, <2>2, <2>3, <2>4, LeadsPastHead
    <2>6. Shows(After(note, a))'
      <3>1. CASE note.kind = "event"
        <4>1. EventNotify(note)
          BY <1>2, <2>3, <3>1 DEF Notify
        <4> QED BY <3>1, <4>1, <2>4, <2>5, ShowsAfterEvent
      <3>2. CASE note.kind # "event"
        <4>1. EnterExitNotify(note)
          BY <1>2, <2>3, <3>2 DEF Notify
        <4> QED
          BY <3>2, <4>1, <2>4, <2>5, ShowsAfterPictures, ShowsAfterControls, ShowsAfterMode
             DEF Shows
      <3> QED BY <3>1, <3>2
    <2>7. After(note, a) \in Telling
      BY AfterIsTelling
    <2>8. Leads(notes', After(note, a), Heard(Around(chart'), FALSE, l, z))
      BY <1>0, <2>1, <2>2, <2>5
    <2>9. (l => stray') /\ (chart' = "SleepMode" => z)
      BY <1>0, <2>4
    <2> QED BY <2>6, <2>7, <2>8, <2>9, Zenon DEF NotesTellTheRest
  <1>3. ASSUME closing  PROVE NotesTellTheRest'
    BY <1>0, <1>3 DEF NotesTellTheRest
  <1> QED
    BY <1>1, <1>2, <1>3

\* The other fields of the state stay what they are by type.
LEMMA FieldsStayTyped ==
  ASSUME WindowTypeOK, WindowNext
  PROVE  /\ chart' \in ChartState /\ timer' \in BOOLEAN /\ stray' \in BOOLEAN
         /\ flag' \in BOOLEAN /\ mode' \in TemperatureMode /\ writing' \in BOOLEAN
         /\ snow' \in BOOLEAN /\ flame' \in BOOLEAN /\ shown' \in BOOLEAN
         /\ files' \in BOOLEAN /\ closing' \in BOOLEAN
PROOF
  <1>a. ASSUME NEW from, NEW d, NEW to \in ChartState, NEW before,
               Transition(from, d, to, before)
        PROVE  chart' \in ChartState /\ UNCHANGED <<flag, window, closing>>
    BY <1>a DEF Transition
  <1>b. \A c \in {"Off", "Test", "SleepMode", "DisplayNormal", "DisplayTemporary", "TimeSetup",
                 "ProgSetup"} : c \in ChartState
    BY DEF ChartState, Path
  <1>1. CASE Chart
    <2>1. chart' \in ChartState /\ UNCHANGED <<flag, window, closing>>
      BY <1>a, <1>b, <1>1, Zenon
         DEF Chart, CheckPower, HardReset, Operate, Sleep, Setup, Refresh, UpOrDown, TemporaryExit
    <2> QED BY <1>1, <2>1 DEF WindowTypeOK, Chart, timers, window
  <1>2. CASE TimerFreezeMode
    BY <1>2 DEF TimerFreezeMode, WindowTypeOK, window
  <1>3. CASE FreezeMode
    <2>1. chart' \in ChartState /\ UNCHANGED <<flag, window, closing>>
      BY <1>a, <1>b, <1>3, Zenon DEF FreezeMode
    <2> QED BY <1>3, <2>1 DEF WindowTypeOK, FreezeMode, window
  <1>4. CASE StrayFreezeMode
    BY <1>4 DEF StrayFreezeMode, WindowTypeOK, window
  <1>5. CASE Notify
    <2>1. PICK note \in Note : note = Head(notes)
      BY <1>5 DEF Notify, WindowTypeOK
    <2>2. UNCHANGED <<chart, timer, stray, closing>>
      BY <1>5 DEF Notify, timers
    <2>3. ModeAfter(note) \in TemperatureMode
      BY DEF ModeAfter, WindowTypeOK, TemperatureMode
    <2>4. CASE UNCHANGED <<flag, window>>
      BY <2>2, <2>4 DEF WindowTypeOK, window
    <2>5. CASE EventNotify(note)
      BY <2>2, <2>3, <2>5 DEF WindowTypeOK, EventNotify
    <2>6. CASE EnterExitNotify(note)
      <3>1. snow' \in BOOLEAN /\ flame' \in BOOLEAN
        BY <2>6, Zenon DEF EnterExitNotify, PicturesAfter, WindowTypeOK
      <3>2. shown' \in BOOLEAN /\ files' \in BOOLEAN
        BY <2>6 DEF EnterExitNotify, WindowTypeOK
      <3> QED BY <2>2, <2>3, <2>6, <3>1, <3>2 DEF WindowTypeOK, EnterExitNotify
    <2>7. \/ UNCHANGED <<flag, window>> \/ EventNotify(note) \/ EnterExitNotify(note)
      BY <1>5, <2>1 DEF Notify
    <2> QED BY <2>4, <2>5, <2>6, <2>7
  <1>6. CASE CloseForm
    BY <1>6 DEF CloseForm, WindowTypeOK, timers, window
  <1>7. CASE SetFreezeFlag
    BY <1>7 DEF SetFreezeFlag, WindowTypeOK, timers
  <1> QED
    BY <1>1, <1>2, <1>3, <1>4, <1>5, <1>6, <1>7 DEF WindowNext

\* Every step keeps the types and what the notifications tell.
LEMMA NextTells ==
  ASSUME WindowTypeOK, NotesTellTheRest, WindowNext
  PROVE  WindowTypeOK' /\ NotesTellTheRest'
PROOF
  <1>1. CASE Chart \/ FreezeMode
    BY <1>1, ChartTells, FieldsStayTyped DEF WindowTypeOK
  <1>2. CASE TimerFreezeMode
    <2>1. UNCHANGED <<chart, stray, notes, window, closing>>
      BY <1>2 DEF TimerFreezeMode
    <2>2. WindowTypeOK'
      BY <2>1, FieldsStayTyped DEF WindowTypeOK
    <2>3. \A a \in Telling : Shows(a)' <=> Shows(a)
      BY <2>1 DEF Shows, PicturesShow, ControlsShow, ModeShows, window
    <2>4. NotesTellTheRest'
      BY <2>1, <2>3 DEF NotesTellTheRest
    <2> QED BY <2>2, <2>4
  <1>3. CASE StrayFreezeMode
    BY <1>3, StrayTells, FieldsStayTyped DEF WindowTypeOK
  <1>4. CASE Notify
    BY <1>4, NotifyTells, FieldsStayTyped DEF WindowTypeOK
  <1>5. CASE CloseForm
    <2>1. PICK c \in ChartState : c = chart
      BY DEF WindowTypeOK
    <2>2. 0 \in 0 .. Len(Path[c]) /\ Path[c] \in Seq(Name)
      BY PathFacts, PathsAreSeqs
    <2>3. SubSeq(Path[c], 0 + 1, Len(Path[c])) = Path[c]
      BY <2>2
    <2>4. Exited(Path[c]) \in Seq(Note)
      BY <2>2, <2>3, ExitedFacts
    <2>5. notes' \in Seq(Note)
      <3>1. PICK last \in {<<>>, Exited(Path[c])} : notes' = notes \o last
        BY <1>5, <2>1 DEF CloseForm
      <3>2. last \in Seq(Note)
        <4>1. <<>> \in Seq(Note)
          OBVIOUS
        <4> QED BY <2>4, <3>1, <4>1
      <3> QED BY <3>1, <3>2 DEF WindowTypeOK
    <2>6. closing'
      BY <1>5 DEF CloseForm
    <2>7. WindowTypeOK'
      BY <2>5, FieldsStayTyped DEF WindowTypeOK
    <2>8. NotesTellTheRest'
      BY <2>6, Zenon DEF NotesTellTheRest
    <2> QED BY <2>7, <2>8
  <1>6. CASE SetFreezeFlag
    <2>1. UNCHANGED <<chart, stray, notes, mode, snow, flame, shown, files, closing>>
      BY <1>6 DEF SetFreezeFlag, timers
    <2>2. WindowTypeOK'
      BY <2>1, FieldsStayTyped DEF WindowTypeOK
    <2>3. \A a \in Telling : Shows(a)' <=> Shows(a)
      BY <2>1 DEF Shows, PicturesShow, ControlsShow, ModeShows
    <2>4. NotesTellTheRest'
      BY <2>1, <2>3 DEF NotesTellTheRest
    <2> QED BY <2>2, <2>4
  <1> QED
    BY <1>1, <1>2, <1>3, <1>4, <1>5, <1>6 DEF WindowNext

\* At first nothing is told and the window shows nothing.
LEMMA InitTells ==
  ASSUME WindowInit
  PROVE  WindowTypeOK /\ NotesTellTheRest
PROOF
  <1>1. "Off" \in ChartState /\ Path["Off"] = <<>>
    BY DEF ChartState, Path
  <1>2. WindowTypeOK
    <2>1. notes \in Seq(Note)
      BY DEF WindowInit
    <2> QED BY <1>1, <2>1 DEF WindowInit, WindowTypeOK, TemperatureMode
  <1>3. Around("Off") = {}
    BY <1>1 DEF Around, Names
  <1> DEFINE a == Heard({}, FALSE, FALSE, FALSE)
  <1>4. a \in Telling /\ Shows(a)
    BY DEF Telling, Heard, Shows, PicturesShow, ControlsShow, ModeShows, WindowInit
  <1>5. Leads(<<>>, a, a)
    BY NothingLeads
  <1>6. notes = <<>> /\ chart = "Off"
    BY DEF WindowInit
  <1>7. /\ Leads(notes, a, Heard(Around(chart), FALSE, FALSE, FALSE))
        /\ FALSE => stray
        /\ chart = "SleepMode" => FALSE
    BY <1>3, <1>5, <1>6
  <1>8. NotesTellTheRest
    <2> HIDE DEF a
    <2>1. FALSE \in BOOLEAN
      OBVIOUS
    <2> QED BY <1>4, <1>7, <2>1, Zenon DEF NotesTellTheRest
  <1> QED
    BY <1>2, <1>8

\* A step that changes none of the variables changes neither part.
LEMMA TellsStutter ==
  ASSUME WindowTypeOK, NotesTellTheRest, UNCHANGED simVars
  PROVE  WindowTypeOK' /\ NotesTellTheRest'
PROOF
  <1>1. UNCHANGED <<chart, timer, stray, flag, notes, mode, writing, snow, flame, shown, files,
                    closing>>
    BY DEF simVars, timers, window
  <1>2. WindowTypeOK'
    BY <1>1 DEF WindowTypeOK
  <1>3. \A a \in Telling : Shows(a)' <=> Shows(a)
    BY <1>1 DEF Shows, PicturesShow, ControlsShow, ModeShows
  <1>4. NotesTellTheRest'
    BY <1>1, <1>3 DEF NotesTellTheRest
  <1> QED
    BY <1>2, <1>4

\* The inductive invariant of the window.
LEMMA NotesTell == WindowSpec => [](WindowTypeOK /\ NotesTellTheRest)
PROOF
  <1>1. WindowInit => WindowTypeOK /\ NotesTellTheRest
    BY InitTells
  <1>2. WindowTypeOK /\ NotesTellTheRest /\ [WindowNext]_simVars
          => WindowTypeOK' /\ NotesTellTheRest'
    BY NextTells, TellsStutter
  <1> QED
    BY <1>1, <1>2, PTL DEF WindowSpec

\* The chart, its pending notifications and the window keep their types, whatever the
\* chart reports while the window lives.
THEOREM WindowTypeCorrect == WindowSpec => []WindowTypeOK
PROOF
  BY NotesTell, PTL

\* A window that has handled every notification shows the state of the chart, however
\* far the chart ran ahead of it in between.
THEOREM CaughtUpWindowShowsTheChart == WindowSpec => []ShowsTheChart
PROOF
  <1>1. ASSUME WindowTypeOK, NotesTellTheRest  PROVE ShowsTheChart
    <2> SUFFICES ASSUME CaughtUp  PROVE ShowsTheChart
      BY DEF ShowsTheChart
    <2>1. PICK a \in Telling, l \in BOOLEAN, z \in BOOLEAN :
            /\ Shows(a)
            /\ Leads(notes, a, Heard(Around(chart), FALSE, l, z))
            /\ l => stray
            /\ chart = "SleepMode" => z
      BY <1>1 DEF NotesTellTheRest, CaughtUp
    <2>2. a = Heard(Around(chart), FALSE, l, z)
      BY <2>1, NothingLeads DEF CaughtUp
    <2>3. /\ "DisplayNormal" \in a.told <=> chart = "DisplayNormal"
          /\ "DisplayTemporary" \in a.told <=> chart = "DisplayTemporary"
          /\ "DisplayFunctional" \in a.told <=> chart \in Functional
          /\ "Operative" \in a.told <=> chart \in Operative
          /\ "Test" \in a.told <=> chart = "Test"
          /\ ~a.flip /\ (a.late => stray) /\ (chart = "SleepMode" => a.asleep)
      <3>1. a.told = Around(chart) /\ a.flip = FALSE /\ a.late = l /\ a.asleep = z
        BY <2>2 DEF Heard
      <3> QED BY <1>1, <2>1, <3>1, AroundFacts DEF WindowTypeOK
    <2>4. /\ snow <=> chart = "DisplayNormal" /\ mode = "tmdFreeze"
          /\ flame => chart = "DisplayNormal"
      BY <2>1, <2>3 DEF Shows, PicturesShow
    <2>5. /\ shown <=> chart = "Test"
          /\ chart \in Operative => files
          /\ chart = "SleepMode" => ~files
      BY <2>1, <2>3 DEF Shows, ControlsShow
    <2>6. ~stray => /\ chart = "DisplayTemporary" => mode = "tmdTemporary"
                    /\ chart \notin Functional => mode = "tmdNormal"
      BY <2>1, <2>3 DEF Shows, ModeShows
    <2>7. snow \in BOOLEAN /\ shown \in BOOLEAN
      BY <1>1 DEF WindowTypeOK
    <2>8. snow = (chart = "DisplayNormal" /\ mode = "tmdFreeze")
      BY <2>4, <2>7
    <2>9. shown = (chart = "Test")
      BY <2>5, <2>7
    <2> QED BY <2>4, <2>5, <2>6, <2>8, <2>9, Zenon DEF ShowsTheChart
  <1> QED
    BY <1>1, NotesTell, PTL

\* What the window's thread owes the chart: a flag that is not set in freeze mode is
\* about to be written, and until it is the snow flake flashes only as long as more
\* notifications are pending.
FlagFollows ==
  /\ mode = "tmdFreeze" => flag \/ writing
  /\ writing /\ snow /\ ~closing => notes # <<>>

\* An event that is the last notification finds the chart outside DisplayNormal, and
\* the snow flake hidden.
LEMMA LastEventFindsNoSnow ==
  ASSUME WindowTypeOK, NotesTellTheRest, ~closing, notes # <<>>, Tail(notes) = <<>>,
         Head(notes).kind = "event"
  PROVE  ~snow
PROOF
  <1>1. PICK ns \in Seq(Note) : ns = notes
    BY DEF WindowTypeOK
  <1>2. PICK note \in Note : note = Head(notes)
    BY DEF WindowTypeOK
  <1>3. PICK a \in Telling, l \in BOOLEAN, z \in BOOLEAN :
          Shows(a) /\ Leads(ns, a, Heard(Around(chart), FALSE, l, z))
    BY <1>1 DEF NotesTellTheRest
  <1>4. Leads(<<>>, After(note, a), Heard(Around(chart), FALSE, l, z))
    BY <1>1, <1>2, <1>3, LeadsPastHead
  <1>5. After(note, a) = Heard(Around(chart), FALSE, l, z)
    BY <1>4, NothingLeads
  <1>6. After(note, a).flip = FALSE
    BY <1>5 DEF Heard
  <1>7. "DisplayNormal" \notin a.told /\ ~a.flip
    BY <1>2, <1>6 DEF After
  <1> QED
    BY <1>3, <1>7 DEF Shows, PicturesShow

\* Every step of the chart and of the window keeps what the window owes.
LEMMA FlagFollowsNext ==
  ASSUME WindowTypeOK, NotesTellTheRest, FlagFollows, [WindowNext]_simVars
  PROVE  FlagFollows'
PROOF
  <1>a. ASSUME NEW from, NEW d, NEW to, NEW before, Transition(from, d, to, before)
        PROVE  UNCHANGED <<flag, window, closing>>
    BY <1>a DEF Transition
  <1>b. ASSUME UNCHANGED <<flag, window, closing>>, notes # <<>> => notes' # <<>>
        PROVE  FlagFollows'
    BY <1>b DEF FlagFollows, window
  <1>1. CASE Chart \/ FreezeMode
    <2>1. Chart => UNCHANGED <<flag, window, closing>>
      BY <1>a, Zenon DEF Chart, CheckPower, HardReset, Operate, Sleep, Setup, Refresh, UpOrDown,
                         TemporaryExit
    <2>2. FreezeMode => UNCHANGED <<flag, window, closing>>
      BY <1>a, Zenon DEF FreezeMode
    <2>3. notes # <<>> => notes' # <<>>
      BY <1>1, ChartTells
    <2> QED BY <1>1, <1>b, <2>1, <2>2, <2>3
  <1>2. CASE TimerFreezeMode
    BY <1>2, <1>b DEF TimerFreezeMode
  <1>3. CASE StrayFreezeMode
    BY <1>3, <1>b, StrayTells DEF StrayFreezeMode
  <1>4. CASE Notify
    <2>1. PICK note \in Note : note = Head(notes)
      BY <1>4 DEF Notify, WindowTypeOK
    <2>2. ~writing /\ notes # <<>> /\ notes' = Tail(notes) /\ closing' = closing
      BY <1>4 DEF Notify
    <2>3. CASE UNCHANGED <<flag, window>>
      BY <2>2, <2>3 DEF FlagFollows, window
    <2>4. CASE EventNotify(note) /\ note.kind = "event" /\ ~closing
      <3>1. writing' = TRUE /\ snow' = snow
        BY <2>4 DEF EventNotify
      <3>2. snow => Tail(notes) # <<>>
        BY <2>1, <2>2, <2>4, LastEventFindsNoSnow
      <3> QED BY <2>2, <3>1, <3>2 DEF FlagFollows
    <2>5. CASE EnterExitNotify(note) /\ note.kind # "event"
      BY <2>2, <2>5 DEF EnterExitNotify, ModeAfter, FlagFollows
    <2> QED BY <1>4, <2>1, <2>3, <2>4, <2>5 DEF Notify
  <1>5. CASE SetFreezeFlag
    BY <1>5 DEF SetFreezeFlag, FlagFollows
  <1>6. CASE CloseForm
    BY <1>6 DEF CloseForm, FlagFollows, window
  <1>7. CASE UNCHANGED simVars
    BY <1>7, <1>b DEF simVars
  <1> QED
    BY <1>1, <1>2, <1>3, <1>4, <1>5, <1>6, <1>7 DEF WindowNext

\* While the snow flake flashes and nothing is pending the chart is in DisplayNormal
\* and finds the global Inp.isFreezeMode set, although the window's thread flips the
\* mode and writes the global in two steps between which the chart goes on: before
\* the snow flake can appear, DisplayNormal is told as entered once more.
THEOREM FreezeIsKnownToTheChart == WindowSpec => []FreezeIsKnown
PROOF
  <1>1. WindowInit => FlagFollows
    BY DEF WindowInit, FlagFollows
  <1>2. WindowTypeOK /\ NotesTellTheRest /\ FlagFollows /\ [WindowNext]_simVars => FlagFollows'
    BY FlagFollowsNext
  <1>3. ASSUME WindowTypeOK, ShowsTheChart, FlagFollows  PROVE FreezeIsKnown
    <2> SUFFICES ASSUME CaughtUp, snow  PROVE chart = "DisplayNormal" /\ flag
      BY DEF FreezeIsKnown
    <2>1. chart = "DisplayNormal" /\ mode = "tmdFreeze"
      BY <1>3 DEF ShowsTheChart
    <2>2. ~writing
      BY <1>3 DEF FlagFollows, CaughtUp
    <2> QED BY <1>3, <2>1, <2>2 DEF FlagFollows
  <1> QED
    BY <1>1, <1>2, <1>3, NotesTell, CaughtUpWindowShowsTheChart, PTL DEF WindowSpec
==============================================================================
