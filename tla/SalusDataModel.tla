--------------------------- MODULE SalusDataModel ---------------------------
(***************************************************************************)
(* The data of the room thermostat of the example SalusRT500Sim            *)
(* (UnitSalusDataModel.cpp): the clock, two weekly programs of a few items *)
(* each, the item that is being set up and a temporary temperature.  The   *)
(* chart changes it by sending events that have the names of its methods,  *)
(* the user by opening files.  Temperatures count half degrees.            *)
(***************************************************************************)
EXTENDS Integers

CONSTANTS
  MaxHour, MaxMinute, MaxDay, \* 23, 59 and 6
  Saturday,                   \* i_SATURDAY: the first day of the weekend
  Count,                      \* g_MAX_PROGRAM_ITEMS_COUNT
  MaxTemperature,             \* 30 degrees
  Settings,                   \* g_DEFAULT_SALUS_SETTINGS
  Files,                      \* the other documents that are loaded
  MaxEvents                   \* bound: calls in one behaviour

Item == 0 .. Count - 1
LastItem == Count - 1
WeekType == {"WorkDays", "WeekEnds"}
ProgramItem == [hour : Nat, minute : Nat, temperature : Int]

\* A document gives its values one after the other: those of the clock, then
\* three of each item, first of the work days.  It may fail at any of them, for
\* want of a node or of a number: after `reads` values.
Document == [hour : Nat, minute : Nat, day : Nat,
             program : [WeekType -> [Item -> ProgramItem]],
             reads : Nat]

\* The number of values before those of item k.
Place(w, k) == 3 + (IF w = "WorkDays" THEN 0 ELSE 3 * Count) + 3 * k
Whole == 3 + 6 * Count

ASSUME SalusAssumption ==
  /\ MaxHour \in Nat /\ MaxMinute \in Nat /\ MaxDay \in Nat /\ Saturday \in Nat
  /\ Count \in Nat \ {0}
  /\ MaxTemperature \in Nat
  /\ Settings \in Document /\ Settings.reads >= Whole
  /\ Files \subseteq Document
  /\ MaxEvents \in Nat

VARIABLES
  hour, minute, day, \* the clock
  program,           \* program[w][k]: item k of week type w
  seams,             \* history: the items from which on a program is older than
                     \* the document read last, which failed before them
  record,            \* _programRecord: the item that is being set up
  temporary,         \* _temporaryTemperature
  events             \* the number of calls so far

clock == <<hour, minute, day>>
vars == <<clock, program, seams, record, temporary, events>>

TypeOK ==
  /\ hour \in Nat /\ minute \in Nat /\ day \in Nat
  /\ program \in [WeekType -> [Item -> ProgramItem]]
  /\ seams \in [WeekType -> SUBSET (Item \ {0})]
  /\ record \in [week : WeekType, number : Item]
  /\ temporary \in Int
  /\ events \in Nat

FirstRecord == [week |-> "WorkDays", number |-> 0]

Init ==
  /\ hour = Settings.hour /\ minute = Settings.minute /\ day = Settings.day
  /\ program = Settings.program /\ seams = [w \in WeekType |-> {}]
  /\ record = FirstRecord
  /\ temporary \in 0 .. MaxTemperature
  /\ events = 0

\* A method is called, by name, by a notification or by the user.
Event == events < MaxEvents /\ events' = events + 1

-----------------------------------------------------------------------------
(* The program in effect.                                                  *)

WeekOf(d) == IF d < Saturday THEN "WorkDays" ELSE "WeekEnds"

\* An item has started when the clock is past its time.
Started(k) ==
  LET i == program[WeekOf(day)][k]
  IN  hour > i.hour \/ (hour = i.hour /\ minute > i.minute)

\* Broken variant: the loop starts at the first item.
CurrentNumberUpwards ==
  IF \E k \in Item : Started(k)
  THEN CHOOSE k \in Item : Started(k) /\ \A j \in 0 .. k - 1 : ~Started(j)
  ELSE LastItem

\* SalusDataModel::currentProgramItem: from the last item down, the first that
\* has started; before all of them the last one.
CurrentNumber ==
  IF \E k \in Item : Started(k)
  THEN CHOOSE k \in Item : Started(k) /\ \A j \in k + 1 .. LastItem : ~Started(j)
  ELSE LastItem

currentProgramItem == program[WeekOf(day)][CurrentNumber]

-----------------------------------------------------------------------------
(* Methods that are called by name.                                        *)

Step(x, low, high, up) == IF up THEN IF x < high THEN x + 1 ELSE x
                                ELSE IF x > low THEN x - 1 ELSE x

\* incrementHour and decrementHour, and so on.
StepHour(up) ==
  /\ Event /\ hour' = Step(hour, 0, MaxHour, up)
  /\ UNCHANGED <<minute, day, program, seams, record, temporary>>

StepMinute(up) ==
  /\ Event /\ minute' = Step(minute, 0, MaxMinute, up)
  /\ UNCHANGED <<hour, day, program, seams, record, temporary>>

StepDay(up) ==
  /\ Event /\ day' = Step(day, 0, MaxDay, up)
  /\ UNCHANGED <<hour, minute, program, seams, record, temporary>>

incrementTemporaryTemperature ==
  /\ Event
  /\ temporary' = IF temporary < MaxTemperature THEN temporary + 1 ELSE temporary
  /\ UNCHANGED <<clock, program, seams, record>>

\* The guard is that of the increment.
decrementTemporaryTemperature ==
  /\ Event
  /\ temporary' = IF temporary < MaxTemperature THEN temporary - 1 ELSE temporary
  /\ UNCHANGED <<clock, program, seams, record>>

resetTemporaryTemperature ==
  /\ Event
  /\ temporary' = currentProgramItem.temperature
  /\ UNCHANGED <<clock, program, seams, record>>

\* incrementProgramDay inverts the week type, and so does decrementProgramDay.
StepProgramDay ==
  /\ Event
  /\ \E w \in WeekType \ {record.week} : record' = [record EXCEPT !.week = w]
  /\ UNCHANGED <<clock, program, seams, temporary>>

\* Broken variant: the count is taken for the last number.
StepProgramNumberToCount(up) ==
  /\ Event
  /\ record' = [record EXCEPT !.number = Step(@, 0, Count, up)]
  /\ UNCHANGED <<clock, program, seams, temporary>>

StepProgramNumber(up) ==
  /\ Event
  /\ record' = [record EXCEPT !.number = Step(@, 0, LastItem, up)]
  /\ UNCHANGED <<clock, program, seams, temporary>>

Edited == program[record.week][record.number]

ChangeItem(i) ==
  /\ Event
  /\ program' = [program EXCEPT ![record.week][record.number] = i]
  /\ UNCHANGED <<clock, seams, record, temporary>>

\* Broken variant: an item may move past its neighbours.
StepProgramHourAnywhere(up) ==
  ChangeItem([Edited EXCEPT !.hour = Step(@, 0, MaxHour, up)])

\* An item stays an hour away from its neighbours.
StepProgramHour(up) ==
  LET week == program[record.week]
      n    == record.number
      low  == IF n > 0 THEN week[n - 1].hour + 1 ELSE 0
      high == IF n < LastItem THEN week[n + 1].hour - 1 ELSE MaxHour
  IN  ChangeItem([Edited EXCEPT !.hour = Step(@, low, high, up)])

StepProgramMinute(up) ==
  ChangeItem([Edited EXCEPT !.minute = Step(@, 0, MaxMinute, up)])

StepProgramTemperature(up) ==
  ChangeItem([Edited EXCEPT !.temperature = Step(@, 0, MaxTemperature, up)])

resetProgramRecord ==
  /\ Event
  /\ record' = FirstRecord
  /\ UNCHANGED <<clock, program, seams, temporary>>

-----------------------------------------------------------------------------
(* Documents.                                                              *)

HourRead(doc, w, k) == Place(w, k) < doc.reads

\* loadFromXML assigns value by value; at the one it cannot read it throws, and
\* keeps what it has assigned.  A seam is left behind the last item that it read,
\* and the seams among the items it read are gone.
loadFromXML(doc) ==
  LET Read(n, new, old) == IF n < doc.reads THEN new ELSE old
      ReadItem(n, new, old) == [hour        |-> Read(n, new.hour, old.hour),
                                minute      |-> Read(n + 1, new.minute, old.minute),
                                temperature |-> Read(n + 2, new.temperature, old.temperature)]
  IN  /\ hour' = Read(0, doc.hour, hour)
      /\ minute' = Read(1, doc.minute, minute)
      /\ day' = Read(2, doc.day, day)
      /\ program' = [w \in WeekType |-> [k \in Item |->
                       ReadItem(Place(w, k), doc.program[w][k], program[w][k])]]
      /\ seams' = [w \in WeekType |->
                     {k \in Item \ {0} : /\ ~HourRead(doc, w, k)
                                         /\ HourRead(doc, w, k - 1) \/ k \in seams[w]}]

resetToFactorySettings ==
  /\ Event
  /\ record' = FirstRecord
  /\ loadFromXML(Settings)
  /\ UNCHANGED temporary

loadFromFile ==
  /\ Event
  /\ \E doc \in Files : loadFromXML(doc)
  /\ UNCHANGED <<record, temporary>>

Next ==
  \/ \E up \in BOOLEAN : \/ StepHour(up) \/ StepMinute(up) \/ StepDay(up)
                         \/ StepProgramNumber(up) \/ StepProgramHour(up)
                         \/ StepProgramMinute(up) \/ StepProgramTemperature(up)
  \/ incrementTemporaryTemperature \/ decrementTemporaryTemperature
  \/ resetTemporaryTemperature \/ StepProgramDay
  \/ resetProgramRecord \/ resetToFactorySettings \/ loadFromFile

Spec == Init /\ [][Next]_vars

-----------------------------------------------------------------------------
(* Properties.                                                             *)

InOrder(p) == \A w \in WeekType : \A i, j \in Item : i < j => p[w][i].hour < p[w][j].hour

FilesInOrder == \A doc \in Files \cup {Settings} : InOrder(doc.program)

\* The items of a program start in their order, in different hours, however the
\* user edits them and wherever a document fails - but for the items on the two
\* sides of a place where one failed, and nothing was read since: a document that
\* begins with 20 and 21 and fails at its third item makes 20, 21, 16, 18, 22 of
\* the defaults.  No edit adds to that.
ProgramInOrder ==
  \A w \in WeekType : \A i, j \in Item :
    i < j /\ (i + 1 .. j) \cap seams[w] = {} => program[w][i].hour < program[w][j].hour

\* While the program of the day has no such seam, the item in effect is the one
\* that started last today, or before the first start the latest of all: what the
\* search from the end finds is what the times say.
CurrentStartedLast ==
  seams[WeekOf(day)] = {} =>
    LET week  == program[WeekOf(day)]
        At(k) == week[k].hour * (MaxMinute + 1) + week[k].minute
        now   == hour * (MaxMinute + 1) + minute
        past  == {k \in Item : At(k) < now}
    IN  /\ past # {} => CurrentNumber \in past
        /\ \A k \in IF past = {} THEN Item ELSE past : At(k) <= At(CurrentNumber)
=============================================================================
