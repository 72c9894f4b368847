----------------------------- MODULE GlobalData -----------------------------
(***************************************************************************)
(* Global data between threads: the application, which sets globals and    *)
(* triggers events that carry data, and the sessions of an interpreter -   *)
(* the chart and the charts it invokes, each on its own thread - which set *)
(* globals (SetGlobal in Lua, <setvalue>) and send events through          *)
(* GlobalDataIOProcessor.  Writing the storage, telling the application    *)
(* (_OnInterpreterGlobalDataChange, outside the lock) and queueing the     *)
(* event are separate steps, and their order is not the same everywhere.   *)
(*                                                                         *)
(* A write is an identity: paths and values are the subject of DataStore.  *)
(***************************************************************************)
EXTENDS Naturals, Sequences

CONSTANTS
  Name,             \* names of globals and of the events that carry them
  Main,             \* the session of the chart that was started
  Invoked,          \* the sessions of the charts it invokes
  App,              \* the application's thread
  GlobalData,       \* not _options.DisableGlobalData
  MaxWrites,        \* bound: operations with data in a behaviour
  MaxQueue          \* bound: events waiting in a session when one more is sent

Session == Invoked \cup {Main}
Thread == Session \cup {App}
Write == 1 .. MaxWrites
NoWrite == 0

ASSUME GlobalDataAssumption ==
  /\ Main \notin Invoked /\ App \notin Session
  /\ GlobalData \in BOOLEAN
  /\ MaxWrites \in Nat /\ MaxQueue \in Nat

VARIABLES
  running,  \* the chart executes
  ready,    \* ScxmlBase::receive accepts events
  global,   \* _global_data_storage: the write whose data each global has
  queue,    \* the external queue of each session
  todo,     \* todo[t]: the steps left of the call thread t is in
  item,     \* item[t]: the write that call is about, and the event's target
  told,     \* what the callback last reported of each global
  \* history
  made,     \* the number of writes begun
  stored,   \* the writes that have been in the storage
  writers   \* the threads that have written each global

vars == <<running, ready, global, queue, todo, item, told, made, stored, writers>>

NoItem == [id |-> NoWrite]
Item == {NoItem} \cup
        [id : Write, name : Name, from : Thread, to : Session]
Event == Item \ {NoItem}

\* The calls, by the steps that are left of them.
NoCall    == <<>>
Setting   == <<"set", "notify">>
Reporting == <<"notify">>
Trigger   == <<"set", "notify", "receive">>
TriggerReporting == <<"notify", "receive">>
Queueing  == <<"receive">>
Sending   == <<"receive", "set", "notify">>
AppCalls     == {NoCall, Setting, Reporting, Trigger, TriggerReporting, Queueing}
SessionCalls == {NoCall, Sending, Setting, Reporting}

TypeOK ==
  /\ running \in BOOLEAN /\ ready \in BOOLEAN
  /\ global \in [Name -> Write \cup {NoWrite}]
  /\ told \in [Name -> Write \cup {NoWrite}]
  /\ queue \in [Session -> Seq(Event)]
  /\ todo \in [Thread -> AppCalls \cup SessionCalls]
  /\ item \in [Thread -> Item]
  /\ made \in Write \cup {NoWrite}
  /\ stored \subseteq Write
  /\ writers \in [Name -> SUBSET Thread]

Init ==
  /\ running = FALSE /\ ready = FALSE
  /\ global = [n \in Name |-> NoWrite] /\ told = [n \in Name |-> NoWrite]
  /\ queue = [s \in Session |-> <<>>]
  /\ todo = [t \in Thread |-> NoCall] /\ item = [t \in Thread |-> NoItem]
  /\ made = NoWrite /\ stored = {}
  /\ writers = [n \in Name |-> {}]

------------------------------------------------------------------------------
(* Calls: thread t begins one, with its steps in the order of the code.    *)

Idle(t) == todo[t] = NoCall

Begin(t, n, s, steps) ==
  /\ Idle(t) /\ made < MaxWrites
  /\ made' = made + 1
  /\ item' = [item EXCEPT ![t] = [id |-> made', name |-> n, from |-> t, to |-> s]]
  /\ todo' = [todo EXCEPT ![t] = steps]
  /\ UNCHANGED <<running, ready, global, queue, told, stored, writers>>

\* The first step() of the chart begins ...
StartInterpreter ==
  /\ Idle(App) /\ ~running
  /\ running' = TRUE
  /\ UNCHANGED <<ready, global, queue, todo, item, told, made, stored, writers>>

\* ... and setState() replaces USCXML_UNDEF; with AsyncStart the application
\* goes on in between.
SetState ==
  /\ running /\ ~ready
  /\ ready' = TRUE
  /\ UNCHANGED <<running, global, queue, todo, item, told, made, stored, writers>>

\* usclib_SetGlobal...Data
SetGlobalData(n) == Begin(App, n, Main, Setting)

\* Broken variant: the event is queued before its data is stored.
TriggerEventFirst(n) ==
  Len(queue[Main]) < MaxQueue /\
  Begin(App, n, Main, IF GlobalData THEN Sending ELSE Queueing)

\* usclib_TriggerIntEvent and its siblings for the other types.
TriggerDataEvent(n) ==
  Len(queue[Main]) < MaxQueue /\
  Begin(App, n, Main, IF GlobalData THEN Trigger ELSE Queueing)

\* LuaDataModelEx::SetGlobal, called by a script of session s.
SetGlobal(s, n) == running /\ Begin(s, n, s, Setting)

\* SetValueExecutableContent: <setvalue> with its attributes in order; without
\* them it throws before it comes to the storage.
exitElement(s, n) == running /\ Begin(s, n, s, Setting)

\* GlobalDataIOProcessor::eventFromSCXML: the event first, then the global.
eventFromSCXML(s, n, target) ==
  /\ running /\ Len(queue[target]) < MaxQueue
  /\ Begin(s, n, target, Sending)

------------------------------------------------------------------------------
(* The steps of the calls.                                                 *)

Step(t, step) == todo[t] # NoCall /\ Head(todo[t]) = step

\* Broken variant: the steps are taken off at the wrong end.
DoneDropsLast(t) ==
  /\ todo' = [todo EXCEPT ![t] = SubSeq(@, 1, Len(@) - 1)]
  /\ item' = [item EXCEPT ![t] = IF Len(todo[t]) = 1 THEN NoItem ELSE @]

\* The step is done; the thread forgets the write when it was the last one.
Done(t) ==
  /\ todo' = [todo EXCEPT ![t] = Tail(@)]
  /\ item' = [item EXCEPT ![t] = IF Len(todo[t]) = 1 THEN NoItem ELSE @]

\* The part of setGlobal under the lock.
Store(t) ==
  /\ Step(t, "set")
  /\ LET n == item[t].name IN
       /\ global' = [global EXCEPT ![n] = item[t].id]
       /\ writers' = [writers EXCEPT ![n] = @ \cup {t}]
  /\ stored' = stored \cup {item[t].id}
  /\ Done(t)
  /\ UNCHANGED <<running, ready, queue, told, made>>

\* Broken variant: only the application's own writes are reported.
NotifyApp(t) ==
  /\ Step(t, "notify")
  /\ told' = IF t = App THEN [told EXCEPT ![item[t].name] = item[t].id] ELSE told
  /\ Done(t)
  /\ UNCHANGED <<running, ready, global, queue, made, stored, writers>>

\* The callback, after the lock was released.
Notify(t) ==
  /\ Step(t, "notify")
  /\ told' = [told EXCEPT ![item[t].name] = item[t].id]
  /\ Done(t)
  /\ UNCHANGED <<running, ready, global, queue, made, stored, writers>>

\* ScxmlBase::receive, or the queue of the target of a <send>.  An application
\* that triggers too early gets an error; what it has set stays set.
Receive(t) ==
  /\ Step(t, "receive")
  /\ queue' = IF t # App \/ ready
              THEN [queue EXCEPT ![item[t].to] = Append(@, item[t])] ELSE queue
  /\ Done(t)
  /\ UNCHANGED <<running, ready, global, told, made, stored, writers>>

\* A session that is executing nothing takes its next event.
Take(s) ==
  /\ Idle(s) /\ queue[s] # <<>>
  /\ queue' = [queue EXCEPT ![s] = Tail(@)]
  /\ UNCHANGED <<running, ready, global, todo, item, told, made, stored, writers>>

Next ==
  \/ StartInterpreter \/ SetState
  \/ \E n \in Name : SetGlobalData(n) \/ TriggerDataEvent(n)
  \/ \E s \in Session, n \in Name :
       \/ SetGlobal(s, n) \/ exitElement(s, n)
       \/ \E target \in Session : eventFromSCXML(s, n, target)
  \/ \E t \in Thread : Store(t) \/ Notify(t) \/ Receive(t)
  \/ \E s \in Session : Take(s)

Spec == Init /\ [][Next]_vars

------------------------------------------------------------------------------
(* Properties                                                              *)

\* A chart that takes an event with data finds that data, or a later write, in
\* the global of the event's name: always for events of the application, and
\* for events it sent itself.  An event that another session sent may be taken
\* before eventFromSCXML() gets to the global.
EventFindsItsData ==
  GlobalData =>
    \A s \in Session : Idle(s) /\ queue[s] # <<>> =>
      LET e == Head(queue[s])
      IN  e.from \in {App, s} => e.id \in stored

\* When no call is going on, the callback has last reported the data that a
\* global has, if only one thread ever wrote it: setGlobal() calls it without
\* the lock, so that two writers' reports may come in the wrong order.
ReportsArriveInOrder ==
  (\A t \in Thread : Idle(t)) =>
    \A n \in Name : (\A t, u \in writers[n] : t = u) => told[n] = global[n]
==============================================================================
