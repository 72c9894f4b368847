--------------------------- MODULE GlobalDataProofs ---------------------------
(***************************************************************************)
(* Proofs about global data between threads, for any number of sessions,   *)
(* globals and writes.  The inductive invariant says which calls are the   *)
(* application's and which a session's, what a call has already done when  *)
(* it comes to each of its steps, and what is true of an event from the    *)
(* moment it is in a queue.                                                *)
(***************************************************************************)
EXTENDS GlobalData, SequenceTheorems, TLAPS

\* Who is in which call; the item is there as long as the call.
CallStructure ==
  /\ todo[App] \in AppCalls
  /\ todo[App] = Queueing /\ GlobalData => item[App].id \in stored
  /\ todo[App] = TriggerReporting => item[App].id \in stored
  /\ \A s \in Session : todo[s] \in SessionCalls
  /\ \A t \in Thread : todo[t] # NoCall => item[t] \in Event /\ item[t].from = t

\* An event of the application is queued after its data was stored; one that a
\* session sent, at most one step of that session before.
QueueStructure ==
  \A s \in Session : \A i \in DOMAIN queue[s] :
    LET e == queue[s][i]
    IN  /\ e.from = App /\ GlobalData => e.id \in stored
        /\ \A u \in Session : e.from = u =>
             \/ e.id \in stored
             \/ todo[u] = Setting /\ item[u].id = e.id

\* Thread t is about to report its write of n.
Reports(t, n) == Step(t, "notify") /\ item[t].name = n

\* The report of a global with one writer is right or about to be made.
ReportStructure ==
  /\ \A t \in Thread, n \in Name : Reports(t, n) => t \in writers[n]
  /\ \A n \in Name : writers[n] = {} => told[n] = global[n]
  /\ \A n \in Name, t \in Thread : writers[n] = {t} =>
       \/ Reports(t, n) /\ item[t].id = global[n]
       \/ ~Reports(t, n) /\ told[n] = global[n]

IInv == TypeOK /\ CallStructure /\ QueueStructure /\ ReportStructure

------------------------------------------------------------------------------
(* Lemmas about the steps of calls and about queues.                       *)

\* The steps of the calls.
LEMMA Calls ==
  /\ Head(Trigger) = "set" /\ Tail(Trigger) = TriggerReporting /\ Len(Trigger) = 3
  /\ Head(Sending) = "receive" /\ Tail(Sending) = Setting /\ Len(Sending) = 3
  /\ Head(TriggerReporting) = "notify" /\ Tail(TriggerReporting) = Queueing
  /\ Len(TriggerReporting) = 2
  /\ Head(Setting) = "set" /\ Tail(Setting) = Reporting /\ Len(Setting) = 2
  /\ Head(Reporting) = "notify" /\ Tail(Reporting) = NoCall /\ Len(Reporting) = 1
  /\ Head(Queueing) = "receive" /\ Tail(Queueing) = NoCall /\ Len(Queueing) = 1
<1> USE DEF Trigger, Sending, TriggerReporting, Setting, Reporting, Queueing, NoCall
<1>1. Head(Trigger) = "set" /\ Tail(Trigger) = TriggerReporting /\ Len(Trigger) = 3
  OBVIOUS
<1>2. Head(Sending) = "receive" /\ Tail(Sending) = Setting /\ Len(Sending) = 3
  OBVIOUS
<1>3. /\ Head(TriggerReporting) = "notify" /\ Tail(TriggerReporting) = Queueing
      /\ Len(TriggerReporting) = 2
  OBVIOUS
<1>4. Head(Setting) = "set" /\ Tail(Setting) = Reporting /\ Len(Setting) = 2
  OBVIOUS
<1>5. Head(Reporting) = "notify" /\ Tail(Reporting) = NoCall /\ Len(Reporting) = 1
  OBVIOUS
<1>6. Head(Queueing) = "receive" /\ Tail(Queueing) = NoCall /\ Len(Queueing) = 1
  OBVIOUS
<1>7. QED
  BY <1>1, <1>2, <1>3, <1>4, <1>5, <1>6

\* No two calls are the same.
LEMMA CallsDiffer ==
  /\ Trigger \notin {Sending, TriggerReporting, Setting, Reporting, Queueing, NoCall}
  /\ Sending \notin {TriggerReporting, Setting, Reporting, Queueing, NoCall}
  /\ TriggerReporting \notin {Setting, Reporting, Queueing, NoCall}
  /\ Setting \notin {Reporting, Queueing, NoCall}
  /\ Reporting \notin {Queueing, NoCall}
  /\ Queueing # NoCall
<1>1. Len(NoCall) = 0
  BY DEF NoCall
<1>2. Trigger \notin {Sending, TriggerReporting, Setting, Reporting, Queueing, NoCall}
  BY <1>1, Calls
<1>3. Sending \notin {TriggerReporting, Setting, Reporting, Queueing, NoCall}
  BY <1>1, Calls
<1>4. TriggerReporting \notin {Setting, Reporting, Queueing, NoCall}
  BY <1>1, Calls
<1>5. Setting \notin {Reporting, Queueing, NoCall} /\ Reporting \notin {Queueing, NoCall}
  BY <1>1, Calls
<1>6. Queueing # NoCall
  BY <1>1, Calls
<1>7. QED
  BY <1>2, <1>3, <1>4, <1>5, <1>6

\* The calls that end with their next step, and those that do not.
LEMMA LastStep ==
  /\ Len(Reporting) = 1 /\ Tail(Reporting) = NoCall
  /\ Len(Queueing) = 1 /\ Tail(Queueing) = NoCall
  /\ Len(Trigger) # 1 /\ Tail(Trigger) = TriggerReporting
  /\ Len(TriggerReporting) # 1 /\ Tail(TriggerReporting) = Queueing
  /\ Len(Setting) # 1 /\ Tail(Setting) = Reporting
  /\ Len(Sending) # 1 /\ Tail(Sending) = Setting
<1>1. Len(Trigger) # 1 /\ Len(Sending) # 1
  BY DEF Trigger, Sending
<1>2. Len(TriggerReporting) # 1 /\ Len(Setting) # 1
  BY DEF TriggerReporting, Setting
<1>3. QED
  BY <1>1, <1>2, Calls

\* What Done() does to the call of a thread that has at least one step left.
LEMMA DoneSteps ==
  ASSUME TypeOK, NEW t \in Thread, Done(t)
  PROVE  /\ todo' = [todo EXCEPT ![t] = Tail(todo[t])]
         /\ Len(todo[t]) = 1 => item' = [item EXCEPT ![t] = NoItem]
         /\ Len(todo[t]) # 1 => item' = item
<1>1. todo' = [todo EXCEPT ![t] = Tail(todo[t])]
  BY DEF Done
<1>2. ASSUME Len(todo[t]) = 1 PROVE item' = [item EXCEPT ![t] = NoItem]
  BY <1>2 DEF Done
<1>3. ASSUME Len(todo[t]) # 1 PROVE item' = item
  <2>1. item' = [item EXCEPT ![t] = @]
    BY <1>3 DEF Done
  <2>2. QED
    BY <2>1 DEF TypeOK
<1>4. QED
  BY <1>1, <1>2, <1>3

\* Which call a thread is in, by the step it is about to take.
LEMMA StepOfCall ==
  ASSUME IInv, NEW t \in Thread, NEW step, Step(t, step)
  PROVE  /\ step = "set" => todo[t] = Setting \/ (t = App /\ todo[t] = Trigger)
         /\ step = "notify" =>
              todo[t] = Reporting \/ (t = App /\ todo[t] = TriggerReporting)
         /\ step = "receive" =>
              \/ t = App /\ todo[t] = Queueing
              \/ t \in Session /\ todo[t] = Sending
         /\ item[t] \in Event /\ item[t].from = t
<1>1. item[t] \in Event /\ item[t].from = t
  BY DEF Step, IInv, CallStructure
<1>2. \/ t = App /\ todo[t] \in AppCalls
      \/ t \in Session /\ todo[t] \in SessionCalls
  BY DEF IInv, CallStructure, Thread
<1>3. todo[t] # NoCall /\ Head(todo[t]) = step
  BY DEF Step
<1>4. "set" # "notify" /\ "set" # "receive" /\ "notify" # "receive"
  OBVIOUS
<1>5. CASE t = App /\ todo[t] \in AppCalls
  BY <1>1, <1>3, <1>4, <1>5, Calls DEF AppCalls
<1>6. CASE t \in Session /\ todo[t] \in SessionCalls
  BY <1>1, <1>3, <1>4, <1>6, Calls DEF SessionCalls
<1>7. QED
  BY <1>2, <1>5, <1>6

------------------------------------------------------------------------------
(* One lemma per step: it keeps the invariant.                             *)

\* A thread begins one of its calls.
LEMMA BeginKeeps ==
  ASSUME IInv, NEW t \in Thread, NEW n \in Name, NEW s \in Session, NEW steps,
         Begin(t, n, s, steps), steps # NoCall, ~(steps = Reporting),
         Head(steps) # "notify",
         t = App => steps \in AppCalls \ {TriggerReporting}
                    /\ (steps = Queueing => ~GlobalData),
         t # App => steps \in SessionCalls
  PROVE  IInv'
<1>1. TypeOK'
  BY GlobalDataAssumption DEF Begin, IInv, TypeOK, Thread, Session, Item, Event, NoItem,
     Write, NoWrite, AppCalls, SessionCalls
<1>2. CallStructure'
  BY GlobalDataAssumption DEF Begin, Idle, IInv, TypeOK, CallStructure, Thread, Session,
     Item, Event, NoItem, Write, NoWrite
<1>3. QueueStructure'
  <2>1. queue' = queue /\ stored' = stored
    BY DEF Begin
  <2>2. ASSUME NEW u \in Session, todo[u] = Setting
        PROVE  todo'[u] = Setting /\ item'[u] = item[u]
    <3>1. u # t /\ u \in Thread
      BY <2>2, CallsDiffer DEF Begin, Idle, Thread
    <3>2. QED
      BY <2>2, <3>1 DEF Begin, IInv, TypeOK
  <2>3. QED
    BY <2>1, <2>2 DEF IInv, QueueStructure
<1>4. ReportStructure'
  <2>1. ASSUME NEW u \in Thread, NEW m \in Name
        PROVE  (Reports(u, m)' <=> Reports(u, m)) /\ (Reports(u, m) => item'[u] = item[u])
    <3>1. CASE u = t
      BY <3>1 DEF Begin, Idle, Reports, Step, IInv, TypeOK
    <3>2. CASE u # t
      BY <3>2 DEF Begin, Reports, Step, IInv, TypeOK
    <3>3. QED
      BY <3>1, <3>2
  <2>2. UNCHANGED <<told, global, writers>>
    BY DEF Begin
  <2>3. QED
    BY <2>1, <2>2 DEF IInv, ReportStructure
<1>5. QED
  BY <1>1, <1>2, <1>3, <1>4 DEF IInv

\* A write gets into the storage: what its call still has to do, and events
\* that wait for it, may rely on it from now on.
LEMMA StoreKeeps ==
  ASSUME IInv, NEW t \in Thread, Store(t)
  PROVE  IInv'
<1>0. /\ todo[t] \in {Setting, Trigger}
      /\ todo[t] = Trigger => t = App
      /\ item[t] \in Event /\ item[t].from = t
  BY StepOfCall, CallsDiffer DEF Store
<1>t. Tail(todo[t]) = IF todo[t] = Setting THEN Reporting ELSE TriggerReporting
  BY <1>0, Calls, CallsDiffer
<1>a. /\ todo' = [todo EXCEPT ![t] = IF todo[t] = Setting
                                      THEN Reporting ELSE TriggerReporting]
      /\ item' = item /\ stored' = stored \cup {item[t].id}
  <2>1. Len(todo[t]) # 1
    BY <1>0, LastStep
  <2>2. QED
    BY <1>t, <2>1, DoneSteps DEF Store, IInv
<1>b. item[t].id \in Write /\ item[t].name \in Name
  BY <1>0 DEF Event, Item, NoItem
<1>1. TypeOK'
  <2>1. todo' \in [Thread -> AppCalls \cup SessionCalls]
    BY <1>a DEF IInv, TypeOK, AppCalls, SessionCalls
  <2>2. /\ global' \in [Name -> Write \cup {NoWrite}]
        /\ writers' \in [Name -> SUBSET Thread] /\ stored' \subseteq Write
    BY <1>a, <1>b DEF Store, IInv, TypeOK
  <2>3. QED
    BY <1>a, <2>1, <2>2 DEF Store, IInv, TypeOK
<1>2. CallStructure'
  BY <1>0, <1>a, Calls, CallsDiffer, GlobalDataAssumption DEF Store, IInv, TypeOK,
     CallStructure, AppCalls, SessionCalls, Thread
<1>3. QueueStructure'
  BY <1>0, <1>a, GlobalDataAssumption DEF Store, IInv, TypeOK, QueueStructure, Thread
<1>4. ReportStructure'
  <2>1. ASSUME NEW u \in Thread, NEW n \in Name
        PROVE  Reports(u, n)' <=> Reports(u, n) \/ (u = t /\ n = item[t].name)
    <3>1. CASE u = t
      BY <1>0, <1>a, <3>1, Calls, CallsDiffer DEF Reports, Step, IInv, TypeOK
    <3>2. CASE u # t
      BY <1>a, <3>2 DEF Reports, Step, IInv, TypeOK
    <3>3. QED
      BY <3>1, <3>2
  <2>2. ASSUME NEW n \in Name PROVE ~Reports(t, n)
    BY DEF Store, Reports, Step
  <2>3. ASSUME NEW n \in Name, n # item[t].name
        PROVE  /\ global'[n] = global[n] /\ told'[n] = told[n]
               /\ writers'[n] = writers[n]
    BY <2>3 DEF Store, IInv, TypeOK
  <2>4. /\ global'[item[t].name] = item[t].id
        /\ writers'[item[t].name] = writers[item[t].name] \cup {t}
    BY <1>b DEF Store, IInv, TypeOK
  <2>5. \A u \in Thread, n \in Name : Reports(u, n)' => u \in writers'[n]
    BY <2>1, <2>3, <2>4 DEF IInv, ReportStructure
  <2>6. \A n \in Name : writers'[n] = {} => told'[n] = global'[n]
    BY <2>3, <2>4 DEF IInv, ReportStructure
  <2>7. ASSUME NEW n \in Name, NEW u \in Thread, writers'[n] = {u}
        PROVE  \/ Reports(u, n)' /\ item'[u].id = global'[n]
               \/ ~Reports(u, n)' /\ told'[n] = global'[n]
    <3>1. CASE n = item[t].name
      BY <1>a, <2>1, <2>4, <2>7, <3>1
    <3>2. CASE n # item[t].name
      BY <1>a, <2>1, <2>3, <2>7, <3>2 DEF IInv, ReportStructure
    <3>3. QED
      BY <3>1, <3>2
  <2>8. QED
    BY <2>5, <2>6, <2>7 DEF ReportStructure
<1>5. QED
  BY <1>1, <1>2, <1>3, <1>4 DEF IInv

\* The callback of a global with one writer reports what that writer wrote.
LEMMA NotifyKeeps ==
  ASSUME IInv, NEW t \in Thread, Notify(t)
  PROVE  IInv'
<1>0. /\ todo[t] \in {Reporting, TriggerReporting}
      /\ todo[t] = TriggerReporting => t = App
      /\ item[t] \in Event /\ item[t].from = t
  BY StepOfCall, CallsDiffer DEF Notify
<1>a. /\ todo' = [todo EXCEPT ![t] = IF todo[t] = Reporting THEN NoCall ELSE Queueing]
      /\ item' = IF todo[t] = Reporting THEN [item EXCEPT ![t] = NoItem] ELSE item
  <2>1. CASE todo[t] = Reporting
    BY <2>1, LastStep, DoneSteps DEF Notify, IInv
  <2>2. CASE todo[t] = TriggerReporting
    BY <2>2, LastStep, CallsDiffer, DoneSteps DEF Notify, IInv
  <2>3. QED
    BY <1>0, <2>1, <2>2
<1>b. item[t].id \in Write /\ item[t].name \in Name
  BY <1>0 DEF Event, Item, NoItem
<1>1. TypeOK'
  <2>1. todo' \in [Thread -> AppCalls \cup SessionCalls]
    BY <1>a DEF IInv, TypeOK, AppCalls, SessionCalls
  <2>2. item' \in [Thread -> Item]
    BY <1>a DEF IInv, TypeOK, Item
  <2>3. told' \in [Name -> Write \cup {NoWrite}]
    BY <1>b DEF Notify, IInv, TypeOK
  <2>4. QED
    BY <2>1, <2>2, <2>3 DEF Notify, IInv, TypeOK
<1>2. CallStructure'
  BY <1>0, <1>a, Calls, CallsDiffer, GlobalDataAssumption DEF Notify, IInv, TypeOK,
     CallStructure, AppCalls, SessionCalls, Thread
<1>3. QueueStructure'
  <2>1. queue' = queue /\ stored' = stored
    BY DEF Notify
  <2>2. ASSUME NEW u \in Session, todo[u] = Setting
        PROVE  todo'[u] = Setting /\ item'[u] = item[u]
    BY <1>0, <1>a, <2>2, CallsDiffer DEF IInv, TypeOK, Thread
  <2>3. QED
    BY <2>1, <2>2 DEF IInv, QueueStructure
<1>4. ReportStructure'
  <2>1. ASSUME NEW u \in Thread, NEW n \in Name
        PROVE  Reports(u, n)' <=> Reports(u, n) /\ u # t
    <3>1. CASE u = t
      BY <1>0, <1>a, <3>1, Calls, CallsDiffer DEF Reports, Step, IInv, TypeOK
    <3>2. CASE u # t
      BY <1>a, <3>2 DEF Reports, Step, IInv, TypeOK
    <3>3. QED
      BY <3>1, <3>2
  <2>2. Reports(t, item[t].name) /\ t \in writers[item[t].name]
    BY <1>b DEF Notify, Reports, IInv, ReportStructure
  <2>3. ASSUME NEW n \in Name PROVE global'[n] = global[n] /\ writers'[n] = writers[n]
    BY DEF Notify
  <2>4. ASSUME NEW n \in Name
        PROVE  told'[n] = IF n = item[t].name THEN item[t].id ELSE told[n]
    BY DEF Notify, IInv, TypeOK
  <2>5. ASSUME NEW u \in Thread, u # t PROVE item'[u] = item[u]
    BY <1>a, <2>5 DEF IInv, TypeOK
  <2>6. \A u \in Thread, n \in Name : Reports(u, n)' => u \in writers'[n]
    BY <2>1, <2>3 DEF IInv, ReportStructure
  <2>7. \A n \in Name : writers'[n] = {} => told'[n] = global'[n]
    BY <2>2, <2>3, <2>4 DEF IInv, ReportStructure
  <2>8. ASSUME NEW n \in Name, NEW u \in Thread, writers'[n] = {u}
        PROVE  \/ Reports(u, n)' /\ item'[u].id = global'[n]
               \/ ~Reports(u, n)' /\ told'[n] = global'[n]
    <3>1. CASE n = item[t].name
      BY <2>1, <2>2, <2>3, <2>4, <2>8, <3>1 DEF IInv, ReportStructure
    <3>2. CASE n # item[t].name
      <4>1. ~Reports(t, n)
        BY <3>2 DEF Reports
      <4>2. QED
        BY <2>1, <2>3, <2>4, <2>5, <2>8, <3>2, <4>1 DEF IInv, ReportStructure
    <3>3. QED
      BY <3>1, <3>2
  <2>9. QED
    BY <2>6, <2>7, <2>8 DEF ReportStructure
<1>5. QED
  BY <1>1, <1>2, <1>3, <1>4 DEF IInv

\* An event goes to the end of a queue.
LEMMA ReceiveKeeps ==
  ASSUME IInv, NEW t \in Thread, Receive(t)
  PROVE  IInv'
<1>0. /\ todo[t] \in {Queueing, Sending}
      /\ todo[t] = Sending => t \in Session
      /\ todo[t] = Queueing => t = App
      /\ item[t] \in Event /\ item[t].from = t
  BY StepOfCall, CallsDiffer DEF Receive
<1>a. /\ todo' = [todo EXCEPT ![t] = IF todo[t] = Queueing THEN NoCall ELSE Setting]
      /\ item' = IF todo[t] = Queueing THEN [item EXCEPT ![t] = NoItem] ELSE item
  <2>1. CASE todo[t] = Queueing
    BY <2>1, LastStep, DoneSteps DEF Receive, IInv
  <2>2. CASE todo[t] = Sending
    BY <2>2, LastStep, CallsDiffer, DoneSteps DEF Receive, IInv
  <2>3. QED
    BY <1>0, <2>1, <2>2
<1>b. item[t].to \in Session
  BY <1>0 DEF Event, Item, NoItem
<1>1. TypeOK'
  <2>1. todo' \in [Thread -> AppCalls \cup SessionCalls]
    BY <1>a DEF IInv, TypeOK, AppCalls, SessionCalls
  <2>2. item' \in [Thread -> Item]
    BY <1>a DEF IInv, TypeOK, Item
  <2>3. queue' \in [Session -> Seq(Event)]
    BY <1>0, <1>b DEF Receive, IInv, TypeOK
  <2>4. QED
    BY <2>1, <2>2, <2>3 DEF Receive, IInv, TypeOK
<1>2. CallStructure'
  BY <1>0, <1>a, Calls, CallsDiffer, GlobalDataAssumption DEF Receive, IInv, TypeOK,
     CallStructure, AppCalls, SessionCalls, Thread
<1>3. QueueStructure'
  <2>1. stored' = stored
    BY DEF Receive
  <2>2. ASSUME NEW u \in Session, todo[u] = Setting
        PROVE  todo'[u] = Setting /\ item'[u] = item[u]
    BY <1>0, <1>a, <2>2, CallsDiffer, Calls DEF IInv, TypeOK, Thread
  <2>3. /\ item[t].from = App /\ GlobalData => item[t].id \in stored
        /\ \A u \in Session : item[t].from = u =>
             todo'[u] = Setting /\ item'[u].id = item[t].id
    BY <1>0, <1>a, GlobalDataAssumption, CallsDiffer, Calls
       DEF IInv, TypeOK, CallStructure, Thread
  <2>4. ASSUME NEW s \in Session, NEW i \in DOMAIN queue'[s]
        PROVE  \/ i \in DOMAIN queue[s] /\ queue'[s][i] = queue[s][i]
               \/ queue'[s][i] = item[t]
    <3>1. queue[s] \in Seq(Event)
      BY DEF IInv, TypeOK
    <3>2. CASE queue'[s] = queue[s]
      BY <3>2
    <3>3. CASE queue'[s] = Append(queue[s], item[t])
      BY <3>1, <3>3, <1>0
    <3>4. QED
      BY <3>2, <3>3, <1>b DEF Receive, IInv, TypeOK
  <2>5. QED
    BY <2>1, <2>2, <2>3, <2>4 DEF IInv, QueueStructure
<1>4. ReportStructure'
  <2>1. ASSUME NEW u \in Thread, NEW n \in Name
        PROVE  (Reports(u, n)' <=> Reports(u, n)) /\ (Reports(u, n) => item'[u] = item[u])
    <3>1. CASE u = t
      BY <1>0, <1>a, <3>1, Calls, CallsDiffer DEF Reports, Step, IInv, TypeOK
    <3>2. CASE u # t
      BY <1>a, <3>2 DEF Reports, Step, IInv, TypeOK
    <3>3. QED
      BY <3>1, <3>2
  <2>2. UNCHANGED <<told, global, writers>>
    BY DEF Receive
  <2>3. QED
    BY <2>1, <2>2 DEF IInv, ReportStructure
<1>5. QED
  BY <1>1, <1>2, <1>3, <1>4 DEF IInv

\* A session takes the event at the head of its queue.
LEMMA TakeKeeps ==
  ASSUME IInv, NEW s \in Session, Take(s)
  PROVE  IInv'
<1>0. /\ queue[s] \in Seq(Event) /\ queue[s] # <<>>
      /\ queue' = [queue EXCEPT ![s] = Tail(queue[s])]
  BY DEF Take, IInv, TypeOK
<1>1. TypeOK'
  BY <1>0 DEF Take, IInv, TypeOK
<1>2. CallStructure' /\ ReportStructure'
  BY DEF Take, IInv, CallStructure, ReportStructure, Reports, Step
<1>3. QueueStructure'
  <2>1. ASSUME NEW u \in Session, NEW i \in DOMAIN queue'[u]
        PROVE  \E j \in DOMAIN queue[u] : queue'[u][i] = queue[u][j]
    <3>1. CASE u = s
      <4>1. i \in 1 .. Len(queue[s]) - 1 /\ queue'[u][i] = queue[s][i + 1]
        BY <1>0, <2>1, <3>1 DEF IInv, TypeOK
      <4>2. QED
        BY <1>0, <3>1, <4>1
    <3>2. CASE u # s
      BY <1>0, <2>1, <3>2 DEF IInv, TypeOK
    <3>3. QED
      BY <3>1, <3>2
  <2>2. UNCHANGED <<todo, item, stored>>
    BY DEF Take
  <2>3. QED
    BY <2>1, <2>2 DEF IInv, QueueStructure
<1>4. QED
  BY <1>1, <1>2, <1>3 DEF IInv

------------------------------------------------------------------------------
(* The invariant and what follows from it.                                 *)

\* Nothing has been written or sent.
LEMMA InitEstablishes == Init => IInv
<1> SUFFICES ASSUME Init PROVE IInv
  OBVIOUS
<1>1. TypeOK
  <2>1. todo \in [Thread -> AppCalls \cup SessionCalls]
    BY DEF Init, AppCalls
  <2>2. item \in [Thread -> Item]
    BY DEF Init, Item
  <2>3. queue \in [Session -> Seq(Event)]
    BY DEF Init
  <2>4. QED
    BY <2>1, <2>2, <2>3, GlobalDataAssumption DEF Init, TypeOK, NoWrite
<1>2. CallStructure
  BY GlobalDataAssumption, Calls DEF Init, CallStructure, AppCalls, SessionCalls, Thread
<1>3. QueueStructure /\ ReportStructure
  BY DEF Init, QueueStructure, ReportStructure,
     Reports, Step
<1>4. QED
  BY <1>1, <1>2, <1>3 DEF IInv

\* Every step keeps the invariant.
LEMMA StepPreserves == IInv /\ [Next]_vars => IInv'
<1> SUFFICES ASSUME IInv, [Next]_vars PROVE IInv'
  OBVIOUS
<1>1. CASE StartInterpreter \/ SetState
  <2>1. UNCHANGED <<global, queue, todo, item, told, made, stored, writers>>
    BY <1>1 DEF StartInterpreter, SetState
  <2>2. running' \in BOOLEAN /\ ready' \in BOOLEAN
    BY <1>1 DEF StartInterpreter, SetState, IInv, TypeOK
  <2>3. TypeOK'
    BY <2>1, <2>2 DEF IInv, TypeOK
  <2>4. CallStructure' /\ QueueStructure' /\ ReportStructure'
    BY <2>1 DEF IInv, CallStructure, QueueStructure, ReportStructure, Reports, Step
  <2>5. QED
    BY <2>3, <2>4 DEF IInv
<1>2. ASSUME NEW n \in Name, SetGlobalData(n) PROVE IInv'
  BY <1>2, BeginKeeps, Calls, CallsDiffer, GlobalDataAssumption
     DEF SetGlobalData, AppCalls, Thread, Session
<1>3. ASSUME NEW n \in Name, TriggerDataEvent(n) PROVE IInv'
  <2>1. CASE GlobalData
    BY <1>3, <2>1, BeginKeeps, Calls, CallsDiffer, GlobalDataAssumption
       DEF TriggerDataEvent, AppCalls, Thread, Session
  <2>2. CASE ~GlobalData
    BY <1>3, <2>2, BeginKeeps, Calls, CallsDiffer, GlobalDataAssumption
       DEF TriggerDataEvent, AppCalls, Thread, Session
  <2>3. QED
    BY <2>1, <2>2
<1>4. ASSUME NEW s \in Session, NEW n \in Name, SetGlobal(s, n) \/ exitElement(s, n)
      PROVE  IInv'
  BY <1>4, BeginKeeps, Calls, CallsDiffer, GlobalDataAssumption
     DEF SetGlobal, exitElement, SessionCalls, Thread
<1>5. ASSUME NEW s \in Session, NEW n \in Name, NEW target \in Session,
             eventFromSCXML(s, n, target)
      PROVE  IInv'
  BY <1>5, BeginKeeps, Calls, CallsDiffer, GlobalDataAssumption
     DEF eventFromSCXML, SessionCalls, Thread
<1>6. ASSUME NEW t \in Thread, Store(t) \/ Notify(t) \/ Receive(t) PROVE IInv'
  BY <1>6, StoreKeeps, NotifyKeeps, ReceiveKeeps
<1>7. ASSUME NEW s \in Session, Take(s) PROVE IInv'
  BY <1>7, TakeKeeps
<1>8. CASE UNCHANGED vars
  BY <1>8 DEF vars, IInv, TypeOK, CallStructure, QueueStructure, ReportStructure,
     Reports, Step
<1>9. QED
  BY <1>1, <1>2, <1>3, <1>4, <1>5, <1>6, <1>7, <1>8 DEF Next

\* The invariant holds in every reachable state.
LEMMA Invariant == Spec => []IInv
  BY InitEstablishes, StepPreserves, PTL DEF Spec

\* Calls and events keep their form in every interleaving of the threads.
THEOREM DataTypeCorrect == Spec => []TypeOK
<1>1. IInv => TypeOK
  BY DEF IInv
<1>2. QED
  BY Invariant, <1>1, PTL

\* A chart finds the data of an event of the application, or of its own, in
\* the storage when it takes the event.
THEOREM DataIsThereWithTheEvent == Spec => []EventFindsItsData
<1>1. IInv => EventFindsItsData
  <2> SUFFICES ASSUME IInv, GlobalData, NEW s \in Session, Idle(s), queue[s] # <<>>,
                      Head(queue[s]).from \in {App, s}
               PROVE  Head(queue[s]).id \in stored
    BY DEF EventFindsItsData
  <2>1. 1 \in DOMAIN queue[s] /\ Head(queue[s]) = queue[s][1]
    BY DEF IInv, TypeOK
  <2>2. todo[s] # Setting
    BY Calls DEF Idle
  <2>3. QED
    BY <2>1, <2>2 DEF IInv, QueueStructure
<1>2. QED
  BY Invariant, <1>1, PTL

\* When all is quiet, a global that one thread writes has been reported last
\* with the data it has.
THEOREM ReportsAreLastWrites == Spec => []ReportsArriveInOrder
<1>1. IInv => ReportsArriveInOrder
  <2> SUFFICES ASSUME IInv, \A t \in Thread : Idle(t), NEW n \in Name,
                      \A t, u \in writers[n] : t = u
               PROVE  told[n] = global[n]
    BY DEF ReportsArriveInOrder
  <2>1. \A t \in Thread : ~Reports(t, n)
    BY DEF Idle, Reports, Step
  <2>2. writers[n] = {} \/ \E t \in Thread : writers[n] = {t}
    BY DEF IInv, TypeOK
  <2>3. QED
    BY <2>1, <2>2 DEF IInv, ReportStructure
<1>2. QED
  BY Invariant, <1>1, PTL
==============================================================================
