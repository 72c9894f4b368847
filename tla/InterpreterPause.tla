--------------------------- MODULE InterpreterPause ---------------------------
(***************************************************************************)
(* Pausing a started interpreter: ScxmlBase::pause and resume stop and     *)
(* restart the clock of the interpreter (AppTimer) and, one after another, *)
(* its delayed event queues (UscxmlCLibPausableQueue.cpp): those of the    *)
(* invoked charts, in _nestedDelayQueue, and then its own.  The            *)
(* interpreter thread and the threads of the queues go on meanwhile, so    *)
(* charts send, cancel, invoke and events become due between any two steps *)
(* of the two calls.                                                       *)
(*                                                                         *)
(* The application calls as the usage chart allows: pause when active,     *)
(* resume when paused.                                                     *)
(***************************************************************************)
EXTENDS Integers

CONSTANTS
  Event,   \* the delayed sends of a behaviour
  Main,    \* _queue_ptr
  Nested,  \* the queues made by PausableDelayedEventQueue::create
  Delay,   \* bound: the delays charts ask for
  MaxNow,  \* bound: the system clock
  MaxRead, \* bound: the time between the two clock reads of AppTimer::pause
  None

Queue == Nested \cup {Main}

ASSUME PauseAssumption ==
  /\ Main \notin Nested
  /\ None \notin Queue
  /\ Delay \subseteq Nat
  /\ MaxNow \in Nat /\ MaxRead \in Nat

VARIABLES
  \* the clock and the interpreter's AppTimer
  now, active, tpStart, tpPause, tdElapsed, tdPaused, timerState, ran,
  \* the application thread
  pc,        \* "idle", or inside "pausing", "resuming" or "clock"
  visited,   \* the queues this call is done with
  current,   \* the queue whose pause() is going on
  \* the queues
  alive,     \* the nested queues whose invoker still holds them
  pausedAt,  \* _pausedAt, 0 when not paused
  started,   \* _isStarted: the event loop thread runs
  \* the delayed events
  queued,    \* those in the _callbackData of some queue
  where,     \* the queue an event was sent to
  due,       \* _callbackData[e].due
  \* history
  delay,     \* the delay an event was sent with
  waited,    \* how long it was queued while the loop of its queue ran
  late,      \* how long its queue had been paused when it was sent
  clock,     \* what the AppTimer showed when it was sent
  unseen     \* nested queues made after pause() walked the list

timerVars == <<active, tpStart, tpPause, tdElapsed, tdPaused, timerState, ran>>
callVars  == <<pc, visited, current>>
queueVars == <<alive, pausedAt, started>>
eventVars == <<queued, where, due, delay, waited, late, clock>>
vars == <<now, timerVars, callVars, queueVars, eventVars, unseen>>

Timer == INSTANCE AppTimer

QueuesTypeOK ==
  /\ now \in Nat
  /\ pc \in {"idle", "pausing", "resuming", "clock"}
  /\ visited \subseteq Queue
  /\ current \in Queue \cup {None}
  /\ alive \subseteq Nested
  /\ pausedAt \in [Queue -> Nat]
  /\ started \in [Queue -> BOOLEAN]
  /\ queued \subseteq Event
  /\ where \in [Event -> Queue]
  /\ due \in [Event -> Nat] /\ delay \in [Event -> Nat]
  /\ waited \in [Event -> Nat] /\ late \in [Event -> Nat]
  /\ clock \in [Event -> Nat]
  /\ unseen \subseteq Nested

\* No due time, delay or clock reading is ever negative, nor is a duration that
\* the AppTimer keeps.
TypeOK == Timer!TypeOK /\ QueuesTypeOK

\* System time 0 is long past: _pausedAt uses it for "not paused".
Init ==
  /\ now = 1
  /\ active = FALSE
  /\ tpStart = 0 /\ tpPause = 0 /\ tdElapsed = 0 /\ tdPaused = 0
  /\ timerState = "atStopped" /\ ran = 0
  /\ pc = "idle" /\ visited = {} /\ current = None
  /\ alive = {}
  /\ pausedAt = [q \in Queue |-> 0]
  /\ started = [q \in Queue |-> FALSE]
  /\ queued = {}
  /\ where = [e \in Event |-> Main]
  /\ due = [e \in Event |-> 0] /\ delay = [e \in Event |-> 0]
  /\ waited = [e \in Event |-> 0] /\ late = [e \in Event |-> 0]
  /\ clock = [e \in Event |-> 0]
  /\ unseen = {}

InterpreterStarted == timerState # "atStopped"
Exists(q) == InterpreterStarted /\ (q = Main \/ q \in alive)
QueuedIn(q) == {e \in queued : where[e] = q}

\* The events E leave their queues, nothing is kept of them.
Remove(E) ==
  /\ queued' = queued \ E
  /\ where'  = [e \in Event |-> IF e \in E THEN Main ELSE where[e]]
  /\ due'    = [e \in Event |-> IF e \in E THEN 0 ELSE due[e]]
  /\ delay'  = [e \in Event |-> IF e \in E THEN 0 ELSE delay[e]]
  /\ waited' = [e \in Event |-> IF e \in E THEN 0 ELSE waited[e]]
  /\ late'   = [e \in Event |-> IF e \in E THEN 0 ELSE late[e]]
  /\ clock'  = [e \in Event |-> IF e \in E THEN 0 ELSE clock[e]]

------------------------------------------------------------------------------
(* Time, and the calls of the application.                                 *)

\* The events of the queues whose loop runs wait for the time that passes.
Wait ==
  waited' = [e \in Event |->
    IF e \in queued /\ started[where[e]]
    THEN waited[e] + (now' - now) ELSE waited[e]]

Tick ==
  /\ Timer!Tick
  /\ Wait
  /\ UNCHANGED <<callVars, queueVars, unseen, queued, where, due, delay, late, clock>>

\* start() after the previous interpreter ended: it is destroyed with its
\* queues, the new one gets a queue and the clock starts again.
StartInterpreter ==
  /\ pc = "idle"
  /\ Timer!Start
  /\ alive' = {} /\ unseen' = {}
  /\ pausedAt' = [q \in Queue |-> 0]
  /\ started' = [q \in Queue |-> q = Main]
  /\ Remove(queued)
  /\ UNCHANGED callVars

\* pause() stops the clock first, which takes two reads of the system clock ...
PauseInterpreter ==
  /\ pc = "idle"
  /\ Timer!Pause
  /\ Wait
  /\ pc' = "pausing" /\ visited' = {} /\ unseen' = {}
  /\ UNCHANGED <<current, queueVars, queued, where, due, delay, late, clock>>

\* Broken variant: _AppTimer.resume() comes first.
ResumeStartsClock ==
  /\ pc = "idle"
  /\ Timer!Resume
  /\ pc' = "resuming" /\ visited' = {}
  /\ UNCHANGED <<current, queueVars, eventVars, unseen>>

\* ... resume() starts it last.
ResumeInterpreter ==
  /\ pc = "idle" /\ timerState = "atPaused"
  /\ pc' = "resuming" /\ visited' = {}
  /\ UNCHANGED <<now, timerVars, current, queueVars, eventVars, unseen>>

\* Broken variant: the walk skips a queue when it erases an expired one.
NextSkips(q) == IF q = Main THEN Main \notin visited
                            ELSE q \in alive \ visited

\* Both walk the nested queues that are still held, those made during the
\* walk included, and then visit the interpreter's own.
NextVisited(q) == IF q = Main THEN alive \subseteq visited
                              ELSE q \in alive \ visited

Finished(q) ==
  /\ visited' = visited \cup {q}
  /\ current' = None

------------------------------------------------------------------------------
(* PausableDelayedEventQueue::pause and resume.                            *)

\* A queue that is paused already keeps the time of that pause.
PauseQueue(q) ==
  /\ pc = "pausing" /\ current = None
  /\ NextVisited(q)
  /\ IF pausedAt[q] # 0
     THEN /\ Finished(q)
          /\ pc' = IF q = Main THEN "idle" ELSE pc
          /\ UNCHANGED pausedAt
     ELSE /\ pausedAt' = [pausedAt EXCEPT ![q] = now]
          /\ current' = q
          /\ UNCHANGED <<pc, visited>>
  /\ UNCHANGED <<now, timerVars, alive, started, eventVars, unseen>>

\* event_base_loopbreak and the join of the event loop's thread; the due
\* times stay in _callbackData.
StopLoop(q) ==
  /\ pc = "pausing" /\ current = q
  /\ started' = [started EXCEPT ![q] = FALSE]
  /\ Finished(q)
  /\ pc' = IF q = Main THEN "idle" ELSE pc
  /\ UNCHANGED <<now, timerVars, alive, pausedAt, eventVars, unseen>>

Shift(q, time) ==
  due' = [e \in Event |-> IF e \in QueuedIn(q) THEN due[e] + time ELSE due[e]]

\* Broken variant: the due times are not moved.
ResumeKeepsDue(q) ==
  /\ pc = "resuming" /\ NextVisited(q)
  /\ pausedAt' = [pausedAt EXCEPT ![q] = 0]
  /\ UNCHANGED due
  /\ started' = [started EXCEPT ![q] = TRUE]
  /\ Finished(q)
  /\ pc' = IF q = Main THEN "clock" ELSE pc
  /\ unseen' = unseen \ {q}
  /\ UNCHANGED <<now, timerVars, alive, queued, where, delay, waited, late, clock>>

\* Broken variant: evutil_timersub with its operands swapped.
ResumeSwapped(q) ==
  /\ pc = "resuming" /\ NextVisited(q)
  /\ pausedAt' = [pausedAt EXCEPT ![q] = 0]
  /\ IF pausedAt[q] # 0 THEN Shift(q, pausedAt[q] - now) ELSE UNCHANGED due
  /\ started' = [started EXCEPT ![q] = TRUE]
  /\ Finished(q)
  /\ pc' = IF q = Main THEN "clock" ELSE pc
  /\ unseen' = unseen \ {q}
  /\ UNCHANGED <<now, timerVars, alive, queued, where, delay, waited, late, clock>>

\* All due times move by the length of the pause; start() in any case.
ResumeQueue(q) ==
  /\ pc = "resuming" /\ NextVisited(q)
  /\ pausedAt' = [pausedAt EXCEPT ![q] = 0]
  /\ IF pausedAt[q] # 0 THEN Shift(q, now - pausedAt[q]) ELSE UNCHANGED due
  /\ started' = [started EXCEPT ![q] = TRUE]
  /\ Finished(q)
  /\ pc' = IF q = Main THEN "clock" ELSE pc
  /\ unseen' = unseen \ {q}
  /\ UNCHANGED <<now, timerVars, alive, queued, where, delay, waited, late, clock>>

\* _AppTimer.resume(), the end of resume().
ResumeClock ==
  /\ pc = "clock"
  /\ Timer!Resume
  /\ pc' = "idle"
  /\ UNCHANGED <<visited, current, queueVars, eventVars, unseen>>

------------------------------------------------------------------------------
(* The interpreter thread and the event loops.                             *)

\* <send delay=...> of a chart; a paused queue takes events as well.
Send(e, q, d) ==
  /\ Exists(q) /\ e \notin queued
  /\ queued' = queued \cup {e}
  /\ where'  = [where EXCEPT ![e] = q]
  /\ due'    = [due EXCEPT ![e] = now + d]
  /\ delay'  = [delay EXCEPT ![e] = d]
  /\ waited' = [waited EXCEPT ![e] = 0]
  /\ late'   = [late EXCEPT ![e] = IF pausedAt[q] = 0 THEN 0 ELSE now - pausedAt[q]]
  /\ clock'  = [clock EXCEPT ![e] = Timer!getTime]
  /\ UNCHANGED <<now, timerVars, callVars, queueVars, unseen>>

\* <cancel sendid=...>
CancelDelayed(e) ==
  /\ e \in queued
  /\ Remove({e})
  /\ UNCHANGED <<now, timerVars, callVars, queueVars, unseen>>

Due(e) == e \in queued /\ started[where[e]] /\ due[e] <= now

\* The event loop of a queue hands out an event that is due.
Fire(e) ==
  /\ Due(e)
  /\ Remove({e})
  /\ UNCHANGED <<now, timerVars, callVars, queueVars, unseen>>

\* <invoke>: the new queue is appended to _nestedDelayQueue and started, also
\* while the interpreter is paused.  A walk that has not come to its end finds it.
Create(q) ==
  /\ InterpreterStarted
  /\ q \in Nested \ alive
  /\ alive' = alive \cup {q}
  /\ visited' = visited \ {q}
  /\ pausedAt' = [pausedAt EXCEPT ![q] = 0]
  /\ started' = [started EXCEPT ![q] = TRUE]
  /\ unseen' = IF timerState = "atPaused" /\ (pc # "pausing" \/ current = Main)
               THEN unseen \cup {q} ELSE unseen
  /\ UNCHANGED <<now, timerVars, pc, current, eventVars>>

\* The invoked chart ends; a queue that pause() has locked lives until then.
Expire(q) ==
  /\ q \in alive /\ q # current
  /\ alive' = alive \ {q}
  /\ unseen' = unseen \ {q}
  /\ started' = [started EXCEPT ![q] = FALSE]
  /\ pausedAt' = [pausedAt EXCEPT ![q] = 0]
  /\ Remove(QueuedIn(q))
  /\ UNCHANGED <<now, timerVars, callVars>>

------------------------------------------------------------------------------

QueueStep(q) == PauseQueue(q) \/ StopLoop(q) \/ ResumeQueue(q)

ChartStep ==
  \/ \E e \in Event : CancelDelayed(e) \/ \E q \in Queue, d \in Delay : Send(e, q, d)
  \/ \E q \in Nested : Create(q) \/ Expire(q)

Next ==
  \/ Tick
  \/ StartInterpreter \/ PauseInterpreter \/ ResumeInterpreter \/ ResumeClock
  \/ \E q \in Queue : QueueStep(q)
  \/ \E e \in Event : Fire(e)
  \/ ChartStep

Spec == Init /\ [][Next]_vars

------------------------------------------------------------------------------
(* Properties                                                              *)

\* What GetAppMicroClock() shows is the time the interpreter has run, however
\* the calls and the steps of the queues fall: AppTimer::getTime.
ClockCountsRunningTime == Timer!ClockCountsRunningTime

\* It steps back, other than to zero at a start, by no more than the time the
\* last pause took between its two clock reads: AppTimer::resume.
ClockStepsBackBounded == [][Timer!StepBack]_vars

\* A delayed event never fires before it has waited for its delay, not
\* counting the time its event loop was stopped: evutil_timeradd in resume().
NeverEarly ==
  \A e \in Event : Due(e) => waited[e] >= delay[e]

\* Once pause() has returned and until resume() is called no event loop runs,
\* except those of charts invoked after pause() had walked the nested queues:
\* create() does not look whether the interpreter is paused.
PauseSilences ==
  pc = "idle" /\ timerState = "atPaused" =>
    \A q \in Queue : Exists(q) /\ started[q] => q \in unseen

\* The delays of a chart and its GetAppMicroClock() agree: when the clock says
\* that the delay of an event has passed, the event is due, as soon as its
\* queue runs and unless it was sent while its queue was paused already.
\* pause() stops the clock before the queues, and resume() starts it after them.
DelaysFollowClock ==
  \A e \in queued :
    /\ late[e] = 0
    /\ pausedAt[where[e]] = 0
    /\ Timer!getTime >= clock[e] + delay[e]
    => due[e] <= now
==============================================================================
