------------------------ MODULE InterpreterPauseProofs ------------------------
(***************************************************************************)
(* Proofs about pausing, for any number of events, nested queues and any   *)
(* delays, and about the stop watch it contains.  The inductive invariant  *)
(* has three parts besides the types and the invariant of the AppTimer:    *)
(*   WalkStructure - what the walks of pause() and resume() have left      *)
(*                   behind them in the queues they are done with;         *)
(*   DueCoversDelay  - the due time of an event leaves at least the part   *)
(*                   of its delay that it has not waited yet;              *)
(*   DueKeepsUp      - and no more than the part that GetAppMicroClock()   *)
(*                   has not shown yet.                                    *)
(* Both are measured from a time that stands still for a paused queue: the *)
(* first from the moment its loop is stopped, the second from _pausedAt.   *)
(***************************************************************************)
EXTENDS InterpreterPause, TLAPS

------------------------------------------------------------------------------
(* The stop watch by itself, for every system clock and every gap between  *)
(* the two clock reads of pause().  The inductive invariant says what the  *)
(* fields of the timer keep of the history: while it runs, the start and   *)
(* the pauses account for all the time not run; while it is paused, so do  *)
(* the start, the earlier pauses and the time of the pause.                *)

\* The timer counts exactly in the two states in which it runs.
ActiveMeansRunning == (Timer!Running => active) /\ (active => Timer!Running)

\* What start, pauses and run time add up to.
Accounts ==
  /\ Timer!Running => now = tpStart + tdPaused + ran
  /\ timerState = "atPaused" =>
       /\ tpPause <= now
       /\ tpPause = tpStart + tdPaused + ran
       /\ ran <= tdElapsed /\ tdElapsed <= ran + MaxRead

TimerInv == Timer!TypeOK /\ ActiveMeansRunning /\ Accounts

\* The fields of a timer that was never started satisfy the invariant.
LEMMA TimerInitEstablishes == Timer!Init => TimerInv
<1> SUFFICES ASSUME Timer!Init PROVE TimerInv
  OBVIOUS
<1>1. Timer!TypeOK /\ Accounts
  BY DEF Timer!Init, Timer!TypeOK, Accounts, Timer!Running
<1>2. ActiveMeansRunning
  BY DEF Timer!Init, ActiveMeansRunning, Timer!Running
<1>3. QED
  BY <1>1, <1>2 DEF TimerInv

\* Every operation of the timer, and the passing of time, keeps the invariant.
LEMMA TimerStepPreserves == TimerInv /\ [Timer!Next]_(Timer!vars) => TimerInv'
<1> SUFFICES ASSUME TimerInv, [Timer!Next]_(Timer!vars) PROVE TimerInv'
  OBVIOUS
<1> USE PauseAssumption DEF TimerInv, Timer!TypeOK, ActiveMeansRunning, Accounts, Timer!Running
<1>1. CASE Timer!Start
  BY <1>1 DEF Timer!Start
<1>2. CASE Timer!Pause
  <2>1. PICK d \in 0 .. MaxRead :
          now' = now + d /\ tdElapsed' = (now + d - tpStart) - tdPaused
    BY <1>2 DEF Timer!Pause
  <2>2. tdElapsed' = ran + d /\ tdElapsed' \in Nat /\ now' \in Nat
    BY <1>2, <2>1 DEF Timer!Pause
  <2>3. Timer!TypeOK'
    BY <1>2, <2>2 DEF Timer!Pause
  <2>4. ActiveMeansRunning'
    BY <1>2 DEF Timer!Pause
  <2>5. Accounts'
    BY <1>2, <2>1, <2>2 DEF Timer!Pause
  <2>6. QED
    BY <2>3, <2>4, <2>5
<1>3. CASE Timer!Resume
  BY <1>3 DEF Timer!Resume
<1>4. CASE Timer!Tick
  BY <1>4 DEF Timer!Tick
<1>5. CASE UNCHANGED Timer!vars
  BY <1>5 DEF Timer!vars, Timer!timerVars
<1>6. QED
  BY <1>1, <1>2, <1>3, <1>4, <1>5 DEF Timer!Next

\* The clock shows the time run, for every sequence of pauses.
LEMMA ShowsRunningTime == TimerInv => Timer!ClockCountsRunningTime
  BY PauseAssumption DEF TimerInv, Timer!TypeOK, ActiveMeansRunning, Accounts,
     Timer!Running, Timer!ClockCountsRunningTime, Timer!getTime

\* It steps back only at a resume, by no more than the gap between the clock
\* reads of the pause before it.
LEMMA HardlyStepsBack == TimerInv /\ [Timer!Next]_(Timer!vars) => [Timer!StepBack]_(Timer!vars)
<1> SUFFICES ASSUME TimerInv, Timer!Next PROVE Timer!StepBack
  OBVIOUS
<1> USE PauseAssumption DEF TimerInv, Timer!TypeOK, ActiveMeansRunning, Accounts,
                            Timer!Running, Timer!StepBack, Timer!getTime
<1>1. CASE Timer!Start
  BY <1>1 DEF Timer!Start
<1>2. CASE Timer!Pause
  <2>1. PICK d \in 0 .. MaxRead :
          now' = now + d /\ tdElapsed' = (now + d - tpStart) - tdPaused
    BY <1>2 DEF Timer!Pause
  <2>2. QED
    BY <1>2, <2>1 DEF Timer!Pause
<1>3. CASE Timer!Resume
  BY <1>3 DEF Timer!Resume
<1>4. CASE Timer!Tick
  BY <1>4 DEF Timer!Tick
<1>5. QED
  BY <1>1, <1>2, <1>3, <1>4 DEF Timer!Next

------------------------------------------------------------------------------
(* What a walk leaves behind.                                              *)

\* What each moment of a walk says about every queue.
WalkStructure ==
  /\ ~InterpreterStarted => alive = {} /\ queued = {} /\ pc = "idle"
  /\ pc # "idle" => timerState = "atPaused"
  /\ \A e \in queued : Exists(where[e])
  /\ \A q \in Queue :
       /\ pausedAt[q] <= now
       /\ pausedAt[q] # 0 => Exists(q) /\ timerState = "atPaused"
       /\ Exists(q) /\ ~started[q] => pausedAt[q] # 0
       /\ pc = "clock" => pausedAt[q] = 0
       /\ pc = "resuming" /\ q \in visited => pausedAt[q] = 0
       /\ pc = "pausing" /\ q \notin visited /\ q # current => pausedAt[q] = 0
       /\ pc = "pausing" /\ q \in visited /\ Exists(q) => ~started[q]
       /\ pc = "pausing" /\ current = Main /\ q \in alive \ visited => q \in unseen
       /\ pc = "idle" /\ timerState = "atPaused" /\ Exists(q) /\ started[q] => q \in unseen
  /\ pc = "pausing" => Main \notin visited
  /\ current # None => /\ pc = "pausing" /\ Exists(current)
                       /\ current \notin visited /\ pausedAt[current] # 0
  /\ now # 0

\* The times up to which the waiting of a queue's events has been counted.
QueueTime(q) == IF pausedAt[q] = 0 THEN now ELSE pausedAt[q]
LoopTime(q) == IF started[q] THEN now ELSE pausedAt[q]

\* What an event has not waited yet still lies before its due time.
DueCoversDelay ==
  \A e \in queued : due[e] + waited[e] >= LoopTime(where[e]) + delay[e]

Shown == Timer!getTime

\* What lies before its due time is not more than what the clock, also while it
\* counts the time pause() took, has left of its delay.
DueKeepsUp ==
  \A e \in queued : late[e] = 0 =>
    due[e] + Shown <= QueueTime(where[e]) + delay[e] + clock[e]

IInv == QueuesTypeOK /\ TimerInv /\ WalkStructure /\ DueCoversDelay /\ DueKeepsUp

------------------------------------------------------------------------------
(* The AppTimer inside.                                                    *)

TimerStep == Timer!Start \/ Timer!Pause \/ Timer!Resume \/ Timer!Tick

\* Its invariant is kept by every step of its own, and by steps elsewhere.
LEMMA TimerInvariant ==
  ASSUME TimerInv, TimerStep \/ UNCHANGED <<now, timerVars>>
  PROVE  TimerInv'
<1>1. [Timer!Next]_(Timer!vars)
  BY DEF TimerStep, Timer!Next, Timer!vars, Timer!timerVars, timerVars
<1>2. QED
  BY <1>1, TimerStepPreserves

\* The parts of the timer's operations that the rest of the proof needs: what
\* they do to the system clock, to the state and to the time shown.
TimerStarts == now' = now /\ timerState' = "atStarted" /\ Shown' = 0
TimerPauses == /\ timerState \in {"atStarted", "atResumed"}
               /\ timerState' = "atPaused"
               /\ now' \in Nat /\ now' >= now /\ Shown' = Shown + (now' - now)
TimerResumes == now' = now /\ timerState' = "atResumed" /\ Shown' <= Shown /\ Shown' \in Nat
TimerTicks == /\ now' = now + 1 /\ timerState' = timerState
              /\ timerState \in {"atPaused", "atStopped"} => Shown' = Shown
              /\ Shown' \in {Shown, Shown + 1}

LEMMA TimerEffects ==
  ASSUME TimerInv
  PROVE  /\ Shown \in Nat
         /\ Timer!Start => TimerStarts
         /\ Timer!Pause => TimerPauses
         /\ Timer!Resume => TimerResumes
         /\ Timer!Tick => TimerTicks
<1> USE DEF TimerInv, Timer!TypeOK, ActiveMeansRunning, Accounts, Timer!Running,
            Shown, Timer!getTime
<1>1. Shown \in Nat
  OBVIOUS
<1>2. Timer!Start => TimerStarts
  BY DEF Timer!Start, TimerStarts
<1>3. ASSUME Timer!Pause PROVE TimerPauses
  <2>1. PICK d \in 0 .. MaxRead :
          now' = now + d /\ tdElapsed' = (now + d - tpStart) - tdPaused
    BY <1>3 DEF Timer!Pause
  <2>2. QED
    BY <1>3, <2>1, PauseAssumption DEF Timer!Pause, TimerPauses
<1>4. Timer!Resume => TimerResumes
  BY DEF Timer!Resume, TimerResumes
<1>5. Timer!Tick => TimerTicks
  BY DEF Timer!Tick, TimerTicks
<1>6. QED
  BY <1>1, <1>2, <1>3, <1>4, <1>5

\* Steps that leave timer and system clock alone change nothing the clock shows.
LEMMA TimerStands ==
  ASSUME TimerInv, UNCHANGED <<now, timerVars>>
  PROVE  Shown' = Shown /\ Shown \in Nat
<1>1. Shown \in Nat
  BY TimerEffects
<1>2. QED
  BY <1>1 DEF Shown, Timer!getTime, timerVars

------------------------------------------------------------------------------
(* One lemma per action: it keeps the parts of IInv other than the timer's. *)

\* What the actions change themselves, the AppTimer apart.
Kept == QueuesTypeOK' /\ WalkStructure' /\ DueCoversDelay' /\ DueKeepsUp'

\* Time passes: delays go on exactly in the queues whose loop runs.
LEMMA TickKeeps ==
  ASSUME IInv, Tick
  PROVE  Kept
<1>f. TimerTicks /\ Shown \in Nat
  BY TimerEffects DEF IInv, Tick
<1>1. QueuesTypeOK'
  BY <1>f, PauseAssumption
     DEF TimerTicks, IInv, QueuesTypeOK, WalkStructure, InterpreterStarted, Exists, Queue, Tick,
         Wait, callVars, queueVars
<1>2. WalkStructure'
  BY <1>f, PauseAssumption
     DEF TimerTicks, IInv, QueuesTypeOK, WalkStructure, InterpreterStarted, Exists, Queue, Tick,
         Wait, callVars, queueVars
<1>3. DueCoversDelay'
  BY <1>f, PauseAssumption
     DEF TimerTicks, IInv, QueuesTypeOK, DueCoversDelay, LoopTime, WalkStructure,
         InterpreterStarted, Exists, Queue, Tick, Wait, callVars, queueVars
<1>4. DueKeepsUp'
  BY <1>f, PauseAssumption
     DEF TimerTicks, IInv, QueuesTypeOK, DueKeepsUp, QueueTime, WalkStructure, InterpreterStarted,
         Exists, Queue, Tick, Wait, callVars, queueVars
<1>5. QED
  BY <1>1, <1>2, <1>3, <1>4 DEF Kept

\* start() leaves no event and no paused queue of the last session behind.
LEMMA StartInterpreterKeeps ==
  ASSUME IInv, StartInterpreter
  PROVE  Kept
<1>f. TimerStarts /\ Shown \in Nat
  BY TimerEffects DEF IInv, StartInterpreter
<1>1. QueuesTypeOK'
  BY <1>f, PauseAssumption
     DEF TimerStarts, IInv, QueuesTypeOK, WalkStructure, InterpreterStarted, Exists, Queue,
         StartInterpreter, Remove, callVars
<1>2. WalkStructure'
  <2>1. /\ queued' = {} /\ pc' = "idle" /\ current' = None
        /\ timerState' = "atStarted" /\ alive' = {}
    BY <1>f DEF TimerStarts, IInv, WalkStructure, StartInterpreter, Remove, callVars
  <2>2. \A q \in Queue : pausedAt'[q] = 0 /\ (q = Main => started'[q])
    BY DEF StartInterpreter
  <2>3. now' \in Nat /\ now' # 0
    BY <1>f DEF TimerStarts, IInv, QueuesTypeOK, WalkStructure
  <2>4. QED
    BY <2>1, <2>2, <2>3 DEF WalkStructure, InterpreterStarted, Exists
<1>3. DueCoversDelay'
  BY <1>f, PauseAssumption
     DEF TimerStarts, IInv, QueuesTypeOK, DueCoversDelay, LoopTime, WalkStructure,
         InterpreterStarted, Exists, Queue, StartInterpreter, Remove, callVars
<1>4. DueKeepsUp'
  BY <1>f, PauseAssumption
     DEF TimerStarts, IInv, QueuesTypeOK, DueKeepsUp, QueueTime, WalkStructure, InterpreterStarted,
         Exists, Queue, StartInterpreter, Remove, callVars
<1>5. QED
  BY <1>1, <1>2, <1>3, <1>4 DEF Kept

\* pause() begins, having stopped the clock, when no queue is paused.
LEMMA PauseInterpreterKeeps ==
  ASSUME IInv, PauseInterpreter
  PROVE  Kept
<1>f. TimerPauses /\ Shown \in Nat
  BY TimerEffects DEF IInv, PauseInterpreter
<1>1. QueuesTypeOK'
  BY <1>f, PauseAssumption
     DEF TimerPauses, IInv, QueuesTypeOK, WalkStructure, InterpreterStarted, Exists, Queue,
         PauseInterpreter, Wait, queueVars
<1>2. WalkStructure'
  BY <1>f, PauseAssumption
     DEF TimerPauses, IInv, QueuesTypeOK, WalkStructure, InterpreterStarted, Exists, Queue,
         PauseInterpreter, Wait, queueVars
<1>3. DueCoversDelay'
  BY <1>f, PauseAssumption
     DEF TimerPauses, IInv, QueuesTypeOK, DueCoversDelay, LoopTime, WalkStructure,
         InterpreterStarted, Exists, Queue, PauseInterpreter, Wait, queueVars
<1>4. DueKeepsUp'
  BY <1>f, PauseAssumption
     DEF TimerPauses, IInv, QueuesTypeOK, DueKeepsUp, QueueTime, WalkStructure, InterpreterStarted,
         Exists, Queue, PauseInterpreter, Wait, queueVars
<1>5. QED
  BY <1>1, <1>2, <1>3, <1>4 DEF Kept

\* resume() begins with the clock still stopped.
LEMMA ResumeInterpreterKeeps ==
  ASSUME IInv, ResumeInterpreter
  PROVE  Kept
<1>n. Shown' = Shown /\ Shown \in Nat
  BY TimerStands DEF IInv, ResumeInterpreter
<1>1. QueuesTypeOK'
  BY <1>n, PauseAssumption
     DEF IInv, QueuesTypeOK, WalkStructure, InterpreterStarted, Exists, Queue,
         ResumeInterpreter, timerVars, queueVars, eventVars
<1>2. WalkStructure'
  BY <1>n, PauseAssumption
     DEF IInv, QueuesTypeOK, WalkStructure, InterpreterStarted, Exists, Queue,
         ResumeInterpreter, timerVars, queueVars, eventVars
<1>3. DueCoversDelay'
  BY <1>n, PauseAssumption
     DEF IInv, QueuesTypeOK, DueCoversDelay, LoopTime, WalkStructure,
         InterpreterStarted, Exists, Queue, ResumeInterpreter, timerVars, queueVars,
         eventVars
<1>4. DueKeepsUp'
  BY <1>n, PauseAssumption
     DEF IInv, QueuesTypeOK, DueKeepsUp, QueueTime, WalkStructure, InterpreterStarted,
         Exists, Queue, ResumeInterpreter, timerVars, queueVars, eventVars
<1>5. QED
  BY <1>1, <1>2, <1>3, <1>4 DEF Kept

\* resume() ends by starting the clock when no queue is paused any more.
LEMMA ResumeClockKeeps ==
  ASSUME IInv, ResumeClock
  PROVE  Kept
<1>f. TimerResumes /\ Shown \in Nat
  BY TimerEffects DEF IInv, ResumeClock
<1>1. QueuesTypeOK'
  BY <1>f, PauseAssumption
     DEF TimerResumes, IInv, QueuesTypeOK, WalkStructure, InterpreterStarted, Exists, Queue,
         ResumeClock, queueVars, eventVars
<1>2. WalkStructure'
  BY <1>f, PauseAssumption
     DEF TimerResumes, IInv, QueuesTypeOK, WalkStructure, InterpreterStarted, Exists, Queue,
         ResumeClock, queueVars, eventVars
<1>3. DueCoversDelay'
  BY <1>f, PauseAssumption
     DEF TimerResumes, IInv, QueuesTypeOK, DueCoversDelay, LoopTime, WalkStructure,
         InterpreterStarted, Exists, Queue, ResumeClock, queueVars, eventVars
<1>4. DueKeepsUp'
  BY <1>f, PauseAssumption
     DEF TimerResumes, IInv, QueuesTypeOK, DueKeepsUp, QueueTime, WalkStructure, InterpreterStarted,
         Exists, Queue, ResumeClock, queueVars, eventVars
<1>5. QED
  BY <1>1, <1>2, <1>3, <1>4 DEF Kept

\* A queue of the walk remembers when it was paused; its loop still runs.
LEMMA PauseQueueKeeps ==
  ASSUME IInv, NEW q \in Queue, PauseQueue(q)
  PROVE  Kept
<1>n. Shown' = Shown /\ Shown \in Nat
  BY TimerStands DEF IInv, PauseQueue
<1>1. QueuesTypeOK'
  BY <1>n, PauseAssumption
     DEF IInv, QueuesTypeOK, WalkStructure, InterpreterStarted, Exists, Queue,
         PauseQueue, NextVisited, Finished, timerVars, eventVars
<1>2. WalkStructure'
  BY <1>n, PauseAssumption
     DEF IInv, QueuesTypeOK, WalkStructure, InterpreterStarted, Exists, Queue,
         PauseQueue, NextVisited, Finished, timerVars, eventVars
<1>3. DueCoversDelay'
  BY <1>n, PauseAssumption
     DEF IInv, QueuesTypeOK, DueCoversDelay, LoopTime, WalkStructure,
         InterpreterStarted, Exists, Queue, PauseQueue, NextVisited, Finished,
         timerVars, eventVars
<1>4. DueKeepsUp'
  BY <1>n, PauseAssumption
     DEF IInv, QueuesTypeOK, DueKeepsUp, QueueTime, WalkStructure, InterpreterStarted,
         Exists, Queue, PauseQueue, NextVisited, Finished, timerVars, eventVars
<1>5. QED
  BY <1>1, <1>2, <1>3, <1>4 DEF Kept

\* A queue of the walk stops its loop, so that its events no longer wait.
LEMMA StopLoopKeeps ==
  ASSUME IInv, NEW q \in Queue, StopLoop(q)
  PROVE  Kept
<1>n. Shown' = Shown /\ Shown \in Nat
  BY TimerStands DEF IInv, StopLoop
<1>1. QueuesTypeOK'
  BY <1>n, PauseAssumption
     DEF IInv, QueuesTypeOK, WalkStructure, InterpreterStarted, Exists, Queue,
         StopLoop, Finished, timerVars, eventVars
<1>2. WalkStructure'
  <2>1. /\ pc = "pausing" /\ current = q /\ current' = None /\ None \notin Queue
        /\ visited' = visited \cup {q} /\ pc' = IF q = Main THEN "idle" ELSE pc
        /\ Exists(q) /\ pausedAt[q] <= now
    BY PauseAssumption
       DEF IInv, QueuesTypeOK, WalkStructure, StopLoop, Finished, Queue
  <2>2. UNCHANGED <<now, timerState, alive, pausedAt, queued, where, unseen>>
    BY DEF StopLoop, timerVars, eventVars
  <2>3. ~started'[q] /\ \A x \in Queue \ {q} : started'[x] = started[x]
    BY DEF IInv, QueuesTypeOK, StopLoop
  <2>4. pausedAt[q] # 0
    BY <2>1 DEF IInv, WalkStructure
  <2>5. ASSUME NEW x \in Queue
        PROVE  /\ Exists(x) /\ ~started'[x] => pausedAt[x] # 0
               /\ pc' = "pausing" /\ x \notin visited' => pausedAt[x] = 0
               /\ pc' = "pausing" /\ x \in visited' /\ Exists(x) => ~started'[x]
               /\ /\ pc' = "idle" /\ timerState = "atPaused"
                  /\ Exists(x) /\ started'[x]
                  => x \in unseen
    <3>1. CASE x = q
      BY <3>1, <2>1, <2>3, <2>4
    <3>2. CASE x # q
      BY <3>2, <2>1, <2>3 DEF IInv, WalkStructure, Exists, Queue
    <3>3. QED
      BY <3>1, <3>2
  <2>6. QED
    BY <2>1, <2>2, <2>5, PauseAssumption
       DEF IInv, WalkStructure, InterpreterStarted, Exists, Queue
<1>3. DueCoversDelay'
  BY <1>n, PauseAssumption
     DEF IInv, QueuesTypeOK, DueCoversDelay, LoopTime, WalkStructure,
         InterpreterStarted, Exists, Queue, StopLoop, Finished, timerVars, eventVars
<1>4. DueKeepsUp'
  BY <1>n, PauseAssumption
     DEF IInv, QueuesTypeOK, DueKeepsUp, QueueTime, WalkStructure, InterpreterStarted,
         Exists, Queue, StopLoop, Finished, timerVars, eventVars
<1>5. QED
  BY <1>1, <1>2, <1>3, <1>4 DEF Kept

\* A queue moves its due times by the length of its pause and goes on.
LEMMA ResumeQueueKeeps ==
  ASSUME IInv, NEW q \in Queue, ResumeQueue(q)
  PROVE  Kept
<1>n. Shown' = Shown /\ Shown \in Nat
  BY TimerStands DEF IInv, ResumeQueue
<1>1. QueuesTypeOK'
  BY <1>n, PauseAssumption
     DEF IInv, QueuesTypeOK, WalkStructure, InterpreterStarted, Exists, Queue,
         ResumeQueue, NextVisited, Finished, Shift, QueuedIn, timerVars
<1>2. WalkStructure'
  BY <1>n, PauseAssumption
     DEF IInv, QueuesTypeOK, WalkStructure, InterpreterStarted, Exists, Queue,
         ResumeQueue, NextVisited, Finished, Shift, QueuedIn, timerVars
<1>3. DueCoversDelay'
  BY <1>n, PauseAssumption
     DEF IInv, QueuesTypeOK, DueCoversDelay, LoopTime, WalkStructure,
         InterpreterStarted, Exists, Queue, ResumeQueue, NextVisited, Finished,
         Shift, QueuedIn, timerVars
<1>4. DueKeepsUp'
  BY <1>n, PauseAssumption
     DEF IInv, QueuesTypeOK, DueKeepsUp, QueueTime, WalkStructure, InterpreterStarted,
         Exists, Queue, ResumeQueue, NextVisited, Finished, Shift, QueuedIn,
         timerVars
<1>5. QED
  BY <1>1, <1>2, <1>3, <1>4 DEF Kept

\* A chart sends an event, also to a paused queue.
LEMMA SendKeeps ==
  ASSUME IInv, NEW e \in Event, NEW q \in Queue, NEW d \in Delay, Send(e, q, d)
  PROVE  Kept
<1>f. Shown' = Shown /\ Shown \in Nat
  BY TimerStands DEF IInv, Send
<1>1. QueuesTypeOK'
  BY <1>f, PauseAssumption
     DEF IInv, QueuesTypeOK, WalkStructure, InterpreterStarted, Exists, Queue, Send, Shown,
         timerVars, callVars, queueVars
<1>2. WalkStructure'
  BY <1>f, PauseAssumption
     DEF IInv, QueuesTypeOK, WalkStructure, InterpreterStarted, Exists, Queue, Send, Shown,
         timerVars, callVars, queueVars
<1>3. DueCoversDelay'
  BY <1>f, PauseAssumption
     DEF IInv, QueuesTypeOK, DueCoversDelay, LoopTime, WalkStructure,
         InterpreterStarted, Exists, Queue, Send, Shown, timerVars, callVars, queueVars
<1>4. DueKeepsUp'
  BY <1>f, PauseAssumption
     DEF IInv, QueuesTypeOK, DueKeepsUp, QueueTime, WalkStructure, InterpreterStarted,
         Exists, Queue, Send, Shown, timerVars, callVars, queueVars
<1>5. QED
  BY <1>1, <1>2, <1>3, <1>4 DEF Kept

\* A chart cancels a delayed event.
LEMMA CancelDelayedKeeps ==
  ASSUME IInv, NEW e \in Event, CancelDelayed(e)
  PROVE  Kept
<1>n. Shown' = Shown /\ Shown \in Nat
  BY TimerStands DEF IInv, CancelDelayed
<1>1. QueuesTypeOK'
  BY <1>n, PauseAssumption
     DEF IInv, QueuesTypeOK, WalkStructure, InterpreterStarted, Exists, Queue,
         CancelDelayed, Remove, timerVars, callVars, queueVars
<1>2. WalkStructure'
  BY <1>n, PauseAssumption
     DEF IInv, QueuesTypeOK, WalkStructure, InterpreterStarted, Exists, Queue,
         CancelDelayed, Remove, timerVars, callVars, queueVars
<1>3. DueCoversDelay'
  BY <1>n, PauseAssumption
     DEF IInv, QueuesTypeOK, DueCoversDelay, LoopTime, WalkStructure,
         InterpreterStarted, Exists, Queue, CancelDelayed, Remove, timerVars,
         callVars, queueVars
<1>4. DueKeepsUp'
  BY <1>n, PauseAssumption
     DEF IInv, QueuesTypeOK, DueKeepsUp, QueueTime, WalkStructure, InterpreterStarted,
         Exists, Queue, CancelDelayed, Remove, timerVars, callVars, queueVars
<1>5. QED
  BY <1>1, <1>2, <1>3, <1>4 DEF Kept

\* An event loop hands out an event.
LEMMA FireKeeps ==
  ASSUME IInv, NEW e \in Event, Fire(e)
  PROVE  Kept
<1>n. Shown' = Shown /\ Shown \in Nat
  BY TimerStands DEF IInv, Fire
<1>1. QueuesTypeOK'
  BY <1>n, PauseAssumption
     DEF IInv, QueuesTypeOK, WalkStructure, InterpreterStarted, Exists, Queue, Fire,
         Due, Remove, timerVars, callVars, queueVars
<1>2. WalkStructure'
  BY <1>n, PauseAssumption
     DEF IInv, QueuesTypeOK, WalkStructure, InterpreterStarted, Exists, Queue, Fire,
         Due, Remove, timerVars, callVars, queueVars
<1>3. DueCoversDelay'
  BY <1>n, PauseAssumption
     DEF IInv, QueuesTypeOK, DueCoversDelay, LoopTime, WalkStructure,
         InterpreterStarted, Exists, Queue, Fire, Due, Remove, timerVars, callVars,
         queueVars
<1>4. DueKeepsUp'
  BY <1>n, PauseAssumption
     DEF IInv, QueuesTypeOK, DueKeepsUp, QueueTime, WalkStructure, InterpreterStarted,
         Exists, Queue, Fire, Due, Remove, timerVars, callVars, queueVars
<1>5. QED
  BY <1>1, <1>2, <1>3, <1>4 DEF Kept

\* A chart is invoked, also in the middle of a walk.
LEMMA CreateKeeps ==
  ASSUME IInv, NEW q \in Nested, Create(q)
  PROVE  Kept
<1>n. Shown' = Shown /\ Shown \in Nat
  BY TimerStands DEF IInv, Create
<1>1. QueuesTypeOK'
  BY <1>n, PauseAssumption
     DEF IInv, QueuesTypeOK, WalkStructure, InterpreterStarted, Exists, Queue, Create,
         timerVars, eventVars
<1>2. WalkStructure'
  BY <1>n, PauseAssumption
     DEF IInv, QueuesTypeOK, WalkStructure, InterpreterStarted, Exists, Queue, Create,
         timerVars, eventVars
<1>3. DueCoversDelay'
  BY <1>n, PauseAssumption
     DEF IInv, QueuesTypeOK, DueCoversDelay, LoopTime, WalkStructure,
         InterpreterStarted, Exists, Queue, Create, timerVars, eventVars
<1>4. DueKeepsUp'
  BY <1>n, PauseAssumption
     DEF IInv, QueuesTypeOK, DueKeepsUp, QueueTime, WalkStructure, InterpreterStarted,
         Exists, Queue, Create, timerVars, eventVars
<1>5. QED
  BY <1>1, <1>2, <1>3, <1>4 DEF Kept

\* An invoked chart ends and takes its queue and events with it.
LEMMA ExpireKeeps ==
  ASSUME IInv, NEW q \in Nested, Expire(q)
  PROVE  Kept
<1>n. Shown' = Shown /\ Shown \in Nat
  BY TimerStands DEF IInv, Expire
<1>1. QueuesTypeOK'
  BY <1>n, PauseAssumption
     DEF IInv, QueuesTypeOK, WalkStructure, InterpreterStarted, Exists, Queue, Expire,
         Remove, QueuedIn, timerVars, callVars
<1>2. WalkStructure'
  BY <1>n, PauseAssumption
     DEF IInv, QueuesTypeOK, WalkStructure, InterpreterStarted, Exists, Queue, Expire,
         Remove, QueuedIn, timerVars, callVars
<1>3. DueCoversDelay'
  BY <1>n, PauseAssumption
     DEF IInv, QueuesTypeOK, DueCoversDelay, LoopTime, WalkStructure,
         InterpreterStarted, Exists, Queue, Expire, Remove, QueuedIn, timerVars,
         callVars
<1>4. DueKeepsUp'
  BY <1>n, PauseAssumption
     DEF IInv, QueuesTypeOK, DueKeepsUp, QueueTime, WalkStructure, InterpreterStarted,
         Exists, Queue, Expire, Remove, QueuedIn, timerVars, callVars
<1>5. QED
  BY <1>1, <1>2, <1>3, <1>4 DEF Kept

------------------------------------------------------------------------------
(* The invariant and what follows from it.                                 *)

\* Before the first start nothing is queued and nothing is paused.
LEMMA InitEstablishes == Init => IInv
<1> SUFFICES ASSUME Init PROVE IInv
  OBVIOUS
<1>1. TimerInv
  BY PauseAssumption, TimerInitEstablishes DEF Init, Timer!Init
<1>2. QueuesTypeOK
  BY PauseAssumption DEF Init, QueuesTypeOK, Queue
<1>3. WalkStructure /\ DueCoversDelay /\ DueKeepsUp
  BY PauseAssumption DEF Init, WalkStructure, DueCoversDelay, DueKeepsUp,
     InterpreterStarted, Exists, Queue
<1>4. QED
  BY <1>1, <1>2, <1>3 DEF IInv

\* Every step is one of the timer, or leaves the timer and its clock alone.
LEMMA StepsOfTheTimer == [Next]_vars => TimerStep \/ UNCHANGED <<now, timerVars>>
  BY DEF Next, Tick, StartInterpreter, PauseInterpreter, ResumeInterpreter,
     ResumeClock, QueueStep, PauseQueue, StopLoop, ResumeQueue, Fire, ChartStep,
     CancelDelayed, Send, Create, Expire, TimerStep, vars

\* Every step keeps the invariant.
LEMMA StepPreserves == IInv /\ [Next]_vars => IInv'
<1> SUFFICES ASSUME IInv, [Next]_vars PROVE IInv'
  OBVIOUS
<1>1. Kept
  <2>1. CASE Tick
    BY <2>1, TickKeeps
  <2>2. CASE StartInterpreter
    BY <2>2, StartInterpreterKeeps
  <2>3. CASE PauseInterpreter
    BY <2>3, PauseInterpreterKeeps
  <2>4. CASE ResumeInterpreter
    BY <2>4, ResumeInterpreterKeeps
  <2>5. CASE ResumeClock
    BY <2>5, ResumeClockKeeps
  <2>6. CASE \E q \in Queue : QueueStep(q)
    BY <2>6, PauseQueueKeeps, StopLoopKeeps, ResumeQueueKeeps DEF QueueStep
  <2>7. CASE \E e \in Event : Fire(e)
    BY <2>7, FireKeeps
  <2>8. CASE ChartStep
    BY <2>8, CancelDelayedKeeps, SendKeeps, CreateKeeps, ExpireKeeps
       DEF ChartStep
  <2>9. CASE UNCHANGED vars
    <3>1. Shown' = Shown
      BY <2>9, TimerStands DEF IInv, vars, timerVars
    <3>2. QED
      BY <2>9, <3>1 DEF IInv, Kept, QueuesTypeOK, WalkStructure, DueCoversDelay, DueKeepsUp,
         InterpreterStarted, Exists, LoopTime, QueueTime, vars, timerVars, callVars,
         queueVars, eventVars
  <2>10. QED
    BY <2>1, <2>2, <2>3, <2>4, <2>5, <2>6, <2>7, <2>8, <2>9 DEF Next
<1>2. TimerStep \/ UNCHANGED <<now, timerVars>>
  BY StepsOfTheTimer
<1>3. TimerInv'
  BY <1>2, TimerInvariant DEF IInv
<1>4. QED
  BY <1>1, <1>3 DEF IInv, Kept

\* The invariant holds in every reachable state.
LEMMA Invariant == Spec => []IInv
  BY InitEstablishes, StepPreserves, PTL DEF Spec

\* The calls of a handle use its clock as AppTimer describes: what the clock by
\* itself promises it also keeps inside an interpreter that is paused and resumed.
THEOREM ClockIsAnAppTimer == Spec => Timer!Spec
<1>1. Init => Timer!Init
  BY DEF Init, Timer!Init
<1>2. [Next]_vars => [Timer!Next]_(Timer!vars)
  BY StepsOfTheTimer DEF TimerStep, Timer!Next, Timer!vars, Timer!timerVars, timerVars
<1>3. QED
  BY <1>1, <1>2, PTL DEF Spec, Timer!Spec

\* No delay, due time or duration ever becomes negative, and none is lost.
THEOREM PauseTypeCorrect == Spec => []TypeOK
<1>1. IInv => TypeOK
  BY DEF IInv, TimerInv, TypeOK
<1>2. QED
  BY Invariant, <1>1, PTL

\* GetAppMicroClock() shows the time run, for every sequence of pauses.
THEOREM ClockIsRunningTime == Spec => []ClockCountsRunningTime
<1>1. IInv => ClockCountsRunningTime
  BY ShowsRunningTime DEF IInv, ClockCountsRunningTime
<1>2. QED
  BY Invariant, <1>1, PTL

\* GetAppMicroClock() steps back only at a resume, by no more than the gap
\* between the clock reads of the pause before it.
THEOREM ClockHardlyStepsBack == Spec => ClockStepsBackBounded
<1>1. IInv /\ [Next]_vars => [Timer!StepBack]_vars
  <2> SUFFICES ASSUME IInv, [Next]_vars PROVE Timer!StepBack
    OBVIOUS
  <2>1. CASE TimerStep
    <3>1. Timer!Next
      BY <2>1 DEF TimerStep, Timer!Next
    <3>2. Timer!StepBack \/ UNCHANGED Timer!vars
      BY <3>1, HardlyStepsBack DEF IInv
    <3>3. CASE UNCHANGED Timer!vars
      <4>1. UNCHANGED <<now, timerVars>>
        BY <3>3 DEF Timer!vars, Timer!timerVars, timerVars
      <4>2. Shown' = Shown /\ Shown \in Nat
        BY <4>1, TimerStands DEF IInv
      <4>3. QED
        BY <4>2, PauseAssumption DEF Shown, Timer!StepBack
    <3>4. QED
      BY <3>2, <3>3
  <2>2. CASE UNCHANGED <<now, timerVars>>
    <3>1. Shown' = Shown /\ Shown \in Nat
      BY <2>2, TimerStands DEF IInv
    <3>2. QED
      BY <3>1, PauseAssumption DEF Shown, Timer!StepBack
  <2>3. QED
    BY <2>1, <2>2, StepsOfTheTimer
<1>2. QED
  BY Invariant, <1>1, PTL DEF Spec, ClockStepsBackBounded

\* However pauses, sends and due events interleave, an event that its event
\* loop may hand out has waited for its delay while that loop ran.
THEOREM NothingFiresEarly == Spec => []NeverEarly
<1>1. IInv => NeverEarly
  <2> SUFFICES ASSUME IInv, NEW e \in Event, Due(e) PROVE waited[e] >= delay[e]
    BY DEF NeverEarly
  <2>1. /\ due[e] \in Nat /\ waited[e] \in Nat /\ delay[e] \in Nat
        /\ now \in Nat /\ due[e] <= now
    BY DEF IInv, QueuesTypeOK, Due
  <2>2. due[e] + waited[e] >= now + delay[e]
    BY DEF IInv, DueCoversDelay, LoopTime, Due
  <2>3. QED
    BY <2>1, <2>2
<1>2. QED
  BY Invariant, <1>1, PTL

\* The walk of pause() leaves no event loop of the charts it found running.
THEOREM PauseIsSilent == Spec => []PauseSilences
<1>1. IInv => PauseSilences
  BY DEF IInv, WalkStructure, PauseSilences
<1>2. QED
  BY Invariant, <1>1, PTL

\* GetAppMicroClock() never runs ahead of the delays.
THEOREM ClockAndDelaysAgree == Spec => []DelaysFollowClock
<1>1. IInv => DelaysFollowClock
  <2> SUFFICES ASSUME IInv, NEW e \in queued, late[e] = 0, pausedAt[where[e]] = 0,
                      Timer!getTime >= clock[e] + delay[e]
               PROVE  due[e] <= now
    BY DEF DelaysFollowClock
  <2>2. Timer!getTime = Shown /\ Shown \in Nat
    BY TimerEffects DEF IInv, Shown
  <2>3. /\ due[e] \in Nat /\ delay[e] \in Nat /\ clock[e] \in Nat /\ now \in Nat
    BY DEF IInv, QueuesTypeOK
  <2>4. due[e] + Shown <= now + delay[e] + clock[e]
    BY DEF IInv, DueKeepsUp, QueueTime
  <2>5. QED
    BY <2>2, <2>3, <2>4
<1>2. QED
  BY Invariant, <1>1, PTL
==============================================================================
