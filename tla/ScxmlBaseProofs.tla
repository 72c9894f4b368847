--------------------------- MODULE ScxmlBaseProofs ---------------------------
(***************************************************************************)
(* Theorems about ScxmlBase, for every value of its constants.             *)
(***************************************************************************)
EXTENDS ScxmlBase, TLAPS

------------------------------------------------------------------------------
(* The inductive invariant.                                                *)

\* Which call the application is in fixes where it may be and what it holds.
CallStructure ==
  /\ pc = "idle" => handle # "erased"
  /\ handle = "none" => pc = "idle" /\ interp = NoSession
  /\ pc \in {"join", "check", "cancel", "destroy"} =>
       (op = "close" <=> handle = "erased")
  /\ pc \in {"check", "cancel"} => op \in {"stop", "close"}
  /\ pc = "destroy" => op = "close"
  /\ pc \in {"load", "validate", "sync", "spawn", "assign"} => op = "start"
  /\ pc = "receive" => op = "trigger"
  /\ pc \in {"load", "validate", "sync", "spawn", "assign", "receive"} => handle = "open"
  /\ pc \in {"join", "load"} /\ op = "start" => made < MaxSessions
  /\ pc \in {"validate", "sync", "spawn", "assign"} => interp # NoSession

\* The thread pointer is null or names the session of _interpreter.
PointerStructure ==
  /\ threadPtr \in {NoSession, interp}
  /\ pc \in {"load", "validate", "sync", "spawn", "assign", "destroy"} =>
       threadPtr = NoSession
  /\ pc \in {"load", "validate", "sync", "spawn", "destroy"} =>
       \A s \in Session : ~Live(s)

\* What _state says of a thread that is still stepping.
StateStructure ==
  /\ \A s \in Session : thread[s] \in {"step", "set"} => state \notin Terminal
  /\ \A s \in Session : thread[s] = "set" => ret # "USCXML_UNDEF"
  /\ ~AsyncStart =>
       /\ pc \in {"spawn", "assign"} => state # "USCXML_UNDEF"
       /\ threadPtr # NoSession => state # "USCXML_UNDEF"

IInv ==
  /\ TypeOK
  /\ CallStructure
  /\ PointerStructure
  /\ ThreadOwnsInterpreter
  /\ StateStructure
  /\ ~AsyncStart => StartedAcceptsEvents /\ StopWakesThread

------------------------------------------------------------------------------
(* Lemmas about the external queue and the interpreter.                    *)

\* Appending an event keeps an unblocking event in the queue.
LEMMA AppendKeepsUnblock ==
  ASSUME NEW q \in Seq({"event", "unblock"}), NEW e \in {"event", "unblock"},
         NEW i \in DOMAIN q, q[i] = "unblock"
  PROVE  /\ Append(q, e) \in Seq({"event", "unblock"})
         /\ i \in DOMAIN Append(q, e) /\ Append(q, e)[i] = "unblock"
  OBVIOUS

\* Cancel leaves an unblocking event in the queue, whatever was there before.
LEMMA CancelUnblocks ==
  ASSUME queue \in Seq({"event", "unblock"}), Cancel
  PROVE  queue' \in Seq({"event", "unblock"}) /\ Unblocked'
<1>1. CASE Unblocked
  BY <1>1 DEF Cancel, Unblocked
<1>2. CASE ~Unblocked
  <2>1. queue' = Append(queue, "unblock")
    BY <1>2 DEF Cancel
  <2>2. Len(queue) + 1 \in DOMAIN queue' /\ queue'[Len(queue) + 1] = "unblock"
    BY <2>1
  <2>3. QED
    BY <2>1, <2>2 DEF Unblocked
<1>3. QED
  BY <1>1, <1>2

\* A step never returns USCXML_UNDEF, and it removes the unblocking event only
\* by returning USCXML_CANCELLED.
LEMMA StepEffect ==
  ASSUME TypeOK, NEW r \in InterpreterState, StepReturns(r)
  PROVE  /\ chart' \in {"new", "busy", "stable", "final", "cancelled"}
         /\ queue' \in Seq({"event", "unblock"})
         /\ r # "USCXML_UNDEF"
         /\ Unblocked => Unblocked' \/ r \in Terminal
<1> USE DEF TypeOK
<1>1. CASE /\ chart = "stable" /\ queue # <<>> /\ queue' = Tail(queue)
           /\ \/ Head(queue) = "event"   /\ chart' = "busy" /\ r = "USCXML_MICROSTEPPED"
              \/ Head(queue) = "unblock" /\ chart' = "cancelled" /\ r = "USCXML_CANCELLED"
  <2>1. queue' \in Seq({"event", "unblock"})
    BY <1>1
  <2>2. ASSUME NEW i \in DOMAIN queue, queue[i] = "unblock", Head(queue) = "event"
        PROVE  Unblocked'
    <3>1. i - 1 \in DOMAIN queue' /\ queue'[i - 1] = "unblock"
      BY <1>1, <2>2
    <3>2. QED
      BY <3>1 DEF Unblocked
  <2>3. QED
    BY <1>1, <2>1, <2>2 DEF Unblocked, Terminal
<1>2. CASE UNCHANGED queue
  BY <1>2 DEF StepReturns, Unblocked, chartVars
<1>3. QED
  BY <1>1, <1>2 DEF StepReturns, chartVars

------------------------------------------------------------------------------
(* Every step preserves the inductive invariant.                           *)

\* Types; of the control state they need that start() loads only when there is
\* room for a session, and spawns only when it has one.
LEMMA TypeStep ==
  ASSUME TypeOK, CallStructure, [Next]_vars
  PROVE  TypeOK'
<1> USE ConstantsAssumption DEF TypeOK, Session, NoSession, InterpreterState, Stable,
        Terminal, appVars, objectVars, chartVars, threadVars, historyVars,
        Enter, Return, Constructed
<1>1. CASE InvalidCall
  BY <1>1 DEF InvalidCall
<1>2. CASE OpenInterpreter
  <2>1. stoppedFn' \in BOOLEAN /\ queuePaused' \in BOOLEAN
    BY <1>2, Zenon DEF OpenInterpreter
  <2>2. QED
    BY <1>2, <2>1 DEF OpenInterpreter
<1>3. CASE CloseInterpreter
  <2>1. stoppedFn' \in BOOLEAN /\ queuePaused' \in BOOLEAN
    BY <1>3, Zenon DEF CloseInterpreter
  <2>2. QED
    BY <1>3, <2>1 DEF CloseInterpreter
<1>4. CASE RegisterInterpreterStoppedCallback
  BY <1>4 DEF RegisterInterpreterStoppedCallback
<1>5. CASE StartInterpreter
  BY <1>5 DEF StartInterpreter
<1>6. CASE StopInterpreter
  BY <1>6 DEF StopInterpreter
<1>7. CASE WaitForInterpreterStopped
  BY <1>7 DEF WaitForInterpreterStopped
<1>8. CASE PauseInterpreter
  BY <1>8 DEF PauseInterpreter
<1>9. CASE ResumeInterpreter
  <2>1. stoppedFn' \in BOOLEAN /\ queuePaused' \in BOOLEAN
    BY <1>9, Zenon DEF ResumeInterpreter
  <2>2. QED
    BY <1>9, <2>1 DEF ResumeInterpreter
<1>10. CASE TriggerEvent
  BY <1>10 DEF TriggerEvent, ReadyToReceive
<1>11. CASE Receive
  BY <1>11 DEF Receive
<1>12. CASE CloseCheck
  BY <1>12 DEF CloseCheck
<1>13. CASE CloseCancel
  BY <1>13, CancelUnblocks DEF CloseCancel
<1>14. CASE WaitForStopped
  BY <1>14 DEF WaitForStopped
<1>15. CASE Destroy
  <2>1. stoppedFn' \in BOOLEAN /\ queuePaused' \in BOOLEAN
    BY <1>15, Zenon DEF Destroy
  <2>2. QED
    BY <1>15, <2>1 DEF Destroy
<1>16. CASE LoadFails
  BY <1>16 DEF LoadFails
<1>17. CASE Load
  <2>1. stoppedFn' \in BOOLEAN /\ queuePaused' \in BOOLEAN
    BY <1>17, Zenon DEF Load
  <2>2. QED
    BY <1>17, <2>1 DEF Load, CallStructure
<1>18. CASE ValidateFails
  BY <1>18 DEF ValidateFails
<1>19. CASE Validate
  BY <1>19 DEF Validate
<1>20. CASE SyncStep
  BY <1>20, StepEffect DEF SyncStep
<1>21. CASE SyncThrows
  BY <1>21 DEF SyncThrows, StepThrows
<1>22. CASE Spawn
  BY <1>22 DEF Spawn, CallStructure
<1>23. CASE AssignThread
  BY <1>23 DEF AssignThread
<1>24. CASE FinishedAtLoad
  BY <1>24 DEF FinishedAtLoad, CallStructure
<1>25. ASSUME NEW s \in Session, Step(s) PROVE TypeOK'
  BY <1>25, StepEffect DEF Step
<1>26. ASSUME NEW s \in Session, SetState(s) PROVE TypeOK'
  BY <1>26 DEF SetState
<1>27. ASSUME NEW s \in Session, ErrorEvent(s) PROVE TypeOK'
  BY <1>27 DEF ErrorEvent, StepThrows
<1>28. ASSUME NEW s \in Session, TestCallback(s) PROVE TypeOK'
  BY <1>28 DEF TestCallback
<1>29. ASSUME NEW s \in Session, CallCallback(s) PROVE TypeOK'
  <2>1. notified' \in [Session -> Nat]
    BY <1>29 DEF CallCallback
  <2>2. thread' \in [Session -> {"none", "step", "set", "stopping", "calling",
                                "called", "ended", "crashed"}]
    BY <1>29 DEF CallCallback
  <2>3. QED
    BY <1>29, <2>1, <2>2 DEF CallCallback
<1>30. ASSUME NEW s \in Session, CallbackReturns(s) PROVE TypeOK'
  BY <1>30 DEF CallbackReturns
<1>31. ASSUME NEW s \in Session, CallbackTriggerEvent(s) PROVE TypeOK'
  BY <1>31 DEF CallbackTriggerEvent, ReadyToReceive
<1>32. ASSUME NEW s \in Session, CallbackStopInterpreter(s) PROVE TypeOK'
  BY <1>32, CancelUnblocks DEF CallbackStopInterpreter
<1>33. CASE UNCHANGED vars
  BY <1>33 DEF vars
<1>34. QED
  BY <1>1, <1>2, <1>3, <1>4, <1>5, <1>6, <1>7, <1>8, <1>9, <1>10, <1>11, <1>12,
     <1>13, <1>14, <1>15, <1>16, <1>17, <1>18, <1>19, <1>20, <1>21, <1>22, <1>23,
     <1>24, <1>25, <1>26, <1>27, <1>28, <1>29, <1>30, <1>31, <1>32, <1>33
     DEF Next, AppCall, AppStep, ThreadStep, CallbackCall

\* The rest of the inductive invariant.
LEMMA InductiveStep ==
  ASSUME IInv, [Next]_vars
  PROVE  IInv'
<1>a. TypeOK'
  BY TypeStep DEF IInv
<1>b. UNCHANGED queue => Unblocked' = Unblocked
  BY DEF Unblocked
<1> USE <1>a, ConstantsAssumption DEF IInv, TypeOK, CallStructure, PointerStructure,
        ThreadOwnsInterpreter, StateStructure, StartedAcceptsEvents, StopWakesThread,
        Live, Session, NoSession, InterpreterState, Stable, Terminal,
        appVars, objectVars, chartVars, threadVars, historyVars, Idle,
        ValidHandle, Enter, Return, Constructed
<1>1. CASE InvalidCall
  BY <1>1, <1>b DEF InvalidCall
<1>2. CASE OpenInterpreter
  <2>1. CallStructure'
    BY <1>2 DEF OpenInterpreter
  <2>2. PointerStructure'
    BY <1>2 DEF OpenInterpreter
  <2>3. ThreadOwnsInterpreter'
    BY <1>2 DEF OpenInterpreter
  <2>4. StateStructure'
    BY <1>2 DEF OpenInterpreter
  <2>5. (~AsyncStart => StartedAcceptsEvents)'
    BY <1>2 DEF OpenInterpreter
  <2>6. (~AsyncStart => StopWakesThread)'
    BY <1>2, <1>b DEF OpenInterpreter
  <2>7. QED
    BY <2>1, <2>2, <2>3, <2>4, <2>5, <2>6
<1>3. CASE CloseInterpreter
  <2>1. CallStructure'
    BY <1>3 DEF CloseInterpreter
  <2>2. PointerStructure'
    BY <1>3 DEF CloseInterpreter
  <2>3. ThreadOwnsInterpreter'
    BY <1>3 DEF CloseInterpreter
  <2>4. StateStructure'
    BY <1>3 DEF CloseInterpreter
  <2>5. (~AsyncStart => StartedAcceptsEvents)'
    BY <1>3 DEF CloseInterpreter
  <2>6. (~AsyncStart => StopWakesThread)'
    BY <1>3, <1>b DEF CloseInterpreter
  <2>7. QED
    BY <2>1, <2>2, <2>3, <2>4, <2>5, <2>6
<1>4. CASE RegisterInterpreterStoppedCallback
  BY <1>4, <1>b DEF RegisterInterpreterStoppedCallback
<1>5. CASE StartInterpreter
  BY <1>5, <1>b DEF StartInterpreter
<1>6. CASE StopInterpreter
  BY <1>6, <1>b DEF StopInterpreter
<1>7. CASE WaitForInterpreterStopped
  BY <1>7, <1>b DEF WaitForInterpreterStopped
<1>8. CASE PauseInterpreter
  BY <1>8, <1>b DEF PauseInterpreter
<1>9. CASE ResumeInterpreter
  <2>1. CallStructure'
    BY <1>9 DEF ResumeInterpreter
  <2>2. PointerStructure'
    BY <1>9 DEF ResumeInterpreter
  <2>3. ThreadOwnsInterpreter'
    BY <1>9 DEF ResumeInterpreter
  <2>4. StateStructure'
    BY <1>9 DEF ResumeInterpreter
  <2>5. (~AsyncStart => StartedAcceptsEvents)'
    BY <1>9 DEF ResumeInterpreter
  <2>6. (~AsyncStart => StopWakesThread)'
    BY <1>9, <1>b DEF ResumeInterpreter
  <2>7. QED
    BY <2>1, <2>2, <2>3, <2>4, <2>5, <2>6
<1>10. CASE TriggerEvent
  BY <1>10, <1>b DEF TriggerEvent, ReadyToReceive
<1>11. CASE Receive
  BY <1>11, <1>b DEF Receive
<1>12. CASE CloseCheck
  <2>1. CallStructure' /\ PointerStructure' /\ ThreadOwnsInterpreter' /\ StateStructure'
    BY <1>12 DEF CloseCheck
  <2>2. (~AsyncStart => StartedAcceptsEvents)'
    BY <1>12 DEF CloseCheck
  <2>3. (~AsyncStart => StopWakesThread)'
    \* close() skips the cancel: then no thread is stepping.
    <3>1. CASE pc' = "join"
      <4>1. \/ threadPtr = NoSession \/ interp = NoSession
            \/ state \in Terminal \/ state = "USCXML_UNDEF"
        BY <1>12, <3>1 DEF CloseCheck
      <4>2. ~AsyncStart => \A s \in Session : thread[s] \notin {"step", "set"}
        <5> SUFFICES ASSUME ~AsyncStart, NEW s \in Session, thread[s] \in {"step", "set"}
                     PROVE  FALSE
          OBVIOUS
        <5>1. interp = s /\ threadPtr = s
          BY <1>12 DEF CloseCheck
        <5>2. state \notin Terminal /\ state # "USCXML_UNDEF"
          BY <5>1
        <5>3. QED
          BY <4>1, <5>1, <5>2
      <4>3. UNCHANGED thread
        BY <1>12 DEF CloseCheck
      <4>4. QED
        BY <4>2, <4>3
    <3>2. CASE pc' # "join"
      BY <3>2
    <3>3. QED
      BY <3>1, <3>2
  <2>4. QED
    BY <2>1, <2>2, <2>3
<1>13. CASE CloseCancel
  <2>1. CallStructure'
    BY <1>13 DEF CloseCancel
  <2>2. PointerStructure'
    BY <1>13 DEF CloseCancel
  <2>3. ThreadOwnsInterpreter'
    BY <1>13 DEF CloseCancel
  <2>4. StateStructure'
    BY <1>13 DEF CloseCancel
  <2>5. (~AsyncStart => StartedAcceptsEvents)'
    BY <1>13 DEF CloseCancel
  <2>6. (~AsyncStart => StopWakesThread)'
    BY <1>13, CancelUnblocks DEF CloseCancel
  <2>7. QED
    BY <2>1, <2>2, <2>3, <2>4, <2>5, <2>6
<1>14. CASE WaitForStopped
  BY <1>14, <1>b DEF WaitForStopped
<1>15. CASE Destroy
  <2>1. CallStructure'
    BY <1>15 DEF Destroy
  <2>2. PointerStructure'
    BY <1>15 DEF Destroy
  <2>3. ThreadOwnsInterpreter'
    BY <1>15 DEF Destroy
  <2>4. StateStructure'
    BY <1>15 DEF Destroy
  <2>5. (~AsyncStart => StartedAcceptsEvents)'
    BY <1>15 DEF Destroy
  <2>6. (~AsyncStart => StopWakesThread)'
    BY <1>15, <1>b DEF Destroy
  <2>7. QED
    BY <2>1, <2>2, <2>3, <2>4, <2>5, <2>6
<1>16. CASE LoadFails
  BY <1>16, <1>b DEF LoadFails
<1>17. CASE Load
  <2>1. CallStructure'
    BY <1>17 DEF Load
  <2>2. PointerStructure'
    BY <1>17 DEF Load
  <2>3. ThreadOwnsInterpreter'
    BY <1>17 DEF Load
  <2>4. StateStructure'
    BY <1>17 DEF Load
  <2>5. (~AsyncStart => StartedAcceptsEvents)'
    BY <1>17 DEF Load
  <2>6. (~AsyncStart => StopWakesThread)'
    BY <1>17, <1>b DEF Load
  <2>7. QED
    BY <2>1, <2>2, <2>3, <2>4, <2>5, <2>6
<1>18. CASE ValidateFails
  BY <1>18, <1>b DEF ValidateFails
<1>19. CASE Validate
  BY <1>19, <1>b DEF Validate
<1>20. CASE SyncStep
  <2>1. CallStructure'
    BY <1>20 DEF SyncStep
  <2>2. PointerStructure'
    BY <1>20 DEF SyncStep
  <2>3. ThreadOwnsInterpreter'
    BY <1>20 DEF SyncStep
  <2>4. StateStructure'
    BY <1>20 DEF SyncStep
  <2>5. (~AsyncStart => StartedAcceptsEvents)'
    BY <1>20 DEF SyncStep
  <2>6. (~AsyncStart => StopWakesThread)'
    BY <1>20, <1>b DEF SyncStep
  <2>7. QED
    BY <2>1, <2>2, <2>3, <2>4, <2>5, <2>6
<1>21. CASE SyncThrows
  BY <1>21, <1>b DEF SyncThrows, StepThrows
<1>22. CASE Spawn
  BY <1>22, <1>b DEF Spawn
<1>23. CASE AssignThread
  BY <1>23, <1>b DEF AssignThread
<1>24. CASE FinishedAtLoad
  BY <1>24, <1>b DEF FinishedAtLoad
<1>25. ASSUME NEW s \in Session, Step(s) PROVE IInv'
  <2>1. CallStructure'
    BY <1>25 DEF Step
  <2>2. PointerStructure'
    BY <1>25 DEF Step
  <2>3. ThreadOwnsInterpreter'
    BY <1>25 DEF Step
  <2>4. StateStructure'
    <3>1. PICK r \in InterpreterState : StepReturns(r) /\ ret' = r
      BY <1>25 DEF Step
    <3>2. ret' # "USCXML_UNDEF"
      BY <3>1, StepEffect
    <3>3. QED
      BY <1>25, <3>2 DEF Step
  <2>5. (~AsyncStart => StartedAcceptsEvents)'
    BY <1>25 DEF Step
  <2>6. (~AsyncStart => StopWakesThread)'
    <3>1. PICK r \in InterpreterState : StepReturns(r) /\ ret' = r
      BY <1>25 DEF Step
    <3>2. Unblocked => Unblocked' \/ ret' \in Terminal
      BY <3>1, StepEffect
    <3>3. QED
      BY <1>25, <3>2 DEF Step
  <2>7. QED
    BY <2>1, <2>2, <2>3, <2>4, <2>5, <2>6
<1>26. ASSUME NEW s \in Session, SetState(s) PROVE IInv'
  <2>1. CallStructure'
    BY <1>26 DEF SetState
  <2>2. PointerStructure'
    BY <1>26 DEF SetState
  <2>3. ThreadOwnsInterpreter'
    BY <1>26 DEF SetState
  <2>4. StateStructure'
    BY <1>26 DEF SetState
  <2>5. (~AsyncStart => StartedAcceptsEvents)'
    BY <1>26 DEF SetState
  <2>6. (~AsyncStart => StopWakesThread)'
    BY <1>26, <1>b DEF SetState
  <2>7. QED
    BY <2>1, <2>2, <2>3, <2>4, <2>5, <2>6
<1>27. ASSUME NEW s \in Session, ErrorEvent(s) PROVE IInv'
  BY <1>27, <1>b DEF ErrorEvent, StepThrows
<1>28. ASSUME NEW s \in Session, TestCallback(s) PROVE IInv'
  BY <1>28, <1>b DEF TestCallback
<1>29. ASSUME NEW s \in Session, CallCallback(s) PROVE IInv'
  <2>1. CallStructure'
    BY <1>29 DEF CallCallback
  <2>2. PointerStructure'
    BY <1>29 DEF CallCallback
  <2>3. ThreadOwnsInterpreter'
    BY <1>29 DEF CallCallback
  <2>4. StateStructure'
    BY <1>29 DEF CallCallback
  <2>5. (~AsyncStart => StartedAcceptsEvents)'
    BY <1>29 DEF CallCallback
  <2>6. (~AsyncStart => StopWakesThread)'
    BY <1>29, <1>b DEF CallCallback
  <2>7. QED
    BY <2>1, <2>2, <2>3, <2>4, <2>5, <2>6
<1>30. ASSUME NEW s \in Session, CallbackReturns(s) PROVE IInv'
  BY <1>30, <1>b DEF CallbackReturns
<1>31. ASSUME NEW s \in Session, CallbackTriggerEvent(s) PROVE IInv'
  <2>1. CallStructure'
    BY <1>31 DEF CallbackTriggerEvent, ReadyToReceive
  <2>2. PointerStructure'
    BY <1>31 DEF CallbackTriggerEvent, ReadyToReceive
  <2>3. ThreadOwnsInterpreter'
    BY <1>31 DEF CallbackTriggerEvent, ReadyToReceive
  <2>4. StateStructure'
    BY <1>31 DEF CallbackTriggerEvent, ReadyToReceive
  <2>5. (~AsyncStart => StartedAcceptsEvents)'
    BY <1>31 DEF CallbackTriggerEvent, ReadyToReceive
  <2>6. (~AsyncStart => StopWakesThread)'
    <3>1. Unblocked => Unblocked'
      BY <1>31, AppendKeepsUnblock DEF CallbackTriggerEvent, Unblocked
    <3>2. QED
      BY <1>31, <3>1 DEF CallbackTriggerEvent
  <2>7. QED
    BY <2>1, <2>2, <2>3, <2>4, <2>5, <2>6
<1>32. ASSUME NEW s \in Session, CallbackStopInterpreter(s) PROVE IInv'
  BY <1>32, <1>b, CancelUnblocks DEF CallbackStopInterpreter
<1>33. CASE UNCHANGED vars
  BY <1>33, <1>b DEF vars
<1>34. QED
  BY <1>1, <1>2, <1>3, <1>4, <1>5, <1>6, <1>7, <1>8, <1>9, <1>10, <1>11, <1>12,
     <1>13, <1>14, <1>15, <1>16, <1>17, <1>18, <1>19, <1>20, <1>21, <1>22, <1>23,
     <1>24, <1>25, <1>26, <1>27, <1>28, <1>29, <1>30, <1>31, <1>32, <1>33
     DEF Next, AppCall, AppStep, ThreadStep, CallbackCall

\* The initial state satisfies it.
LEMMA InductiveInit == Init => IInv
<1> SUFFICES ASSUME Init PROVE IInv
  OBVIOUS
<1>1. TypeOK
  <2>1. /\ stoppedFn \in BOOLEAN /\ queuePaused \in BOOLEAN
        /\ wanted \in [Session -> BOOLEAN]
    BY Zenon DEF Init
  <2>2. QED
    BY <2>1 DEF Init, TypeOK, Session, NoSession, InterpreterState, Stable, Terminal
<1>2. CallStructure /\ PointerStructure /\ ThreadOwnsInterpreter /\ StateStructure
  BY DEF Init, CallStructure, PointerStructure, ThreadOwnsInterpreter, StateStructure,
         Live, Session, NoSession
<1>3. StartedAcceptsEvents /\ StopWakesThread
  BY DEF Init, StartedAcceptsEvents, StopWakesThread
<1>4. QED
  BY <1>1, <1>2, <1>3 DEF IInv

\* Hence it holds in every reachable state.
LEMMA Invariance == Spec => []IInv
<1>1. IInv /\ [Next]_vars => IInv'
  BY InductiveStep
<1>2. QED
  BY InductiveInit, <1>1, PTL DEF Spec

------------------------------------------------------------------------------
(* Theorems.                                                               *)

\* Every variable keeps its type: in particular a session's identity stays in
\* range although sessions are made by several opened handles.
THEOREM TypeCorrect == Spec => []TypeOK
<1>1. IInv => TypeOK
  BY DEF IInv
<1>2. QED
  BY Invariance, <1>1, PTL

\* While an interpreter thread runs, the object and the interpreter it executes
\* are there, and the next start(), stop or destructor joins it.
THEOREM OwnedInterpreter == Spec => []ThreadOwnsInterpreter
<1>1. IInv => ThreadOwnsInterpreter
  BY DEF IInv
<1>2. QED
  BY Invariance, <1>1, PTL

\* With the synchronized load, a started interpreter takes events.
THEOREM SynchronizedStartAcceptsEvents ==
  ASSUME ~AsyncStart PROVE Spec => []StartedAcceptsEvents
<1>1. IInv => StartedAcceptsEvents
  BY DEF IInv
<1>2. QED
  BY Invariance, <1>1, PTL

\* With the synchronized load, stop and close never wait for a thread that
\* nothing will wake.
THEOREM SynchronizedStopWakesThread ==
  ASSUME ~AsyncStart PROVE Spec => []StopWakesThread
<1>1. IInv => StopWakesThread
  BY DEF IInv
<1>2. QED
  BY Invariance, <1>1, PTL

------------------------------------------------------------------------------
(* The handle follows its documented usage chart: under the refinement     *)
(* mapping phaseOfHandle every step is a transition of the chart or none.  *)

\* A session that is being started has a delay queue that is not paused; the
\* application cannot pause it before start() returns.
FreshQueue == pc \in {"validate", "sync", "spawn", "assign"} => ~queuePaused

LEMMA FreshQueueStep ==
  ASSUME IInv, FreshQueue, [Next]_vars
  PROVE  FreshQueue'
<1>1. CASE pc' = pc /\ queuePaused' = queuePaused
  BY <1>1 DEF FreshQueue
<1>2. CASE AppCall
  BY <1>2 DEF AppCall, InvalidCall, OpenInterpreter, CloseInterpreter,
     RegisterInterpreterStoppedCallback, StartInterpreter, StopInterpreter,
     WaitForInterpreterStopped, PauseInterpreter, ResumeInterpreter, TriggerEvent,
     Enter, Return, FreshQueue, Idle
<1>3. CASE AppStep
  BY <1>3 DEF AppStep, Receive, CloseCheck, CloseCancel, WaitForStopped, Destroy,
     LoadFails, Load, ValidateFails, Validate, SyncStep, SyncThrows, Spawn, AssignThread,
     FinishedAtLoad, Return, FreshQueue, objectVars
<1>4. ASSUME NEW s \in Session, ThreadStep(s) \/ CallbackCall(s) PROVE FreshQueue'
  BY <1>1, <1>4 DEF ThreadStep, Step, SetState, ErrorEvent, TestCallback, CallCallback,
     CallbackReturns, CallbackCall, CallbackTriggerEvent, CallbackStopInterpreter,
     appVars, objectVars
<1>5. CASE UNCHANGED vars
  BY <1>1, <1>5 DEF vars, appVars, objectVars
<1>6. QED
  BY <1>2, <1>3, <1>4, <1>5 DEF Next

\* Steps that leave alone what the phase depends on.
LEMMA PhaseElsewhere ==
  ASSUME UNCHANGED <<handle, threadPtr, state, queuePaused>>
  PROVE  UNCHANGED phaseOfHandle
BY DEF phaseOfHandle, ValidHandle

LEMMA ChartStep ==
  ASSUME IInv, FreshQueue, [Next]_vars
  PROVE  [Chart!Next]_phaseOfHandle
<1> USE DEF phaseOfHandle, ValidHandle, Chart!Next, Chart!OpenInterpreter,
        Chart!CloseInterpreter, Chart!StartInterpreter, Chart!StopOrFinish,
        Chart!PauseInterpreter, Chart!ResumeInterpreter, Chart!Started, Chart!Opened
<1>1. CASE OpenInterpreter
  BY <1>1 DEF OpenInterpreter, Constructed
<1>2. CASE CloseInterpreter
  BY <1>2 DEF CloseInterpreter
<1>3. CASE PauseInterpreter
  BY <1>3 DEF PauseInterpreter, IInv, PointerStructure
<1>4. CASE ResumeInterpreter
  BY <1>4 DEF ResumeInterpreter
<1>5. CASE WaitForStopped
  BY <1>5 DEF WaitForStopped
<1>6. CASE Destroy
  BY <1>6 DEF Destroy, Constructed, IInv, CallStructure
<1>7. CASE Load \/ SyncStep
  BY <1>7 DEF Load, SyncStep, IInv, PointerStructure
<1>8. CASE AssignThread
  BY <1>8 DEF AssignThread, IInv, CallStructure, PointerStructure, FreshQueue
<1>9. ASSUME NEW s \in Session, SetState(s) PROVE [Chart!Next]_phaseOfHandle
  BY <1>9 DEF SetState, IInv, StateStructure
<1>10. ASSUME UNCHANGED <<handle, threadPtr, state, queuePaused>>
       PROVE  [Chart!Next]_phaseOfHandle
  BY <1>10, PhaseElsewhere
<1>11. CASE \/ InvalidCall \/ RegisterInterpreterStoppedCallback \/ StartInterpreter
            \/ StopInterpreter \/ WaitForInterpreterStopped \/ TriggerEvent
  BY <1>10, <1>11 DEF InvalidCall, RegisterInterpreterStoppedCallback, StartInterpreter,
     StopInterpreter, WaitForInterpreterStopped, TriggerEvent, objectVars
<1>12. CASE \/ Receive \/ CloseCheck \/ CloseCancel \/ LoadFails \/ ValidateFails
            \/ Validate \/ SyncThrows \/ Spawn \/ FinishedAtLoad
  BY <1>10, <1>12 DEF Receive, CloseCheck, CloseCancel, LoadFails, ValidateFails,
     Validate, SyncThrows, Spawn, FinishedAtLoad, objectVars
<1>13. ASSUME NEW s \in Session,
              \/ Step(s) \/ ErrorEvent(s) \/ TestCallback(s) \/ CallCallback(s)
              \/ CallbackReturns(s) \/ CallbackCall(s)
       PROVE  [Chart!Next]_phaseOfHandle
  BY <1>10, <1>13 DEF Step, ErrorEvent, TestCallback, CallCallback, CallbackReturns,
     CallbackCall, CallbackTriggerEvent, CallbackStopInterpreter, objectVars
<1>14. CASE UNCHANGED vars
  BY <1>10, <1>14 DEF vars, objectVars
<1>15. QED
  BY <1>1, <1>2, <1>3, <1>4, <1>5, <1>6, <1>7, <1>8, <1>9, <1>11, <1>12, <1>13, <1>14
     DEF Next, AppCall, AppStep, ThreadStep

\* The handle implements the chart that documents the library, whatever the
\* application calls in whatever order, with and without AsyncStart.
THEOREM HandleFollowsChart == Spec => FollowsChart
<1>1. Init => Chart!Init /\ FreshQueue
  BY DEF Init, Chart!Init, phaseOfHandle, ValidHandle, FreshQueue
<1>2. IInv /\ FreshQueue /\ [Next]_vars => FreshQueue'
  BY FreshQueueStep
<1>3. IInv /\ FreshQueue /\ [Next]_vars => [Chart!Next]_phaseOfHandle
  BY ChartStep
<1>4. QED
  BY Invariance, <1>1, <1>2, <1>3, PTL DEF Spec, FollowsChart, Chart!Spec

------------------------------------------------------------------------------
(* The end of a session is announced once.  Not inductive by itself: that  *)
(* the callback registered at the start is the one the thread finds when   *)
(* its session ends follows from the steps between the two.                *)

\* The number of announcements that are due for session s.
Due(s) == IF wanted[s] THEN 1 ELSE 0

\* How far the announcement of the session of an open handle is.
Announced(s) ==
  /\ thread[s] \in {"step", "set", "stopping"} => stoppedFn = wanted[s]
  /\ thread[s] = "calling" => stoppedFn /\ wanted[s]
  /\ thread[s] \in {"called", "ended"} => notified[s] = Due(s)
  /\ thread[s] = "called" => wanted[s]
  /\ thread[s] = "none" /\ state \in Terminal /\ pc # "spawn" => notified[s] = Due(s)

\* A session is announced by its thread or, if it ends while it is loaded, before
\* it has one; a session not made yet has neither.
SessionStructure ==
  /\ interp \in {NoSession, made}
  /\ \A s \in Session : s > made => thread[s] = "none" /\ notified[s] = 0
  /\ pc \in {"validate", "sync", "spawn"} =>
       thread[interp] = "none" /\ notified[interp] = 0 /\ stoppedFn = wanted[interp]
  /\ pc = "validate" => state = "USCXML_UNDEF"
  /\ pc = "sync" => state \notin Terminal
  /\ \A s \in Session :
       /\ notified[s] <= 1
       /\ thread[s] \in {"step", "set", "stopping", "calling", "crashed"} => notified[s] = 0

AnnounceStructure ==
  /\ SessionStructure
  /\ \A s \in Session : handle = "open" /\ interp = s => Announced(s)

\* Steps of a call that touch neither a thread nor what announces its end.
LEMMA AnnounceElsewhere ==
  ASSUME AnnounceStructure, UNCHANGED <<interp, made, thread, notified, wanted, stoppedFn, state>>,
         pc' \notin {"validate", "sync", "spawn"}, handle' = handle, pc # "spawn"
  PROVE  AnnounceStructure'
BY DEF AnnounceStructure, SessionStructure, Announced, Due

LEMMA AnnounceCall ==
  ASSUME IInv, AnnounceStructure, AppCall
  PROVE  AnnounceStructure'
<1>1. CASE OpenInterpreter
  BY <1>1 DEF OpenInterpreter, Constructed, Idle, Return, AnnounceStructure,
     SessionStructure, threadVars, historyVars, NoSession, Session
<1>2. CASE CloseInterpreter
  BY <1>2 DEF CloseInterpreter, Enter, Idle, AnnounceStructure, SessionStructure,
     threadVars, historyVars
<1>3. CASE RegisterInterpreterStoppedCallback
  BY <1>3 DEF RegisterInterpreterStoppedCallback, Return, Idle, AnnounceStructure,
     SessionStructure, Announced, Due, threadVars, historyVars
<1>4. CASE \/ InvalidCall \/ StartInterpreter \/ StopInterpreter \/ WaitForInterpreterStopped
           \/ PauseInterpreter \/ ResumeInterpreter \/ TriggerEvent
  BY <1>4, AnnounceElsewhere DEF InvalidCall, StartInterpreter, StopInterpreter,
     WaitForInterpreterStopped, PauseInterpreter, ResumeInterpreter, TriggerEvent, Enter,
     Return, Idle, objectVars, threadVars, historyVars
<1>5. QED
  BY <1>1, <1>2, <1>3, <1>4 DEF AppCall

LEMMA AnnounceApp ==
  ASSUME IInv, AnnounceStructure, AppStep
  PROVE  AnnounceStructure'
<1> USE ConstantsAssumption DEF ConstantsAssumption
<1>0. /\ made \in Session \cup {NoSession} /\ interp \in Session \cup {NoSession}
      /\ state \in InterpreterState /\ notified \in [Session -> Nat]
      /\ wanted \in [Session -> BOOLEAN] /\ stoppedFn \in BOOLEAN
      /\ DOMAIN thread = Session
  BY DEF IInv, TypeOK
<1>1. CASE \/ Receive \/ CloseCheck \/ CloseCancel \/ WaitForStopped \/ LoadFails
           \/ ValidateFails \/ SyncThrows \/ AssignThread
  <2>1. pc # "spawn" /\ pc' \notin {"validate", "sync", "spawn"}
    BY <1>1 DEF Receive, CloseCheck, CloseCancel, WaitForStopped, LoadFails,
       ValidateFails, SyncThrows, AssignThread, Return
  <2>2. UNCHANGED <<interp, made, thread, notified, wanted, stoppedFn, state, handle>>
    BY <1>1 DEF Receive, CloseCheck, CloseCancel, WaitForStopped, LoadFails,
       ValidateFails, SyncThrows, AssignThread, objectVars, threadVars, historyVars
  <2>3. QED
    BY <2>1, <2>2, AnnounceElsewhere
<1>2. CASE Destroy
  BY <1>2 DEF Destroy, Constructed, Return, AnnounceStructure, SessionStructure,
     threadVars, historyVars, NoSession, Session
<1>3. CASE Load
  <2>1. made < MaxSessions /\ pc = "load" /\ \A s \in Session : ~Live(s)
    BY <1>3 DEF Load, IInv, CallStructure, PointerStructure
  <2>2. /\ made' = made + 1 /\ made' \in Session /\ interp' = made' /\ pc' = "validate"
        /\ state' = "USCXML_UNDEF" /\ wanted' = [wanted EXCEPT ![made'] = stoppedFn]
        /\ UNCHANGED <<thread, notified, stoppedFn, handle>>
    BY <1>0, <1>3, <2>1 DEF Load, threadVars, Session, NoSession
  <2>3. made' > made
    BY <1>0, <2>2 DEF Session, NoSession
  <2>4. thread[made'] = "none" /\ notified[made'] = 0 /\ wanted'[made'] = stoppedFn
    BY <1>0, <2>2, <2>3 DEF AnnounceStructure, SessionStructure
  <2>5. \A s \in Session : s > made' => s > made
    BY <1>0, <2>2 DEF Session, NoSession
  <2>6. SessionStructure'
    BY <2>2, <2>4, <2>5 DEF AnnounceStructure, SessionStructure
  <2>7. \A s \in Session : interp' = s => Announced(s)'
    BY <2>2, <2>4 DEF Announced, Terminal
  <2>8. QED
    BY <2>6, <2>7 DEF AnnounceStructure
<1>4. CASE Validate
  BY <1>4 DEF Validate, AnnounceStructure, SessionStructure, Announced, Due, Terminal,
     objectVars, threadVars, historyVars
<1>5. CASE SyncStep
  <2>1. /\ pc = "sync" /\ pc' \in {"sync", "spawn"} /\ (pc' = "sync" => state' \notin Terminal)
        /\ UNCHANGED <<interp, made, thread, notified, wanted, stoppedFn, handle>>
    BY <1>5 DEF SyncStep, threadVars, historyVars, Stable
  <2>2. SessionStructure'
    BY <2>1 DEF AnnounceStructure, SessionStructure
  <2>3. \A s \in Session : handle' = "open" /\ interp' = s => Announced(s)'
    BY <2>1 DEF AnnounceStructure, SessionStructure, Announced, Due
  <2>4. QED
    BY <2>2, <2>3 DEF AnnounceStructure
<1>6. CASE Spawn
  <2>1. /\ pc = "spawn" /\ pc' = "assign" /\ thread' = [thread EXCEPT ![interp] = "step"]
        /\ UNCHANGED <<interp, made, notified, wanted, stoppedFn, state, handle>>
    BY <1>6 DEF Spawn, objectVars, historyVars
  <2>2. interp \in Session /\ interp = made
    BY <1>0, <2>1 DEF IInv, CallStructure, AnnounceStructure, SessionStructure
  <2>3. notified[interp] = 0 /\ stoppedFn = wanted[interp] /\ ~(interp > made)
    BY <2>1, <2>2 DEF AnnounceStructure, SessionStructure, Session
  <2>4. /\ thread'[interp] = "step"
        /\ \A s \in Session \ {interp} : thread'[s] = thread[s]
    BY <1>0, <2>1, <2>2
  <2>5. SessionStructure'
    BY <2>1, <2>2, <2>3, <2>4 DEF AnnounceStructure, SessionStructure
  <2>6. Announced(interp)'
    BY <2>1, <2>3, <2>4 DEF Announced
  <2>7. QED
    BY <2>1, <2>5, <2>6 DEF AnnounceStructure
<1>7. CASE FinishedAtLoad
  <2>1. /\ pc = "spawn" /\ pc' = "idle"
        /\ notified' = IF stoppedFn THEN [notified EXCEPT ![interp] = @ + 1] ELSE notified
        /\ UNCHANGED <<interp, made, thread, wanted, stoppedFn, state, handle>>
    BY <1>7 DEF FinishedAtLoad, Return, objectVars, threadVars
  <2>2. interp \in Session /\ interp = made
    BY <1>0, <2>1 DEF IInv, CallStructure, AnnounceStructure, SessionStructure
  <2>3. /\ thread[interp] = "none" /\ notified[interp] = 0 /\ stoppedFn = wanted[interp]
        /\ ~(interp > made)
    BY <2>1, <2>2 DEF AnnounceStructure, SessionStructure, Session
  <2>4. /\ notified'[interp] = Due(interp) /\ notified'[interp] \in {0, 1}
        /\ \A s \in Session \ {interp} : notified'[s] = notified[s]
    BY <1>0, <2>1, <2>2, <2>3 DEF Due
  <2>5. SessionStructure'
    BY <2>1, <2>2, <2>3, <2>4 DEF AnnounceStructure, SessionStructure
  <2>6. Announced(interp)'
    BY <2>1, <2>3, <2>4 DEF Announced, Due
  <2>7. QED
    BY <2>1, <2>5, <2>6 DEF AnnounceStructure
<1>8. QED
  BY <1>1, <1>2, <1>3, <1>4, <1>5, <1>6, <1>7 DEF AppStep

\* A thread goes on from one place to another.
LEMMA AnnounceThread ==
  ASSUME IInv, AnnounceStructure, NEW s \in Session, ThreadStep(s)
  PROVE  AnnounceStructure'
<1>0. /\ made \in Session \cup {NoSession} /\ interp \in Session \cup {NoSession}
      /\ state \in InterpreterState /\ notified \in [Session -> Nat]
      /\ wanted \in [Session -> BOOLEAN] /\ stoppedFn \in BOOLEAN
      /\ DOMAIN thread = Session
  BY DEF IInv, TypeOK
\* Only a live thread makes steps: it is the current session's, and start() is
\* past the steps that make one.
<1>1. /\ interp = s /\ thread[s] \in {"step", "set", "stopping", "calling", "called"}
      /\ pc \notin {"validate", "sync", "spawn"}
  BY DEF ThreadStep, Step, SetState, ErrorEvent, TestCallback, CallCallback,
     CallbackReturns, IInv, ThreadOwnsInterpreter, PointerStructure, Live
<1>2. /\ UNCHANGED <<pc, interp, made, wanted, stoppedFn, handle>>
      /\ \A u \in Session \ {s} : thread'[u] = thread[u] /\ notified'[u] = notified[u]
  BY <1>0 DEF ThreadStep, Step, SetState, ErrorEvent, TestCallback, CallCallback,
     CallbackReturns, appVars, objectVars, historyVars
<1>3. ~(s > made) /\ notified[s] <= 1
  BY <1>1 DEF AnnounceStructure, SessionStructure
\* What is left to show of the session whose thread it is.
<1>4. ASSUME notified'[s] <= 1, thread'[s] # "none",
             thread'[s] \in {"step", "set", "stopping", "calling", "crashed"} => notified'[s] = 0,
             handle = "open" => Announced(s)'
      PROVE  AnnounceStructure'
  <2>1. SessionStructure'
    BY <1>1, <1>2, <1>3, <1>4 DEF AnnounceStructure, SessionStructure
  <2>2. QED
    BY <1>1, <1>2, <1>4, <2>1 DEF AnnounceStructure
<1>5. CASE Step(s) \/ SetState(s) \/ ErrorEvent(s)
  <2>1. /\ thread[s] \in {"step", "set"} /\ thread'[s] \in {"step", "set", "stopping"}
        /\ notified' = notified
    BY <1>0, <1>5 DEF Step, SetState, ErrorEvent, historyVars
  <2>2. notified[s] = 0 /\ (handle = "open" => stoppedFn = wanted[s])
    BY <1>1, <2>1 DEF AnnounceStructure, SessionStructure, Announced
  <2>3. QED
    BY <1>2, <1>4, <2>1, <2>2 DEF Announced
<1>6. CASE TestCallback(s)
  <2>1. /\ thread[s] = "stopping" /\ notified' = notified
        /\ thread'[s] = IF stoppedFn THEN "calling" ELSE "ended"
    BY <1>0, <1>6 DEF TestCallback, historyVars
  <2>2. notified[s] = 0 /\ (handle = "open" => stoppedFn = wanted[s])
    BY <1>1, <2>1 DEF AnnounceStructure, SessionStructure, Announced
  <2>3. handle = "open" => Announced(s)'
    BY <1>0, <1>2, <2>1, <2>2 DEF Announced, Due
  <2>4. QED
    BY <1>4, <2>1, <2>2, <2>3
<1>7. CASE CallCallback(s)
  <2>1. thread[s] = "calling" /\ notified[s] = 0 /\ (handle = "open" => stoppedFn /\ wanted[s])
    BY <1>1, <1>7 DEF CallCallback, AnnounceStructure, SessionStructure, Announced
  <2>2. CASE thread'[s] = "crashed"
    <3>1. notified' = notified /\ ~stoppedFn
      BY <1>0, <1>7, <2>2 DEF CallCallback
    <3>2. QED
      BY <1>4, <2>1, <2>2, <3>1
  <2>3. CASE thread'[s] # "crashed"
    <3>1. thread'[s] = "called" /\ notified'[s] = 1
      BY <1>0, <1>7, <2>1, <2>3 DEF CallCallback
    <3>2. handle = "open" => Announced(s)'
      BY <1>2, <2>1, <3>1 DEF Announced, Due
    <3>3. QED
      BY <1>4, <3>1, <3>2
  <2>4. QED
    BY <2>2, <2>3
<1>8. CASE CallbackReturns(s)
  <2>1. thread[s] = "called" /\ thread'[s] = "ended" /\ notified' = notified
    BY <1>0, <1>8 DEF CallbackReturns, historyVars
  <2>2. handle = "open" => notified[s] = Due(s)
    BY <1>1, <2>1 DEF AnnounceStructure, Announced
  <2>3. handle = "open" => Announced(s)'
    BY <1>2, <2>1, <2>2 DEF Announced, Due
  <2>4. QED
    BY <1>3, <1>4, <2>1, <2>3
<1>9. QED
  BY <1>5, <1>6, <1>7, <1>8 DEF ThreadStep

LEMMA AnnounceStep == IInv /\ AnnounceStructure /\ [Next]_vars => AnnounceStructure'
<1> SUFFICES ASSUME IInv, AnnounceStructure, [Next]_vars PROVE AnnounceStructure'
  OBVIOUS
\* A callback that calls the library changes the queue of events and nothing else.
<1>1. ASSUME NEW s \in Session, CallbackCall(s) PROVE AnnounceStructure'
  BY <1>1 DEF CallbackCall, CallbackTriggerEvent, CallbackStopInterpreter, appVars,
     objectVars, threadVars, historyVars, AnnounceStructure, SessionStructure, Announced, Due
<1>2. CASE UNCHANGED vars
  BY <1>2 DEF vars, appVars, objectVars, threadVars, historyVars, AnnounceStructure,
     SessionStructure, Announced, Due
<1>3. QED
  BY <1>1, <1>2, AnnounceCall, AnnounceApp, AnnounceThread DEF Next

\* The stopped callback is called once for each session that ends while its handle
\* is open and that had one registered at its start, on the thread or by start()
\* itself, and never twice, for any number of sessions.
THEOREM StopIsAnnouncedOnce == Spec => []StoppedAnnouncedOnce
<1>1. Init => AnnounceStructure
  BY ConstantsAssumption DEF Init, AnnounceStructure, SessionStructure, Session, NoSession
<1>2. IInv /\ AnnounceStructure => StoppedAnnouncedOnce
  <2> SUFFICES ASSUME IInv, AnnounceStructure, NEW s \in Session, Idle, ValidHandle,
                      interp = s, threadPtr = NoSession,
                      thread[s] = "ended" \/ state \in Terminal
               PROVE  notified[s] = Due(s)
    BY DEF StoppedAnnouncedOnce, AnnounceStructure, SessionStructure, Due
  <2>1. ~Live(s)
    BY DEF IInv, ThreadOwnsInterpreter, Idle, Session, NoSession
  <2>2. QED
    BY <2>1 DEF Live, AnnounceStructure, Announced, Idle, ValidHandle
<1>3. QED
  BY Invariance, <1>1, <1>2, AnnounceStep, PTL DEF Spec
==============================================================================
