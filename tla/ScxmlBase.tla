------------------------------ MODULE ScxmlBase ------------------------------
(***************************************************************************)
(* The life cycle of one interpreter handle: the exported calls of         *)
(* UscxmlCLibExport.cpp on the object ScxmlBase (UscxmlClibBase.cpp), made *)
(* by one application thread, and the interpreter thread that start()      *)
(* spawns.  The two threads interleave at the grain of the shared state    *)
(* they read and write: _state, _interpreter, _interpreter_thread_ptr and  *)
(* the _OnInterpreterStopped function pointer.                             *)
(*                                                                         *)
(* Every successful fromXML/fromURL makes a new "session": the identity of *)
(* the uscxml::Interpreter then held by _interpreter and of the thread     *)
(* that executes it.  Session numbers are never reused, also not after     *)
(* the handle was closed and a new one opened.                             *)
(***************************************************************************)
EXTENDS Naturals, Sequences

CONSTANTS
  AsyncStart,       \* _options.AsyncStart
  ReloadsCallback,  \* the build reads _OnInterpreterStopped again to call it
  MaxSessions,      \* bound: interpreters made in one behaviour
  MaxQueue          \* bound: events waiting when a new one is offered

ASSUME ConstantsAssumption ==
  /\ AsyncStart \in BOOLEAN
  /\ ReloadsCallback \in BOOLEAN
  /\ MaxSessions \in Nat
  /\ MaxQueue \in Nat

Session == 1 .. MaxSessions
NoSession == 0

\* uscxml::InterpreterState; USCXML_MICROSTEPPED stands for every value this
\* code does not tell apart (INSTANTIATED, INITIALIZED, IDLE).
Terminal == {"USCXML_FINISHED", "USCXML_CANCELLED"}
Stable   == Terminal \cup {"USCXML_MACROSTEPPED"}
InterpreterState == Stable \cup {"USCXML_UNDEF", "USCXML_MICROSTEPPED"}

VARIABLES
  \* the application thread
  pc,           \* where it is inside a library call, "idle" between calls
  op,           \* the call that is going on, "none" between calls
  result,       \* what the last completed call returned
  \* the object
  handle,       \* "none", "open" (in g_INTERPRETERS) or "erased" from it
  interp,       \* the session held by _interpreter
  state,        \* _state
  threadPtr,    \* _interpreter_thread_ptr
  stoppedFn,    \* _OnInterpreterStopped is not null
  queuePaused,  \* _queue_ptr->isPaused()
  \* the uscxml::Interpreter in _interpreter
  chart,        \* how far its microstepper is
  queue,        \* its external event queue
  \* the interpreter threads
  thread,       \* thread[s]: where the thread of session s is
  ret,          \* what its last step() returned
  \* history
  made,         \* the number of sessions made so far
  wanted,       \* wanted[s]: a stopped callback was registered at the start
  notified      \* notified[s]: calls of the stopped callback for session s

appVars     == <<pc, op, result>>
objectVars  == <<handle, interp, state, threadPtr, stoppedFn, queuePaused>>
chartVars   == <<chart, queue>>
threadVars  == <<thread, ret>>
historyVars == <<made, wanted, notified>>
vars == <<appVars, objectVars, chartVars, threadVars, historyVars>>

TypeOK ==
  /\ pc \in {"idle", "join", "load", "validate", "sync", "spawn", "assign",
             "check", "cancel", "destroy", "receive"}
  /\ op \in {"none", "start", "stop", "close", "wait", "trigger"}
  /\ result \in {"none", "USCLIB_SUCCESS", "ERROR_USCLIB"}
  /\ handle \in {"none", "open", "erased"}
  /\ interp \in Session \cup {NoSession}
  /\ state \in InterpreterState
  /\ threadPtr \in Session \cup {NoSession}
  /\ stoppedFn \in BOOLEAN
  /\ queuePaused \in BOOLEAN
  /\ chart \in {"new", "busy", "stable", "final", "cancelled"}
  /\ queue \in Seq({"event", "unblock"})
  /\ thread \in [Session -> {"none", "step", "set", "stopping", "calling",
                             "called", "ended", "crashed"}]
  /\ ret \in InterpreterState
  /\ made \in Session \cup {NoSession}
  /\ wanted \in [Session -> BOOLEAN]
  /\ notified \in [Session -> Nat]

Init ==
  /\ pc = "idle" /\ op = "none" /\ result = "none"
  /\ handle = "none"
  /\ interp = NoSession
  /\ state = "USCXML_UNDEF"
  /\ threadPtr = NoSession
  /\ stoppedFn = FALSE
  /\ queuePaused = FALSE
  /\ chart = "new" /\ queue = <<>>
  /\ thread = [s \in Session |-> "none"]
  /\ ret = "USCXML_UNDEF"
  /\ made = NoSession
  /\ wanted = [s \in Session |-> FALSE]
  /\ notified = [s \in Session |-> 0]

------------------------------------------------------------------------------
(* The uSCXML interpreter, a library outside this repository.              *)

\* InterpreterImpl::step of the interpreter in _interpreter returns r.  A
\* macrostep is one microstep that returns MICROSTEPPED and one step that
\* finds the configuration stable; step() on a stable configuration blocks
\* until an event is in the external queue.
StepReturns(r) ==
  \/ /\ chart = "new"
     /\ chart' = "busy" /\ r = "USCXML_MICROSTEPPED"
     /\ UNCHANGED queue
  \/ /\ chart = "busy"
     /\ \/ chart' = "final"  /\ r = "USCXML_MICROSTEPPED"
        \/ chart' = "stable" /\ r = "USCXML_MACROSTEPPED"
     /\ UNCHANGED queue
  \/ /\ chart = "stable" /\ queue # <<>>
     /\ \/ Head(queue) = "event"   /\ chart' = "busy" /\ r = "USCXML_MICROSTEPPED"
        \/ Head(queue) = "unblock" /\ chart' = "cancelled" /\ r = "USCXML_CANCELLED"
     /\ queue' = Tail(queue)
  \/ /\ chart = "final"     /\ r = "USCXML_FINISHED"  /\ UNCHANGED chartVars
  \/ /\ chart = "cancelled" /\ r = "USCXML_CANCELLED" /\ UNCHANGED chartVars

\* Executable content and data model errors surface while the chart is busy.
StepThrows == chart \in {"new", "busy"} /\ UNCHANGED chartVars

Unblocked == \E i \in DOMAIN queue : queue[i] = "unblock"

\* InterpreterImpl::cancel: mark as cancelled and queue an event that wakes a
\* blocked step().  A second unblocking event changes nothing.
Cancel == queue' = IF Unblocked THEN queue ELSE Append(queue, "unblock")

------------------------------------------------------------------------------
(* Exported calls: entry, and the guards they share.                       *)

Idle == pc = "idle"

\* CHECK_INTERPRETER_VALID finds the handle in g_INTERPRETERS.
ValidHandle == handle = "open"

\* The call o goes on at step at.
Enter(o, at) ==
  /\ pc' = at /\ op' = o
  /\ UNCHANGED result

\* The call returns code r.
Return(r) ==
  /\ pc' = "idle" /\ op' = "none"
  /\ result' = r

\* Broken variant: a member without its initializer in the class.
ConstructedIndeterminate ==
  /\ interp' = NoSession /\ threadPtr' = NoSession
  /\ state' = "indeterminate"
  /\ stoppedFn' = FALSE
  /\ queuePaused' = FALSE
  /\ chart' = "new" /\ queue' = <<>>

\* The values of the members of a constructed object; a deleted one has none.
Constructed ==
  /\ interp' = NoSession
  /\ state' = "USCXML_UNDEF"
  /\ threadPtr' = NoSession
  /\ stoppedFn' = FALSE
  /\ queuePaused' = FALSE
  /\ chart' = "new" /\ queue' = <<>>

\* Any call on a handle that is not registered throws before it does anything.
InvalidCall ==
  /\ Idle /\ ~ValidHandle
  /\ Return("ERROR_USCLIB")
  /\ UNCHANGED <<objectVars, chartVars, threadVars, historyVars>>

OpenInterpreter ==
  /\ Idle /\ handle = "none"
  /\ handle' = "open"
  /\ Constructed
  /\ Return("USCLIB_SUCCESS")
  /\ UNCHANGED <<threadVars, historyVars>>

\* "Registration must be complete before interpreter was started" (the header):
\* the application registers or clears the callback when no thread of the
\* handle is on its way to call it.
RegisterInterpreterStoppedCallback ==
  /\ Idle /\ ValidHandle
  /\ \A s \in Session : thread[s] \notin {"step", "set", "stopping", "calling"}
  /\ stoppedFn' \in BOOLEAN
  /\ Return("USCLIB_SUCCESS")
  /\ UNCHANGED <<handle, interp, state, threadPtr, queuePaused,
                 chartVars, threadVars, historyVars>>

\* pause() and resume() reach _queue_ptr once a start() has made one.
PauseInterpreter ==
  /\ Idle /\ ValidHandle
  /\ queuePaused' = (interp # NoSession)
  /\ Return("USCLIB_SUCCESS")
  /\ UNCHANGED <<handle, interp, state, threadPtr, stoppedFn,
                 chartVars, threadVars, historyVars>>

ResumeInterpreter ==
  /\ Idle /\ ValidHandle
  /\ queuePaused' = FALSE
  /\ Return("USCLIB_SUCCESS")
  /\ UNCHANGED <<handle, interp, state, threadPtr, stoppedFn,
                 chartVars, threadVars, historyVars>>

StartInterpreter ==
  /\ Idle /\ ValidHandle
  /\ made < MaxSessions
  /\ Enter("start", "join")
  /\ UNCHANGED <<objectVars, chartVars, threadVars, historyVars>>

StopInterpreter ==
  /\ Idle /\ ValidHandle
  /\ Enter("stop", "check")
  /\ UNCHANGED <<objectVars, chartVars, threadVars, historyVars>>

WaitForInterpreterStopped ==
  /\ Idle /\ ValidHandle
  /\ Enter("wait", "join")
  /\ UNCHANGED <<objectVars, chartVars, threadVars, historyVars>>

\* The handle leaves g_INTERPRETERS and the stopped callback is cleared before
\* the destructor runs close().
CloseInterpreter ==
  /\ Idle /\ ValidHandle
  /\ handle' = "erased"
  /\ stoppedFn' = FALSE
  /\ Enter("close", "check")
  /\ UNCHANGED <<interp, state, threadPtr, queuePaused,
                 chartVars, threadVars, historyVars>>

------------------------------------------------------------------------------
(* ScxmlBase::receive, called by usclib_TriggerEvent.                      *)

ReadyToReceive == interp # NoSession /\ state # "USCXML_UNDEF"

TriggerEvent ==
  /\ Idle /\ ValidHandle
  /\ Len(queue) < MaxQueue
  /\ IF ReadyToReceive THEN Enter("trigger", "receive") ELSE Return("ERROR_USCLIB")
  /\ UNCHANGED <<objectVars, chartVars, threadVars, historyVars>>

Receive ==
  /\ pc = "receive"
  /\ queue' = Append(queue, "event")
  /\ Return("USCLIB_SUCCESS")
  /\ UNCHANGED <<objectVars, chart, threadVars, historyVars>>

------------------------------------------------------------------------------
(* ScxmlBase::close and waitForStopped on the application thread.          *)

\* Broken variant: cancel only what is stable, not what is busy.
CloseCheckStableOnly ==
  /\ pc = "check"
  /\ pc' = IF threadPtr # NoSession /\ state = "USCXML_MACROSTEPPED"
           THEN "cancel" ELSE "join"
  /\ UNCHANGED <<op, result, objectVars, chartVars, threadVars, historyVars>>

\* close() looks at _state, then cancels without the lock that protected it.
CloseCheck ==
  /\ pc = "check"
  /\ pc' = IF /\ interp # NoSession
              /\ threadPtr # NoSession
              /\ state \notin Terminal \cup {"USCXML_UNDEF"}
           THEN "cancel" ELSE "join"
  /\ UNCHANGED <<op, result, objectVars, chartVars, threadVars, historyVars>>

CloseCancel ==
  /\ pc = "cancel"
  /\ Cancel
  /\ pc' = "join"
  /\ UNCHANGED <<op, result, objectVars, chart, threadVars, historyVars>>

\* Broken variant: detach() in place of join().
WaitForStoppedDetached ==
  /\ pc = "join"
  /\ threadPtr' = NoSession
  /\ CASE op = "start" -> pc' = "load"    /\ UNCHANGED <<op, result>>
       [] op = "close" -> pc' = "destroy" /\ UNCHANGED <<op, result>>
       [] OTHER        -> Return("USCLIB_SUCCESS")
  /\ UNCHANGED <<handle, interp, state, stoppedFn, queuePaused,
                 chartVars, threadVars, historyVars>>

\* join() returns once the thread has left blockingQueue().
WaitForStopped ==
  /\ pc = "join"
  /\ threadPtr # NoSession => thread[threadPtr] = "ended"
  /\ threadPtr' = NoSession
  /\ CASE op = "start" -> pc' = "load"    /\ UNCHANGED <<op, result>>
       [] op = "close" -> pc' = "destroy" /\ UNCHANGED <<op, result>>
       [] OTHER        -> Return("USCLIB_SUCCESS")
  /\ UNCHANGED <<handle, interp, state, stoppedFn, queuePaused,
                 chartVars, threadVars, historyVars>>

\* The rest of ~ScxmlBase, and the end of usclib_CloseInterpreter.
Destroy ==
  /\ pc = "destroy"
  /\ handle' = "none"
  /\ Constructed
  /\ Return("USCLIB_SUCCESS")
  /\ UNCHANGED <<threadVars, historyVars>>

------------------------------------------------------------------------------
(* ScxmlBase::start after waitForStopped().                                *)

\* fromXML or fromURL throws: the previous interpreter and state stay.
LoadFails ==
  /\ pc = "load"
  /\ Return("ERROR_USCLIB")
  /\ UNCHANGED <<objectVars, chartVars, threadVars, historyVars>>

\* Broken variant: the previous interpreter's delay queue is kept.
LoadKeepsQueue ==
  /\ pc = "load"
  /\ made' = made + 1
  /\ interp' = made'
  /\ state' = "USCXML_UNDEF"
  /\ chart' = "new" /\ queue' = <<>>
  /\ wanted' = [wanted EXCEPT ![made'] = stoppedFn]
  /\ pc' = "validate"
  /\ UNCHANGED <<op, result, handle, threadPtr, stoppedFn, queuePaused,
                 threadVars, notified>>

\* A new interpreter, _state reset, a new delay queue that is not paused.
Load ==
  /\ pc = "load"
  /\ made' = made + 1
  /\ interp' = made'
  /\ state' = "USCXML_UNDEF"
  /\ queuePaused' = FALSE
  /\ chart' = "new" /\ queue' = <<>>
  /\ wanted' = [wanted EXCEPT ![made'] = stoppedFn]
  /\ pc' = "validate"
  /\ UNCHANGED <<op, result, handle, threadPtr, stoppedFn, threadVars, notified>>

\* A fatal issue with TerminateNotValidated, or no remote monitor socket.
ValidateFails ==
  /\ pc = "validate"
  /\ Return("ERROR_USCLIB")
  /\ UNCHANGED <<objectVars, chartVars, threadVars, historyVars>>

\* Broken variant: the thread is spawned before the chart is stable.
ValidateWithoutLoad ==
  /\ pc = "validate"
  /\ pc' = "spawn"
  /\ UNCHANGED <<op, result, objectVars, chartVars, threadVars, historyVars>>

Validate ==
  /\ pc = "validate"
  /\ pc' = IF AsyncStart THEN "spawn" ELSE "sync"
  /\ UNCHANGED <<op, result, objectVars, chartVars, threadVars, historyVars>>

\* The synchronized load: one step() of the do-while loop.
SyncStep ==
  /\ pc = "sync"
  /\ \E r \in InterpreterState :
       /\ StepReturns(r)
       /\ state' = r
       /\ pc' = IF r \in Stable THEN "spawn" ELSE "sync"
  /\ UNCHANGED <<op, result, handle, interp, threadPtr, stoppedFn, queuePaused,
                 threadVars, historyVars>>

\* step() throws out of start(); the state reached so far stays.
SyncThrows ==
  /\ pc = "sync"
  /\ StepThrows
  /\ Return("ERROR_USCLIB")
  /\ UNCHANGED <<objectVars, threadVars, historyVars>>

\* The new thread may run before its address is in _interpreter_thread_ptr.
Spawn ==
  /\ pc = "spawn" /\ state \notin Terminal
  /\ thread' = [thread EXCEPT ![interp] = "step"]
  /\ ret' = "USCXML_UNDEF"
  /\ pc' = "assign"
  /\ UNCHANGED <<op, result, objectVars, chartVars, historyVars>>

AssignThread ==
  /\ pc = "assign"
  /\ threadPtr' = interp
  /\ Return("USCLIB_SUCCESS")
  /\ UNCHANGED <<handle, interp, state, stoppedFn, queuePaused,
                 chartVars, threadVars, historyVars>>

\* The chart ended during the load: start() itself calls the stopped callback.
FinishedAtLoad ==
  /\ pc = "spawn" /\ state \in Terminal
  /\ notified' = IF stoppedFn THEN [notified EXCEPT ![interp] = @ + 1]
                              ELSE notified
  /\ Return("USCLIB_SUCCESS")
  /\ UNCHANGED <<objectVars, chartVars, threadVars, made, wanted>>

------------------------------------------------------------------------------
(* ScxmlBase::blockingQueue: the interpreter thread of session s.          *)

Step(s) ==
  /\ thread[s] = "step"
  /\ \E r \in InterpreterState : StepReturns(r) /\ ret' = r
  /\ thread' = [thread EXCEPT ![s] = "set"]
  /\ UNCHANGED <<appVars, objectVars, historyVars>>

\* setState() and the test at the end of the loop.
SetState(s) ==
  /\ thread[s] = "set"
  /\ state' = ret
  /\ thread' = [thread EXCEPT ![s] = IF ret \in Terminal THEN "stopping" ELSE "step"]
  /\ UNCHANGED <<appVars, handle, interp, threadPtr, stoppedFn, queuePaused,
                 chartVars, ret, historyVars>>

\* Broken variant: the catch block returns.
ErrorEventReturns(s) ==
  /\ thread[s] = "step"
  /\ StepThrows
  /\ thread' = [thread EXCEPT ![s] = "ended"]
  /\ UNCHANGED <<appVars, objectVars, ret, historyVars>>

\* An ErrorEvent leaves the loop; _state keeps its last value.
ErrorEvent(s) ==
  /\ thread[s] = "step"
  /\ StepThrows
  /\ thread' = [thread EXCEPT ![s] = "stopping"]
  /\ UNCHANGED <<appVars, objectVars, ret, historyVars>>

\* if (_OnInterpreterStopped) ...
TestCallback(s) ==
  /\ thread[s] = "stopping"
  /\ thread' = [thread EXCEPT ![s] = IF stoppedFn THEN "calling" ELSE "ended"]
  /\ UNCHANGED <<appVars, objectVars, chartVars, ret, historyVars>>

\* ... _OnInterpreterStopped(this, user): a call through a pointer that was
\* cleared in between ends the process.
CallCallback(s) ==
  /\ thread[s] = "calling"
  /\ IF ReloadsCallback /\ ~stoppedFn
     THEN /\ thread' = [thread EXCEPT ![s] = "crashed"]
          /\ UNCHANGED notified
     ELSE /\ thread' = [thread EXCEPT ![s] = "called"]
          /\ notified' = [notified EXCEPT ![s] = @ + 1]
  /\ UNCHANGED <<appVars, objectVars, chartVars, ret, made, wanted>>

CallbackReturns(s) ==
  /\ thread[s] = "called"
  /\ thread' = [thread EXCEPT ![s] = "ended"]
  /\ UNCHANGED <<appVars, objectVars, chartVars, ret, historyVars>>

------------------------------------------------------------------------------
(* Library calls made from inside callbacks.                               *)

\* A callback of session s is executing: a monitor or log callback inside
\* step(), on the interpreter thread or during the synchronized load on the
\* application thread, or the stopped callback.
InCallback(s) ==
  \/ thread[s] = "step" /\ chart = "busy"
  \/ thread[s] = "called"
  \/ pc = "sync" /\ interp = s /\ chart = "busy"

CallbackTriggerEvent(s) ==
  /\ InCallback(s) /\ ValidHandle
  /\ ReadyToReceive
  /\ Len(queue) < MaxQueue
  /\ queue' = Append(queue, "event")
  /\ UNCHANGED <<appVars, objectVars, chart, threadVars, historyVars>>

\* close() cancels; its join() of the calling thread itself then throws, so
\* the call returns an error and threadPtr stays.
CallbackStopInterpreter(s) ==
  /\ InCallback(s) /\ ValidHandle
  /\ interp # NoSession /\ threadPtr # NoSession
  /\ state \notin Terminal \cup {"USCXML_UNDEF"}
  /\ Cancel
  /\ UNCHANGED <<appVars, objectVars, chart, threadVars, historyVars>>

------------------------------------------------------------------------------

\* Steps inside a call of the application; entering a call is its own choice.
AppStep ==
  \/ Receive \/ CloseCheck \/ CloseCancel \/ WaitForStopped \/ Destroy
  \/ LoadFails \/ Load \/ ValidateFails \/ Validate
  \/ SyncStep \/ SyncThrows \/ Spawn \/ AssignThread \/ FinishedAtLoad

AppCall ==
  \/ InvalidCall \/ OpenInterpreter \/ CloseInterpreter
  \/ RegisterInterpreterStoppedCallback
  \/ StartInterpreter \/ StopInterpreter \/ WaitForInterpreterStopped
  \/ PauseInterpreter \/ ResumeInterpreter \/ TriggerEvent

ThreadStep(s) ==
  \/ Step(s) \/ SetState(s) \/ ErrorEvent(s)
  \/ TestCallback(s) \/ CallCallback(s) \/ CallbackReturns(s)

CallbackCall(s) == CallbackTriggerEvent(s) \/ CallbackStopInterpreter(s)

Next ==
  \/ AppCall \/ AppStep
  \/ \E s \in Session : ThreadStep(s) \/ CallbackCall(s)

Spec == Init /\ [][Next]_vars

\* The operating system schedules both threads; nobody has to call the library.
Fairness == WF_vars(AppStep) /\ \A s \in Session : WF_vars(ThreadStep(s))

FairSpec == Spec /\ Fairness

------------------------------------------------------------------------------
(* Properties                                                              *)

\* The thread of session s may still touch the object or its interpreter.
Live(s) == thread[s] \notin {"none", "ended"}

\* While an interpreter thread runs, the object exists, _interpreter is the
\* interpreter that thread executes, and the object knows the thread, so that
\* the next start(), stop or destructor waits for it: start() replaces, and
\* ~ScxmlBase drops, _interpreter without any other protection than join().
ThreadOwnsInterpreter ==
  \A s \in Session : Live(s) =>
    /\ handle # "none"
    /\ interp = s
    /\ threadPtr = s \/ pc = "assign"

\* The stopped callback is called at most once for a session, and when no call
\* is going on and no thread is left for a session that ended, a callback that
\* was registered at its start has been called: on the thread, or by start()
\* itself for a chart that ends while it is loaded.
StoppedAnnouncedOnce ==
  \A s \in Session :
    /\ notified[s] <= 1
    /\ /\ Idle /\ ValidHandle
       /\ interp = s /\ threadPtr = NoSession
       /\ thread[s] = "ended" \/ state \in Terminal
       => notified[s] = IF wanted[s] THEN 1 ELSE 0

\* An event is refused ("while interpreter is not initialized EventQueue is
\* NULL !") only when no interpreter is started: between usclib_StartInterpreter
\* and usclib_StopInterpreter the documented chart takes usclib_TriggerEvent.
StartedAcceptsEvents == result = "ERROR_USCLIB" => threadPtr = NoSession

\* When stop or close waits for the thread, what wakes the thread is in its
\* queue or the thread has already seen its last step: the decision that
\* close() took from _state and the cancel that follows it leave no window in
\* which the thread goes back to sleep.
StopWakesThread ==
  op \in {"stop", "close"} /\ pc = "join" =>
    \A s \in Session :
      /\ thread[s] = "step" => Unblocked
      /\ thread[s] = "set"  => Unblocked \/ ret \in Terminal

\* Stop and close return.
StopReturns == op \in {"stop", "close"} ~> Idle

\* The process never calls the stopped callback through a null pointer: the
\* header asks for callbacks to be registered before the start only.
NoNullCall == \A s \in Session : thread[s] # "crashed"

\* The handle behaves as the chart that documents the library.
phaseOfHandle ==
  CASE ~ValidHandle                                     -> "Closed"
    [] ValidHandle /\ (threadPtr = NoSession \/ state \in Terminal) -> "Stopped"
    [] OTHER                        -> IF queuePaused THEN "Paused" ELSE "Active"

Chart == INSTANCE UscxmlCLibLogic WITH phase <- phaseOfHandle

FollowsChart == Chart!Spec
==============================================================================
