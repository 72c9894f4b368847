--------------------------- MODULE HandleRegistry ---------------------------
(***************************************************************************)
(* The exported calls of UscxmlCLibExport.cpp on several handles: the set  *)
(* g_INTERPRETERS they are looked up in, the objects they point to and the *)
(* codes they return.  Application threads open, use and close handles of  *)
(* their own; the thread of each interpreter calls back into the library   *)
(* with its own handle, from the application's callbacks.                  *)
(*                                                                         *)
(* A handle is the address of its object, and an address is free for the   *)
(* next object once the object is deleted: objects are told apart by the   *)
(* number of their construction.  Each look-up in and change of the set is *)
(* one step.                                                               *)
(***************************************************************************)
EXTENDS Naturals

CONSTANTS
  App,         \* application threads
  Addr,        \* addresses of objects of ScxmlBase
  MadeCalls,   \* bound: the calls made on open handles in a behaviour
  MaxObjects   \* bound: objects constructed in a behaviour

NoObject == 0
Object == 1 .. MaxObjects
\* The thread of an interpreter is named by the address of its object.
Caller == App \cup Addr

\* The calls by what they do with the object: six registrations, the reading
\* and writing of globals and the events with data are one call each.
RegisterCalls == {"usclib_RegisterInterpreterCallback"}
ControlCalls  == {"usclib_StartInterpreter", "usclib_PauseInterpreter",
                  "usclib_ResumeInterpreter", "usclib_StopInterpreter",
                  "usclib_WaitForInterpreterStopped"}
TriggerCalls  == {"usclib_TriggerEvent", "usclib_TriggerIntEvent",
                  "usclib_TriggerDoubleEvent", "usclib_TriggerStringEvent",
                  "usclib_TriggerJsonEvent"}
DataCalls     == {"usclib_GlobalData"}
StateCalls    == {"usclib_IsInterpreterInState"}
\* What is called in callbacks.
CallbackCalls == TriggerCalls \cup DataCalls \cup StateCalls
UseCalls == CallbackCalls \cup RegisterCalls \cup ControlCalls
Calls == UseCalls \cup {"usclib_OpenInterpreter", "usclib_CloseInterpreter"}

ASSUME RegistryAssumption ==
  /\ App \cap Addr = {}
  /\ MadeCalls \subseteq UseCalls
  /\ MaxObjects \in Nat

\* The code a failing call returns.
ErrorCode(call) ==
  CASE call = "usclib_OpenInterpreter" -> "ERROR_USCLIB_OPEN_INTERPRETER"
    [] call = "usclib_CloseInterpreter" -> "ERROR_USCLIB_CLOSE_INTERPRETER"
    [] call \in RegisterCalls -> "ERROR_USCLIB_REGISTER_CALLBACK"
    [] call = "usclib_StartInterpreter" -> "ERROR_USCLIB_START_INTERPRETER"
    [] call = "usclib_PauseInterpreter" -> "ERROR_USCLIB_PAUSE_INTERPRETER"
    [] call = "usclib_ResumeInterpreter" -> "ERROR_USCLIB_RESUME_INTERPRETER"
    [] call = "usclib_StopInterpreter" -> "ERROR_USCLIB_STOP_INTERPRETER"
    [] call = "usclib_WaitForInterpreterStopped" -> "ERROR_USCLIB_WAIT_FOR_STOPPED"
    [] call \in StateCalls -> "ERROR_USCLIB_IS_IN_STATE"
    [] call \in DataCalls -> "ERROR_USCLIB_GLOBAL_DATA"
    [] call \in {"usclib_TriggerEvent", "usclib_TriggerIntEvent"} -> "ERROR_USCLIB_TRIGGER_INT"
    [] call = "usclib_TriggerDoubleEvent" -> "ERROR_USCLIB_TRIGGER_DBL"
    [] call = "usclib_TriggerStringEvent" -> "ERROR_USCLIB_TRIGGER_STR"
    [] call = "usclib_TriggerJsonEvent" -> "ERROR_USCLIB_TRIGGER_JSON"

VARIABLES
  registry,    \* g_INTERPRETERS
  object,      \* object[a]: the object at address a
  running,     \* running[a]: its interpreter thread executes
  owned,       \* owned[t]: the handles application thread t has opened
  call,        \* call[c]: the call caller c is in
  failure,     \* the last call that failed and the code it returned
  made         \* the number of objects made

vars == <<registry, object, running, owned, call, failure, made>>

Handle == [at : Addr, is : Object]
NoCall == [op |-> "none"]
NoFailure == [op |-> "none", code |-> "USCLIB_SUCCESS"]
Call == {NoCall} \cup
        [op : Calls, handle : Handle, stage : {"check", "insert", "use", "erase", "delete", "join"}]

TypeOK ==
  /\ registry \subseteq Addr
  /\ object \in [Addr -> Object \cup {NoObject}]
  /\ running \in [Addr -> BOOLEAN]
  /\ owned \in [App -> SUBSET Handle]
  /\ call \in [Caller -> Call]
  /\ failure.op \in Calls \cup {"none"}
  /\ made \in Object \cup {NoObject}

Init ==
  /\ registry = {}
  /\ object = [a \in Addr |-> NoObject]
  /\ running = [a \in Addr |-> FALSE]
  /\ owned = [t \in App |-> {}]
  /\ call = [c \in Caller |-> NoCall]
  /\ failure = NoFailure
  /\ made = NoObject

------------------------------------------------------------------------------
(* Entry and return of a call.                                             *)

In(c, stage) == call[c] # NoCall /\ call[c].stage = stage
GoTo(c, stage) == call' = [call EXCEPT ![c].stage = stage]
Here(c) == call[c].handle.at

Enter(c, op, h, stage) ==
  /\ call[c] = NoCall
  /\ call' = [call EXCEPT ![c] = [op |-> op, handle |-> h, stage |-> stage]]
  /\ UNCHANGED failure

Succeed(c) ==
  /\ call' = [call EXCEPT ![c] = NoCall]
  /\ UNCHANGED failure

Fail(c) ==
  /\ call' = [call EXCEPT ![c] = NoCall]
  /\ failure' = [op |-> call[c].op, code |-> ErrorCode(call[c].op)]

------------------------------------------------------------------------------
(* The exported calls.                                                     *)

\* Broken variant: the handle is made before its object is constructed.
OpenBeforeConstruction(t) ==
  /\ made < MaxObjects /\ made' = made + 1
  /\ \E a \in Addr :
       /\ object[a] = NoObject
       /\ object' = [object EXCEPT ![a] = made + 1]
       /\ Enter(t, "usclib_OpenInterpreter", [at |-> a, is |-> object[a]], "insert")
  /\ UNCHANGED <<registry, running, owned>>

\* usclib_OpenInterpreter constructs the object at a free address ...
OpenInterpreter(t) ==
  /\ made < MaxObjects /\ made' = made + 1
  /\ \E a \in Addr :
       /\ object[a] = NoObject
       /\ object' = [object EXCEPT ![a] = made + 1]
       /\ Enter(t, "usclib_OpenInterpreter", [at |-> a, is |-> made + 1], "insert")
  /\ UNCHANGED <<registry, running, owned>>

\* ... and makes it a valid handle.
Insert(t) ==
  /\ In(t, "insert")
  /\ registry' = registry \cup {Here(t)}
  /\ owned' = [owned EXCEPT ![t] = @ \cup {call[t].handle}]
  /\ Succeed(t)
  /\ UNCHANGED <<object, running, made>>

\* Any other call, by the owner or from a callback on the handle's own thread.
CallInterpreter(t) ==
  /\ \E h \in owned[t], op \in MadeCalls : Enter(t, op, h, "check")
  /\ UNCHANGED <<registry, object, running, owned, made>>

CallFromCallback(a) ==
  /\ running[a]
  /\ \E op \in MadeCalls \cap CallbackCalls :
       Enter(a, op, [at |-> a, is |-> object[a]], "check")
  /\ UNCHANGED <<registry, object, running, owned, made>>

\* The owner forgets the handle: it does not use it again.
CloseInterpreter(t) ==
  /\ \E h \in owned[t] :
       /\ Enter(t, "usclib_CloseInterpreter", h, "check")
       /\ owned' = [owned EXCEPT ![t] = @ \ {h}]
  /\ UNCHANGED <<registry, object, running, made>>

\* CHECK_INTERPRETER_VALID; the exception is caught and the call fails.
Check(c) ==
  /\ In(c, "check")
  /\ IF Here(c) \notin registry THEN Fail(c)
     ELSE /\ GoTo(c, IF call[c].op = "usclib_CloseInterpreter" THEN "erase" ELSE "use")
          /\ UNCHANGED failure
  /\ UNCHANGED <<registry, object, running, owned, made>>

\* The method of the object: it starts or ends the chart, or leaves it as it
\* is.  Ending it joins its thread, which must be in no callback.
Method(c) ==
  IF call[c].op \in ControlCalls /\ c \in App
  THEN \E r \in BOOLEAN :
         /\ r \/ call[Here(c)] = NoCall
         /\ running' = [running EXCEPT ![Here(c)] = r]
  ELSE UNCHANGED running

\* Broken variant: a call waits while its handle is being closed.
UseUnlessClosing(c) ==
  /\ In(c, "use") /\ Here(c) \in registry
  /\ Method(c)
  /\ Succeed(c) \/ Fail(c)
  /\ UNCHANGED <<registry, object, owned, made>>

\* The method runs, and may throw.
Use(c) ==
  /\ In(c, "use")
  /\ Method(c)
  /\ Succeed(c) \/ Fail(c)
  /\ UNCHANGED <<registry, object, owned, made>>

\* Broken variant: the handle is not erased.
EraseNothing(t) ==
  /\ In(t, "erase")
  /\ GoTo(t, "delete")
  /\ UNCHANGED <<registry, object, running, owned, failure, made>>

Erase(t) ==
  /\ In(t, "erase")
  /\ registry' = registry \ {Here(t)}
  /\ GoTo(t, "delete")
  /\ UNCHANGED <<object, running, owned, failure, made>>

\* The destructor of ScxmlBase cancels the chart ...
Delete(t) ==
  /\ In(t, "delete")
  /\ GoTo(t, "join")
  /\ UNCHANGED <<registry, object, running, owned, failure, made>>

\* Broken variant: the object is deleted while its thread is in a callback.
JoinNoThread(t) ==
  /\ In(t, "join")
  /\ running' = [running EXCEPT ![Here(t)] = FALSE]
  /\ object' = [object EXCEPT ![Here(t)] = NoObject]
  /\ Succeed(t)
  /\ UNCHANGED <<registry, owned, made>>

\* ... and joins its thread, which ends only when the callback has returned.
Join(t) ==
  /\ In(t, "join") /\ call[Here(t)] = NoCall
  /\ running' = [running EXCEPT ![Here(t)] = FALSE]
  /\ object' = [object EXCEPT ![Here(t)] = NoObject]
  /\ Succeed(t)
  /\ UNCHANGED <<registry, owned, made>>

Proceed(c) ==
  \/ Check(c) \/ Use(c)
  \/ c \in App /\ (Insert(c) \/ Erase(c) \/ Delete(c) \/ Join(c))

Next ==
  \/ \E t \in App : OpenInterpreter(t) \/ CallInterpreter(t) \/ CloseInterpreter(t)
  \/ \E a \in Addr : CallFromCallback(a)
  \/ \E c \in Caller : Proceed(c)

\* Every thread inside the library is scheduled; callbacks are not made for ever.
Fairness ==
  /\ \A c \in Caller : WF_vars(Check(c) \/ Use(c))
  /\ \A t \in App : WF_vars(Insert(t) \/ Erase(t) \/ Delete(t)) /\ SF_vars(Join(t))
Spec == Init /\ [][Next]_vars /\ Fairness

------------------------------------------------------------------------------
(* Properties.                                                             *)

\* A call that has passed the check works on the object its handle was opened
\* for: that object exists until the call has returned, also for a callback
\* that runs while the handle is closed.
UsesItsObject ==
  \A c \in Caller : In(c, "use") => object[Here(c)] = call[c].handle.is

\* Every handle that is looked up with success has its object, and every object
\* no open or close call is at work on is found.
RegistryMatchesObjects ==
  /\ \A a \in registry : object[a] # NoObject
  /\ \A t \in App : \A h \in owned[t] : h.at \in registry /\ object[h.at] = h.is

\* usclib_CloseInterpreter returns although callbacks go on to call.
CloseReturns == \A t \in App : In(t, "delete") ~> call[t] = NoCall

==============================================================================
