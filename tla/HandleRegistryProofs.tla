------------------------ MODULE HandleRegistryProofs ------------------------
(***************************************************************************)
(* Proofs about HandleRegistry, for any sets of threads and addresses and  *)
(* any number of objects.  The argument: a handle belongs to one thread    *)
(* from its open to the end of its close, and an object that is claimed by *)
(* a thread, or whose own thread is in a callback, is not deleted.         *)
(***************************************************************************)
EXTENDS HandleRegistry, TLAPS

Open == "usclib_OpenInterpreter"
Close == "usclib_CloseInterpreter"

\* Thread t is opening or closing its call's handle.
Held(t) == call[t] # NoCall /\ call[t].op \in {Open, Close}
Claim(t, h) == h \in owned[t] \/ (Held(t) /\ h = call[t].handle)

\* Opening and closing is up to application threads; every other call is made
\* by an owner, or by a callback with the handle of its own interpreter.
Stages ==
  \A c \in Caller : call[c] # NoCall =>
    \/ c \in App /\ call[c].op = Open /\ call[c].stage = "insert"
    \/ c \in App /\ call[c].op = Close
         /\ call[c].stage \in {"check", "erase", "delete", "join"}
    \/ /\ call[c].op \in UseCalls /\ call[c].stage \in {"check", "use"}
       /\ c \in App => call[c].handle \in owned[c]
       /\ c \notin App => call[c].handle.at = c /\ call[c].handle.is = object[c]

ClaimsLive == \A t \in App : \A h \in Handle : Claim(t, h) => object[h.at] = h.is

ClaimsApart ==
  /\ \A t, u \in App : \A h \in Handle : Claim(t, h) /\ Claim(u, h) => t = u
  /\ \A t \in App : Held(t) => call[t].handle \notin owned[t]

Found ==
  /\ \A t \in App : \A h \in owned[t] : h.at \in registry
  /\ \A t \in App : Held(t) =>
       (call[t].handle.at \in registry <=> call[t].stage \in {"check", "erase"})
  /\ \A a \in registry : object[a] # NoObject

ThreadsHaveObjects == \A a \in Addr : running[a] => object[a] # NoObject

IInv == TypeOK /\ Stages /\ ClaimsLive /\ ClaimsApart /\ Found /\ ThreadsHaveObjects

\* How the names of calls differ.
LEMMA Names ==
  /\ MadeCalls \subseteq UseCalls /\ App \cap Addr = {}
  /\ CallbackCalls \subseteq UseCalls /\ UseCalls \subseteq Calls
  /\ Open \in Calls \ UseCalls /\ Close \in Calls \ UseCalls /\ Open # Close
  /\ NoObject \notin Object
BY RegistryAssumption DEF RegistryAssumption, Open, Close, Calls, UseCalls, CallbackCalls,
   RegisterCalls, ControlCalls, TriggerCalls, DataCalls, StateCalls, NoObject, Object

\* A call in progress has all its fields.
LEMMA CallForm ==
  ASSUME TypeOK, NEW c \in Caller, call[c] # NoCall
  PROVE  /\ call[c].op \in Calls /\ call[c].handle \in Handle
         /\ call[c].stage \in {"check", "insert", "use", "erase", "delete", "join"}
         /\ call[c] \in [op : Calls, handle : Handle, stage : {"check", "insert", "use",
                                                   "erase", "delete", "join"}]
BY DEF TypeOK, Call

LEMMA RegistryInit == Init => IInv
BY DEF Init, IInv, TypeOK, Stages, ClaimsLive, ClaimsApart, Found, ThreadsHaveObjects, Claim,
       Held, Call, NoFailure, Caller

-----------------------------------------------------------------------------
(* Types.                                                                  *)

LEMMA EnterTypes ==
  ASSUME TypeOK, NEW c \in Caller, NEW op \in Calls, NEW h \in Handle,
         NEW stage \in {"check", "insert"}, Enter(c, op, h, stage)
  PROVE  call' \in [Caller -> Call] /\ failure' = failure
BY DEF Enter, TypeOK, Call

LEMMA LeaveTypes ==
  ASSUME TypeOK, NEW c \in Caller, call[c] # NoCall, Succeed(c) \/ Fail(c)
  PROVE  call' \in [Caller -> Call] /\ failure'.op \in Calls \cup {"none"}
BY CallForm DEF Succeed, Fail, TypeOK, Call

LEMMA GoToTypes ==
  ASSUME TypeOK, NEW c \in Caller, call[c] # NoCall,
         NEW stage \in {"use", "erase", "delete", "join"}, GoTo(c, stage)
  PROVE  call' \in [Caller -> Call]
PROOF
  <1>1. [call[c] EXCEPT !.stage = stage] \in Call
    BY CallForm DEF Call
  <1> QED BY <1>1 DEF GoTo, TypeOK

LEMMA RegistryTypes == IInv /\ [Next]_vars => TypeOK'
PROOF
  <1> SUFFICES ASSUME IInv, [Next]_vars PROVE TypeOK'
    OBVIOUS
  <1> USE Names
  <1>a. TypeOK /\ App \subseteq Caller /\ Addr \subseteq Caller
    BY DEF IInv, Caller
  <1>1. ASSUME NEW t \in App, OpenInterpreter(t) PROVE TypeOK'
    <2>1. made + 1 \in Object /\ made' = made + 1
      BY <1>1, <1>a, RegistryAssumption DEF OpenInterpreter, RegistryAssumption, TypeOK, Object, NoObject
    <2>2. PICK a \in Addr : /\ object' = [object EXCEPT ![a] = made + 1]
                            /\ Enter(t, Open, [at |-> a, is |-> made + 1], "insert")
      BY <1>1 DEF OpenInterpreter, Open
    <2>3. [at |-> a, is |-> made + 1] \in Handle
      BY <2>1 DEF Handle
    <2>4. call' \in [Caller -> Call] /\ failure' = failure
      BY <1>a, <2>2, <2>3, EnterTypes
    <2> QED BY <1>1, <1>a, <2>1, <2>2, <2>4 DEF OpenInterpreter, TypeOK
  <1>2. ASSUME NEW t \in App, Insert(t) PROVE TypeOK'
    <2>1. call[t] # NoCall /\ Here(t) \in Addr /\ call[t].handle \in Handle
      BY <1>2, <1>a, CallForm DEF Insert, In, Here, Handle
    <2>2. call' \in [Caller -> Call] /\ failure'.op \in Calls \cup {"none"}
      BY <1>2, <1>a, <2>1, LeaveTypes DEF Insert
    <2> QED BY <1>2, <1>a, <2>1, <2>2 DEF Insert, TypeOK
  <1>3. ASSUME NEW t \in App, CallInterpreter(t) PROVE TypeOK'
    <2>1. PICK h \in owned[t], op \in MadeCalls : Enter(t, op, h, "check")
      BY <1>3 DEF CallInterpreter
    <2>2. h \in Handle /\ op \in Calls
      BY <1>a DEF TypeOK
    <2>3. call' \in [Caller -> Call] /\ failure' = failure
      BY <1>a, <2>1, <2>2, EnterTypes
    <2> QED BY <1>3, <1>a, <2>3 DEF CallInterpreter, TypeOK
  <1>4. ASSUME NEW a \in Addr, CallFromCallback(a) PROVE TypeOK'
    <2>1. PICK op \in MadeCalls \cap CallbackCalls :
            Enter(a, op, [at |-> a, is |-> object[a]], "check")
      BY <1>4 DEF CallFromCallback
    <2>2. [at |-> a, is |-> object[a]] \in Handle /\ op \in Calls
      BY <1>4, <1>a DEF CallFromCallback, IInv, ThreadsHaveObjects, TypeOK, Handle
    <2>3. call' \in [Caller -> Call] /\ failure' = failure
      BY <1>a, <2>1, <2>2, EnterTypes
    <2> QED BY <1>4, <1>a, <2>3 DEF CallFromCallback, TypeOK
  <1>5. ASSUME NEW t \in App, CloseInterpreter(t) PROVE TypeOK'
    <2>1. PICK h \in owned[t] : /\ Enter(t, Close, h, "check")
                                /\ owned' = [owned EXCEPT ![t] = @ \ {h}]
      BY <1>5 DEF CloseInterpreter, Close
    <2>2. h \in Handle
      BY <1>a DEF TypeOK
    <2>3. call' \in [Caller -> Call] /\ failure' = failure
      BY <1>a, <2>1, <2>2, EnterTypes
    <2> QED BY <1>5, <1>a, <2>1, <2>3 DEF CloseInterpreter, TypeOK
  <1>6. ASSUME NEW c \in Caller, Check(c) PROVE TypeOK'
    <2>1. call[c] # NoCall
      BY <1>6 DEF Check, In
    <2>2. CASE Fail(c)
      <3>1. call' \in [Caller -> Call] /\ failure'.op \in Calls \cup {"none"}
        BY <1>a, <2>1, <2>2, LeaveTypes
      <3> QED BY <1>6, <1>a, <3>1 DEF Check, TypeOK
    <2>3. CASE (GoTo(c, "erase") \/ GoTo(c, "use")) /\ UNCHANGED failure
      <3>1. call' \in [Caller -> Call]
        BY <1>a, <2>1, <2>3, GoToTypes
      <3> QED BY <1>6, <1>a, <2>3, <3>1 DEF Check, TypeOK
    <2> QED BY <1>6, <2>2, <2>3 DEF Check
  <1>7. ASSUME NEW c \in Caller, Use(c) PROVE TypeOK'
    <2>1. call[c] # NoCall /\ Here(c) \in Addr
      BY <1>7, <1>a, CallForm DEF Use, In, Here, Handle
    <2>2. call' \in [Caller -> Call] /\ failure'.op \in Calls \cup {"none"}
      BY <1>7, <1>a, <2>1, LeaveTypes DEF Use
    <2>3. running' \in [Addr -> BOOLEAN]
      BY <1>7, <1>a, <2>1 DEF Use, Method, TypeOK
    <2> QED BY <1>7, <1>a, <2>2, <2>3 DEF Use, TypeOK
  <1>8. ASSUME NEW t \in App, Erase(t) PROVE TypeOK'
    <2>1. call' \in [Caller -> Call]
      BY <1>8, <1>a, GoToTypes DEF Erase, In
    <2> QED BY <1>8, <1>a, <2>1 DEF Erase, TypeOK
  <1>9. ASSUME NEW t \in App, Delete(t) PROVE TypeOK'
    <2>1. call' \in [Caller -> Call]
      BY <1>9, <1>a, GoToTypes DEF Delete, In
    <2> QED BY <1>9, <1>a, <2>1 DEF Delete, TypeOK
  <1>10. ASSUME NEW t \in App, Join(t) PROVE TypeOK'
    <2>1. call[t] # NoCall /\ Here(t) \in Addr
      BY <1>10, <1>a, CallForm DEF Join, In, Here, Handle
    <2>2. call' \in [Caller -> Call] /\ failure'.op \in Calls \cup {"none"}
      BY <1>10, <1>a, <2>1, LeaveTypes DEF Join
    <2> QED BY <1>10, <1>a, <2>1, <2>2 DEF Join, TypeOK
  <1>11. CASE UNCHANGED vars
    BY <1>11, <1>a DEF vars, TypeOK
  <1> QED
    BY <1>1, <1>2, <1>3, <1>4, <1>5, <1>6, <1>7, <1>8, <1>9, <1>10, <1>11 DEF Next, Proceed

-----------------------------------------------------------------------------
(* The other parts of the invariant.                                       *)

Rest == Stages /\ ClaimsLive /\ ClaimsApart /\ Found /\ ThreadsHaveObjects

\* What the steps within a call do to call.
LEMMA CallSteps ==
  ASSUME TypeOK, NEW c \in Caller
  PROVE  /\ \A op, h, stage : Enter(c, op, h, stage) =>
              /\ call[c] = NoCall
              /\ call' = [call EXCEPT ![c] = [op |-> op, handle |-> h, stage |-> stage]]
              /\ call'[c] # NoCall
              /\ call'[c].op = op /\ call'[c].handle = h /\ call'[c].stage = stage
              /\ \A d \in Caller \ {c} : call'[d] = call[d]
         /\ Succeed(c) \/ Fail(c) =>
              call'[c] = NoCall /\ \A d \in Caller \ {c} : call'[d] = call[d]
         /\ \A stage : call[c] # NoCall /\ GoTo(c, stage) =>
              /\ call'[c] # NoCall
              /\ call'[c].op = call[c].op /\ call'[c].handle = call[c].handle
              /\ call'[c].stage = stage
              /\ \A d \in Caller \ {c} : call'[d] = call[d]
PROOF
  <1>1. ASSUME NEW op, NEW h, NEW stage
        PROVE  [op |-> op, handle |-> h, stage |-> stage] # NoCall
    BY DEF NoCall
  <1>2. ASSUME NEW stage, call[c] # NoCall, GoTo(c, stage)
        PROVE  /\ call'[c] # NoCall
               /\ call'[c].op = call[c].op /\ call'[c].handle = call[c].handle
               /\ call'[c].stage = stage
               /\ \A d \in Caller \ {c} : call'[d] = call[d]
    <2>1. call[c] \in [op : Calls, handle : Handle, stage : {"check", "insert", "use",
                                                   "erase", "delete", "join"}]
      BY <1>2, CallForm
    <2>2. call'[c] = [op |-> call[c].op, handle |-> call[c].handle, stage |-> stage]
      BY <1>2, <2>1 DEF GoTo, TypeOK
    <2> QED BY <1>1, <1>2, <2>2 DEF GoTo, TypeOK
  <1> QED
    BY <1>1, <1>2 DEF Enter, Succeed, Fail, TypeOK

\* A call by a caller that opens or closes nothing.
LEMMA RestWithinUse ==
  ASSUME IInv, TypeOK', NEW c \in Caller,
         UNCHANGED <<registry, object, owned>>,
         \A a \in Addr : running'[a] = running[a] \/ object[a] # NoObject,
         \A d \in Caller \ {c} : call'[d] = call[d],
         ~(c \in App /\ Held(c)),
         \/ call'[c] = NoCall
         \/ /\ call'[c] # NoCall
            /\ call'[c].op \in UseCalls /\ call'[c].stage \in {"check", "use"}
            /\ c \in App => call'[c].handle \in owned[c]
            /\ c \notin App => call'[c].handle.at = c /\ call'[c].handle.is = object[c]
  PROVE  Rest'
PROOF
  <1> USE Names DEF IInv
  <1>1. Stages'
    BY DEF Stages
  <1>2. \A t \in App : Held(t)' <=> Held(t)
    BY DEF Held, Caller
  <1>3. \A t \in App : Held(t) => call'[t] = call[t]
    BY DEF Held, Caller
  <1>4. \A t \in App, h \in Handle : Claim(t, h)' <=> Claim(t, h)
    BY <1>2, <1>3 DEF Claim
  <1>5. ClaimsLive'
    BY <1>4 DEF ClaimsLive
  <1>6. ClaimsApart'
    BY <1>2, <1>3, <1>4 DEF ClaimsApart
  <1>7. Found'
    BY <1>2, <1>3 DEF Found
  <1>8. ThreadsHaveObjects'
    BY DEF ThreadsHaveObjects
  <1> QED BY <1>1, <1>5, <1>6, <1>7, <1>8 DEF Rest

LEMMA RestUse ==
  ASSUME IInv, TypeOK', NEW c \in Caller, Use(c)
  PROVE  Rest'
PROOF
  <1> USE Names DEF IInv
  <1>1. call[c] # NoCall /\ call[c].stage = "use"
    BY DEF Use, In
  <1>2. /\ call[c].op \in UseCalls
        /\ c \in App => call[c].handle \in owned[c]
        /\ c \notin App => call[c].handle.at = c /\ call[c].handle.is = object[c]
    BY <1>1 DEF Stages
  <1>3. call[c].handle \in Handle
    BY <1>1, CallForm
  <1>4. object[Here(c)] # NoObject
    <2>1. object[Here(c)] = call[c].handle.is
      BY <1>2, <1>3 DEF ClaimsLive, Claim, Here
    <2> QED BY <1>3, <2>1 DEF Handle
  <1>5. \A a \in Addr : running'[a] = running[a] \/ object[a] # NoObject
    BY <1>4 DEF Use, Method, TypeOK
  <1>6. call'[c] = NoCall /\ \A d \in Caller \ {c} : call'[d] = call[d]
    BY CallSteps DEF Use
  <1>7. ~(c \in App /\ Held(c))
    BY <1>2 DEF Held
  <1> QED
    BY <1>5, <1>6, <1>7, RestWithinUse DEF Use

LEMMA RestCall ==
  ASSUME IInv, TypeOK', NEW c \in Caller,
         (c \in App /\ CallInterpreter(c)) \/ (c \in Addr /\ CallFromCallback(c))
  PROVE  Rest'
PROOF
  <1> USE Names DEF IInv
  <1>1. CASE c \in App /\ CallInterpreter(c)
    <2>1. PICK h \in owned[c], op \in MadeCalls : Enter(c, op, h, "check")
      BY <1>1 DEF CallInterpreter
    <2>2. ~Held(c)
      BY <2>1 DEF Held, Enter
    <2> QED
      BY <1>1, <2>1, <2>2, CallSteps, RestWithinUse DEF CallInterpreter
  <1>2. CASE c \in Addr /\ CallFromCallback(c)
    <2>1. PICK op \in MadeCalls \cap CallbackCalls :
            Enter(c, op, [at |-> c, is |-> object[c]], "check")
      BY <1>2 DEF CallFromCallback
    <2> QED
      BY <1>2, <2>1, CallSteps, RestWithinUse DEF CallFromCallback
  <1> QED BY <1>1, <1>2

LEMMA RestCheck ==
  ASSUME IInv, TypeOK', NEW c \in Caller, Check(c)
  PROVE  Rest'
PROOF
  <1> USE Names DEF IInv
  <1>1. call[c] # NoCall /\ call[c].stage = "check"
    BY DEF Check, In
  <1>2. call[c].handle \in Handle
    BY <1>1, CallForm
  <1>3. CASE call[c].op \in UseCalls
    <2>1. /\ c \in App => call[c].handle \in owned[c]
          /\ c \notin App => call[c].handle.at = c /\ call[c].handle.is = object[c]
      BY <1>1, <1>3 DEF Stages
    <2>2. ~(c \in App /\ Held(c))
      BY <1>3 DEF Held
    <2>3. Fail(c) \/ GoTo(c, "use")
      BY <1>3 DEF Check, Close
    <2>4. /\ \A d \in Caller \ {c} : call'[d] = call[d]
          /\ \/ call'[c] = NoCall
             \/ /\ call'[c] # NoCall /\ call'[c].op = call[c].op
                /\ call'[c].handle = call[c].handle /\ call'[c].stage = "use"
      BY <1>1, <2>3, CallSteps
    <2>5. UNCHANGED <<registry, object, owned, running>>
      BY DEF Check
    <2> QED
      BY <1>3, <2>1, <2>2, <2>4, <2>5, RestWithinUse
  <1>4. CASE call[c].op \notin UseCalls
    <2>1. c \in App /\ call[c].op = Close /\ Held(c)
      BY <1>1, <1>4 DEF Stages, Held
    <2>2. Here(c) \in registry
      BY <1>1, <2>1 DEF Found, Here
    <2>3. GoTo(c, "erase") /\ UNCHANGED <<registry, object, running, owned>>
      BY <2>1, <2>2 DEF Check, Close
    <2>4. /\ call'[c] # NoCall /\ call'[c].op = call[c].op
          /\ call'[c].handle = call[c].handle /\ call'[c].stage = "erase"
          /\ \A d \in Caller \ {c} : call'[d] = call[d]
      BY <1>1, <2>3, CallSteps
    <2>5. Stages'
      BY <2>1, <2>3, <2>4 DEF Stages
    <2>6. \A t \in App : /\ Held(t)' <=> Held(t)
                         /\ Held(t) => call'[t].handle = call[t].handle
      BY <2>1, <2>4 DEF Held, Caller
    <2>7. \A t \in App, h \in Handle : Claim(t, h)' <=> Claim(t, h)
      BY <2>3, <2>6 DEF Claim
    <2>8. ClaimsLive' /\ ClaimsApart' /\ ThreadsHaveObjects'
      BY <2>3, <2>6, <2>7 DEF ClaimsLive, ClaimsApart, ThreadsHaveObjects
    <2>9. Found'
      BY <1>1, <2>1, <2>2, <2>3, <2>4, <2>6 DEF Found, Here, Caller
    <2> QED BY <2>5, <2>8, <2>9 DEF Rest
  <1> QED BY <1>3, <1>4

LEMMA RestOpen ==
  ASSUME IInv, TypeOK', NEW t \in App, OpenInterpreter(t)
  PROVE  Rest'
PROOF
  <1> USE Names DEF IInv
  <1>1. PICK a \in Addr : /\ object[a] = NoObject
                          /\ object' = [object EXCEPT ![a] = made + 1]
                          /\ Enter(t, Open, [at |-> a, is |-> made + 1], "insert")
    BY DEF OpenInterpreter, Open
  <1> DEFINE new == [at |-> a, is |-> made + 1]
  <1>2. UNCHANGED <<registry, running, owned>> /\ t \in Caller
    BY DEF OpenInterpreter, Caller
  <1>3. /\ call[t] = NoCall /\ call'[t] # NoCall
        /\ call'[t].op = Open /\ call'[t].handle = new /\ call'[t].stage = "insert"
        /\ \A d \in Caller \ {t} : call'[d] = call[d]
    BY <1>1, <1>2, CallSteps
  <1>4. new \in Handle /\ new.at = a /\ new.is = made + 1 /\ made + 1 # NoObject
    <2>1. call'[t].handle \in Handle
      BY <1>2, <1>3 DEF TypeOK, Call
    <2> QED BY <1>3, <2>1 DEF Handle
  <1>5. \A u \in App, h \in Handle : Claim(u, h) => h.at # a
    BY <1>1 DEF ClaimsLive, Handle
  <1>6. \A u \in App, h \in Handle : Claim(u, h)' <=> Claim(u, h) \/ (u = t /\ h = new)
    BY <1>2, <1>3 DEF Claim, Held, Caller
  <1>7. Stages'
    <2>1. ASSUME NEW c \in Caller \ App, call[c] # NoCall PROVE call[c].handle.at = c => c # a
      <3>1. call[c].handle.is = object[c] /\ call[c].handle \in Handle
        BY <2>1, CallForm DEF Stages
      <3> QED BY <1>1, <3>1 DEF Handle
    <2>2. \A c \in Addr : c # a => object'[c] = object[c]
      BY <1>1 DEF TypeOK
    <2>3. ASSUME NEW c \in Caller \ App, call[c] # NoCall
          PROVE  /\ call[c].op \in UseCalls /\ call[c].stage \in {"check", "use"}
                 /\ call[c].handle.at = c /\ call[c].handle.is = object'[c]
      BY <2>1, <2>2, <2>3 DEF Stages, Caller
    <2>4. \A c \in Caller \ {t} : call'[c] = call[c]
      BY <1>3
    <2> QED BY <1>2, <1>3, <2>3, <2>4 DEF Stages
  <1>8. ClaimsLive'
    <2>1. object'[a] = made + 1 /\ \A b \in Addr : b # a => object'[b] = object[b]
      BY <1>1 DEF TypeOK
    <2>2. \A h \in Handle : h.at \in Addr
      BY DEF Handle
    <2> QED BY <1>4, <1>5, <1>6, <2>1, <2>2 DEF ClaimsLive
  <1>9. ClaimsApart'
    <2>1. \A u \in App : ~Claim(u, new)
      BY <1>4, <1>5
    <2>2. \A u, v \in App, h \in Handle : Claim(u, h)' /\ Claim(v, h)' => u = v
      BY <1>6, <2>1 DEF ClaimsApart
    <2>3. ASSUME NEW u \in App, Held(u)' PROVE (call[u].handle \notin owned[u])'
      <3>1. CASE u = t
        BY <1>2, <1>3, <2>1, <3>1 DEF Claim
      <3>2. CASE u # t
        BY <1>2, <1>3, <2>3, <3>2 DEF ClaimsApart, Held, Caller
      <3> QED BY <3>1, <3>2
    <2> QED BY <2>2, <2>3 DEF ClaimsApart
  <1>10. Found'
    <2>1. \A b \in registry : b # a /\ object'[b] = object[b]
      BY <1>1 DEF Found, TypeOK
    <2>2. \A u \in App : Held(u)' =>
            u = t \/ (Held(u) /\ call'[u] = call[u])
      BY <1>3 DEF Held, Caller
    <2>3. call'[t].handle.at \notin registry
      BY <1>3, <1>4, <2>1
    <2>4. \A u \in App : Held(u)' =>
            (call'[u].handle.at \in registry <=> call'[u].stage \in {"check", "erase"})
      BY <1>3, <2>2, <2>3 DEF Found
    <2> QED BY <1>2, <2>1, <2>4 DEF Found
  <1>11. ThreadsHaveObjects'
    BY <1>1, <1>2, <1>4 DEF ThreadsHaveObjects, TypeOK
  <1> QED BY <1>7, <1>8, <1>9, <1>10, <1>11 DEF Rest

\* Two threads that claim handles claim different addresses.
LEMMA AddressesApart ==
  ASSUME IInv, NEW t \in App, NEW u \in App, NEW g \in Handle, NEW h \in Handle,
         Claim(t, g), Claim(u, h), g.at = h.at
  PROVE  t = u /\ g = h
PROOF
  <1>1. g.is = h.is
    BY DEF IInv, ClaimsLive
  <1>2. g = h
    BY <1>1 DEF Handle
  <1> QED BY <1>2 DEF IInv, ClaimsApart

LEMMA RestInsert ==
  ASSUME IInv, TypeOK', NEW t \in App, Insert(t)
  PROVE  Rest'
PROOF
  <1> USE Names DEF IInv
  <1> DEFINE h == call[t].handle
  <1>1. t \in Caller /\ call[t] # NoCall /\ call[t].stage = "insert"
    BY DEF Insert, In, Caller
  <1>2. call[t].op = Open /\ Held(t) /\ h \in Handle
    BY <1>1, CallForm DEF Stages, Held
  <1>3. /\ registry' = registry \cup {h.at} /\ UNCHANGED <<object, running>>
        /\ owned' = [owned EXCEPT ![t] = @ \cup {h}]
        /\ call'[t] = NoCall /\ \A d \in Caller \ {t} : call'[d] = call[d]
    BY <1>1, CallSteps DEF Insert, Here
  <1>4. \A u \in App : owned'[u] = IF u = t THEN owned[t] \cup {h} ELSE owned[u]
    BY <1>3 DEF TypeOK
  <1>5. \A u \in App : Held(u)' <=> u # t /\ Held(u)
    BY <1>1, <1>2, <1>3 DEF Held, Caller
  <1>6. \A u \in App : u # t => call'[u] = call[u]
    BY <1>3 DEF Caller
  <1>7. \A u \in App, g \in Handle : Claim(u, g)' <=> Claim(u, g)
    <2>1. ASSUME NEW u \in App, NEW g \in Handle, u # t PROVE Claim(u, g)' <=> Claim(u, g)
      BY <1>4, <1>5, <1>6, <2>1 DEF Claim
    <2>2. ASSUME NEW g \in Handle PROVE Claim(t, g)' <=> Claim(t, g)
      BY <1>2, <1>4, <1>5 DEF Claim
    <2> QED BY <2>1, <2>2
  <1>8. Stages'
    BY <1>2, <1>3, <1>4, <1>6 DEF Stages
  <1>9. ClaimsLive' /\ ThreadsHaveObjects'
    BY <1>3, <1>7 DEF ClaimsLive, ThreadsHaveObjects
  <1>10. ClaimsApart'
    BY <1>4, <1>5, <1>6, <1>7 DEF ClaimsApart
  <1>11. Found'
    <2>1. object[h.at] # NoObject
      BY <1>2 DEF ClaimsLive, Claim, Handle
    <2>2. \A u \in App : u # t /\ Held(u) => call[u].handle.at # h.at
      <3> SUFFICES ASSUME NEW u \in App, u # t, Held(u) PROVE call[u].handle.at # h.at
        OBVIOUS
      <3>1. call[u].handle \in Handle
        BY CallForm DEF Held, Caller
      <3> QED BY <1>2, <3>1, AddressesApart DEF Claim
    <2>3. \A u \in App : Held(u)' =>
            (call'[u].handle.at \in registry' <=> call'[u].stage \in {"check", "erase"})
      BY <1>3, <1>5, <1>6, <2>2 DEF Found
    <2> QED BY <1>3, <1>4, <2>1, <2>3 DEF Found
  <1> QED BY <1>8, <1>9, <1>10, <1>11 DEF Rest

LEMMA RestClose ==
  ASSUME IInv, TypeOK', NEW t \in App, CloseInterpreter(t)
  PROVE  Rest'
PROOF
  <1> USE Names DEF IInv
  <1>1. PICK h \in owned[t] : /\ Enter(t, Close, h, "check")
                              /\ owned' = [owned EXCEPT ![t] = @ \ {h}]
    BY DEF CloseInterpreter, Close
  <1>2. t \in Caller /\ h \in Handle /\ UNCHANGED <<registry, object, running>>
    BY DEF CloseInterpreter, Caller, TypeOK
  <1>3. /\ call[t] = NoCall /\ call'[t] # NoCall
        /\ call'[t].op = Close /\ call'[t].handle = h /\ call'[t].stage = "check"
        /\ \A d \in Caller \ {t} : call'[d] = call[d]
    BY <1>1, <1>2, CallSteps
  <1>4. \A u \in App : owned'[u] = IF u = t THEN owned[t] \ {h} ELSE owned[u]
    BY <1>1 DEF TypeOK
  <1>5. \A u \in App : Held(u)' <=> u = t \/ Held(u)
    BY <1>3 DEF Held, Caller
  <1>6. \A u \in App : u # t => call'[u] = call[u]
    BY <1>3 DEF Caller
  <1>7. \A u \in App, g \in Handle : Claim(u, g)' <=> Claim(u, g)
    <2>1. ASSUME NEW u \in App, NEW g \in Handle, u # t PROVE Claim(u, g)' <=> Claim(u, g)
      BY <1>4, <1>5, <1>6, <2>1 DEF Claim
    <2>2. ASSUME NEW g \in Handle PROVE Claim(t, g)' <=> Claim(t, g)
      BY <1>1, <1>3, <1>4, <1>5 DEF Claim, Held
    <2> QED BY <2>1, <2>2
  <1>8. Stages'
    BY <1>2, <1>3, <1>4, <1>6 DEF Stages
  <1>9. ClaimsLive' /\ ThreadsHaveObjects'
    BY <1>2, <1>7 DEF ClaimsLive, ThreadsHaveObjects
  <1>10. ClaimsApart'
    BY <1>3, <1>4, <1>5, <1>6, <1>7 DEF ClaimsApart
  <1>11. Found'
    <2>1. h.at \in registry
      BY <1>1 DEF Found
    <2>2. \A u \in App : Held(u)' =>
            (call'[u].handle.at \in registry <=> call'[u].stage \in {"check", "erase"})
      BY <1>3, <1>5, <1>6, <2>1 DEF Found
    <2> QED BY <1>2, <1>4, <2>2 DEF Found
  <1> QED BY <1>8, <1>9, <1>10, <1>11 DEF Rest

LEMMA RestErase ==
  ASSUME IInv, TypeOK', NEW t \in App, Erase(t) \/ Delete(t)
  PROVE  Rest'
PROOF
  <1> USE Names DEF IInv
  <1> DEFINE h == call[t].handle
  <1>1. /\ t \in Caller /\ call[t] # NoCall /\ call[t].stage \in {"erase", "delete"}
        /\ GoTo(t, "delete") \/ GoTo(t, "join")
        /\ UNCHANGED <<object, running, owned>>
    BY DEF Erase, Delete, In, Caller
  <1>2. call[t].op = Close /\ Held(t) /\ h \in Handle
    BY <1>1, CallForm DEF Stages, Held
  <1>3. /\ call'[t] # NoCall /\ call'[t].op = Close /\ call'[t].handle = h
        /\ call'[t].stage \in {"delete", "join"}
        /\ \A d \in Caller \ {t} : call'[d] = call[d]
    BY <1>1, <1>2, CallSteps
  <1>4. registry' = registry \ {h.at}
    <2>1. CASE Erase(t)
      BY <2>1 DEF Erase, Here
    <2>2. CASE Delete(t)
      <3>1. registry' = registry /\ call[t].stage = "delete"
        BY <2>2 DEF Delete, In
      <3>2. h.at \notin registry
        BY <1>2, <3>1 DEF Found
      <3> QED BY <3>1, <3>2
    <2> QED BY <2>1, <2>2
  <1>5. \A u \in App : Held(u)' <=> Held(u)
    BY <1>2, <1>3 DEF Held, Caller
  <1>6. \A u \in App : u # t => call'[u] = call[u]
    BY <1>3 DEF Caller
  <1>7. \A u \in App, g \in Handle : Claim(u, g)' <=> Claim(u, g)
    BY <1>1, <1>3, <1>5, <1>6 DEF Claim
  <1>8. Stages'
    BY <1>1, <1>3 DEF Stages
  <1>9. ClaimsLive' /\ ThreadsHaveObjects'
    BY <1>1, <1>7 DEF ClaimsLive, ThreadsHaveObjects
  <1>10. ClaimsApart'
    BY <1>1, <1>3, <1>5, <1>6, <1>7 DEF ClaimsApart
  <1>11. Found'
    <2>1. \A u \in App, g \in Handle : Claim(u, g) /\ g # h => g.at # h.at
      BY <1>2, AddressesApart DEF Claim
    <2>2. h \notin owned[t] /\ \A u \in App : u # t => ~Claim(u, h)
      BY <1>2 DEF ClaimsApart, Claim
    <2>3. \A u \in App : \A g \in owned'[u] : g.at \in registry'
      <3>1. \A u \in App : \A g \in owned[u] : g \in Handle /\ Claim(u, g) /\ g # h
        BY <2>2 DEF Claim, TypeOK
      <3> QED BY <1>1, <1>4, <2>1, <3>1 DEF Found
    <2>4. \A u \in App : u # t /\ Held(u) => call[u].handle.at # h.at
      <3>1. \A u \in App : Held(u) => call[u].handle \in Handle /\ Claim(u, call[u].handle)
        BY CallForm DEF Held, Caller, Claim
      <3> QED BY <2>1, <2>2, <3>1
    <2>5. \A u \in App : Held(u)' =>
            (call'[u].handle.at \in registry' <=> call'[u].stage \in {"check", "erase"})
      BY <1>3, <1>4, <1>5, <1>6, <2>4 DEF Found
    <2> QED BY <1>1, <1>4, <2>3, <2>5 DEF Found
  <1> QED BY <1>8, <1>9, <1>10, <1>11 DEF Rest

LEMMA RestJoin ==
  ASSUME IInv, TypeOK', NEW t \in App, Join(t)
  PROVE  Rest'
PROOF
  <1> USE Names DEF IInv
  <1> DEFINE h == call[t].handle
             a == h.at
  <1>1. /\ t \in Caller /\ call[t] # NoCall /\ call[t].stage = "join" /\ call[a] = NoCall
        /\ UNCHANGED <<registry, owned>>
    BY DEF Join, In, Caller, Here
  <1>2. call[t].op = Close /\ Held(t) /\ h \in Handle /\ a \in Addr
    BY <1>1, CallForm DEF Stages, Held, Handle
  <1>3. call'[t] = NoCall /\ \A d \in Caller \ {t} : call'[d] = call[d]
    BY <1>1, CallSteps DEF Join
  <1>4. /\ running'[a] = FALSE
        /\ \A b \in Addr : b # a => running'[b] = running[b] /\ object'[b] = object[b]
    BY <1>2 DEF Join, Here, TypeOK
  <1>5. \A u \in App : /\ Held(u)' <=> u # t /\ Held(u)
                       /\ u # t => call'[u] = call[u]
    BY <1>3 DEF Held, Caller
  <1>6. h \notin owned[t]
    BY <1>2 DEF ClaimsApart
  <1>7. \A u \in App, g \in Handle : Claim(u, g)' => Claim(u, g) /\ g # h
    <2>1. \A u \in App, g \in Handle : Claim(u, g)' => Claim(u, g) /\ ~(u = t /\ g = h)
      BY <1>1, <1>5, <1>6 DEF Claim
    <2>2. \A u \in App : u # t => ~Claim(u, h)
      BY <1>2 DEF ClaimsApart, Claim
    <2> QED BY <2>1, <2>2
  <1>8. \A u \in App, g \in Handle : Claim(u, g)' => g.at # a
    BY <1>2, <1>7, AddressesApart DEF Claim
  <1>9. Stages'
    <2>1. ASSUME NEW c \in Caller, call'[c] # NoCall PROVE call'[c] = call[c] /\ c # t /\ c # a
      BY <1>1, <1>3, <2>1
    <2>2. \A c \in Caller \ App : c # a => object'[c] = object[c]
      BY <1>4 DEF Caller
    <2> QED BY <1>1, <2>1, <2>2 DEF Stages
  <1>10. ClaimsLive'
    BY <1>4, <1>7, <1>8 DEF ClaimsLive, Handle
  <1>11. ClaimsApart'
    BY <1>1, <1>5, <1>7 DEF ClaimsApart
  <1>12. Found'
    <2>1. a \notin registry
      BY <1>1, <1>2 DEF Found
    <2> QED BY <1>1, <1>4, <1>5, <2>1 DEF Found, TypeOK
  <1>13. ThreadsHaveObjects'
    BY <1>4 DEF ThreadsHaveObjects
  <1> QED BY <1>9, <1>10, <1>11, <1>12, <1>13 DEF Rest

LEMMA RegistryNext == IInv /\ [Next]_vars => IInv'
PROOF
  <1> SUFFICES ASSUME IInv, [Next]_vars PROVE IInv'
    OBVIOUS
  <1>1. TypeOK'
    BY RegistryTypes
  <1>2. CASE UNCHANGED vars
    BY <1>2 DEF vars, IInv, TypeOK, Stages, ClaimsLive, ClaimsApart, Found,
                ThreadsHaveObjects, Claim, Held
  <1>3. CASE Next
    BY <1>1, <1>3, RestOpen, RestInsert, RestCall, RestClose, RestCheck, RestUse, RestErase,
       RestJoin DEF Next, Proceed, IInv, Rest, Caller
  <1> QED BY <1>2, <1>3

LEMMA RegistryInvariant == Spec => []IInv
BY RegistryInit, RegistryNext, PTL DEF Spec

-----------------------------------------------------------------------------
(* Theorems.                                                               *)

\* Handles, objects and calls keep their types for any threads and addresses.
THEOREM RegistryTypeCorrect == Spec => []TypeOK
BY RegistryInvariant, PTL DEF IInv

\* However the calls of any number of threads and callbacks interleave, a call
\* that has passed the check of its handle works on the object the handle was
\* opened for, also when another thread opens and closes, or its own handle is
\* being closed while it runs in a callback.
THEOREM CallsUseTheirObject == Spec => []UsesItsObject
PROOF
  <1>1. IInv => UsesItsObject
    <2> SUFFICES ASSUME IInv, NEW c \in Caller, In(c, "use")
                 PROVE  object[Here(c)] = call[c].handle.is
      BY DEF UsesItsObject
    <2>1. /\ c \in App => call[c].handle \in owned[c]
          /\ c \notin App => call[c].handle.at = c /\ call[c].handle.is = object[c]
      BY Names DEF IInv, Stages, In
    <2>2. call[c].handle \in Handle
      BY CallForm DEF In, IInv
    <2> QED BY <2>1, <2>2 DEF IInv, ClaimsLive, Claim, Here
  <1> QED BY <1>1, RegistryInvariant, PTL

\* What is found in the registry has an object, and a handle that its thread has
\* opened and not closed is found there, with its own object.
THEOREM RegistryIsRight == Spec => []RegistryMatchesObjects
PROOF
  <1>1. IInv => RegistryMatchesObjects
    BY DEF IInv, Found, ClaimsLive, Claim, RegistryMatchesObjects, TypeOK
  <1> QED BY <1>1, RegistryInvariant, PTL
=============================================================================
