---------------------------- MODULE MonitorProofs ----------------------------
(***************************************************************************)
(* Proofs about Monitor, for any number of sessions, states and reports,   *)
(* any message types and any registered callbacks.  The argument: a hook   *)
(* of a session holds the monitor's mutex exactly in the stages between    *)
(* its lock and its unlock, so that the three channels change only while   *)
(* one session reports, and each of its stages has one more report in the  *)
(* channels it has served.                                                 *)
(***************************************************************************)
EXTENDS Monitor, TLAPS

Inside == {"log", "logging", "send", "callback", "unlock"}

\* What a hook of each type is about, and the stages it can be in.
HookForm ==
  \A s \in Session : hook[s] # Rest =>
    /\ hook[s].type \in {"smttBeforeEnter", "smttBeforeExit"} => hook[s].what \in State
    /\ hook[s].type \in {"smttBeforeInvoke", "smttBeforeUnInvoke", "joining"} =>
         s = Main /\ hook[s].what \in Session \ {Main}
    /\ hook[s].type # "event" => hook[s].left = 0
    /\ hook[s].type = "log" => hook[s].stage \in {"log", "logging", "done"}
    /\ hook[s].type = "joining" => hook[s].stage = "done"
    /\ hook[s].type \in LockedTypes => hook[s].stage # "base"

\* A session holds the monitor's mutex from the lock of its hook to the unlock,
\* and the logger's while its record is written.
Owns(s) == hook[s] # Rest /\ hook[s].type # "log" /\ hook[s].stage \in Inside
Locks ==
  /\ \A s \in Session : owner = s <=> Owns(s)
  /\ \A s \in Session : logger = s <=> At(s, "logging")

\* A session that is not there reports nothing.
Absent == \A s \in Session : alive[s] = "none" => hook[s] = Rest /\ config[s] = {}

IInv == TypeOK /\ HookForm /\ Locks /\ Absent

-----------------------------------------------------------------------------
(* What the definitions of a hook's course say.                            *)

Fields == [type : MsgType \cup {"log", "event", "joining"}, stage : Stage,
           what : State \cup Session, left : 0 .. MaxParams]

LEMMA RestHasNoFields == Rest \notin Fields
BY DEF Rest, Fields

LEMMA HookFields ==
  ASSUME TypeOK, NEW s \in Session, hook[s] # Rest
  PROVE  hook[s] \in Fields
BY DEF TypeOK, Hook, Fields

LEMMA FirstStages ==
  ASSUME NEW t
  PROVE  /\ FirstStage(t) \in {"log", "base", "lock", "done"}
         /\ FirstStage(t) = "log" => t = "log"
         /\ t = "log" => FirstStage(t) \in {"log", "done"}
         /\ t \in LockedTypes => FirstStage(t) # "base"
         /\ t \in LockedTypes /\ Monitored(t) => FirstStage(t) = "lock"
BY DEF FirstStage, LockedTypes, BaseTypes, EnterExitTypes, InvokeTypes

LEMMA LaterStages ==
  ASSUME NEW t
  PROVE  /\ AfterSend(t) \in {"callback", "unlock"}
         /\ AfterLog(t) \in {"done", "send", "callback", "unlock"}
         /\ AfterLog(t) = "done" <=> t = "log"
         /\ AfterLock(t) \in {"send", "log", "callback", "unlock"}
         /\ t \in LockedTypes /\ Monitored(t) => AfterLock(t) = "log"
         /\ t \in LockedTypes /\ Monitored(t) /\ Remote => AfterLog(t) = "send"
         /\ HasCallback(t) => AfterSend(t) = "callback"
PROOF
  <1>1. /\ AfterSend(t) \in {"callback", "unlock"}
        /\ HasCallback(t) => AfterSend(t) = "callback"
    BY DEF AfterSend
  <1>2. Sending(t) => t # "log"
    BY DEF Sending, Monitored, MsgType, LockedTypes, BaseTypes, EnterExitTypes, InvokeTypes
  <1>3. t \in LockedTypes => t # "log" /\ t \notin BaseTypes
    BY DEF LockedTypes, BaseTypes, EnterExitTypes, InvokeTypes
  <1>4. /\ AfterLog(t) \in {"done", "send", "callback", "unlock"}
        /\ AfterLog(t) = "done" <=> t = "log"
        /\ t \in LockedTypes /\ Monitored(t) /\ Remote => AfterLog(t) = "send"
    BY <1>1, <1>2, <1>3 DEF AfterLog, Sending
  <1>5. /\ AfterLock(t) \in {"send", "log", "callback", "unlock"}
        /\ t \in LockedTypes /\ Monitored(t) => AfterLock(t) = "log"
    BY <1>1, <1>3 DEF AfterLock
  <1> QED
    BY <1>1, <1>4, <1>5

\* A session that is about to begin a hook.
LEMMA BeginHook ==
  ASSUME TypeOK, NEW s \in Session, NEW t \in MsgType \cup {"log", "event"},
         NEW x \in State \cup Session, NEW n \in 0 .. MaxParams, Begin(s, t, x, n)
  PROVE  /\ hook' \in [Session -> Hook] /\ hook'[s] # Rest
         /\ hook'[s].type = t /\ hook'[s].stage = FirstStage(t)
         /\ hook'[s].what = x /\ hook'[s].left = n
         /\ \A u \in Session \ {s} : hook'[u] = hook[u]
PROOF
  <1> DEFINE h == [type |-> t, stage |-> FirstStage(t), what |-> x, left |-> n]
  <1>1. h \in Fields
    BY FirstStages DEF Fields, Stage
  <1>2. hook'[s] = h /\ hook' = [hook EXCEPT ![s] = h]
    BY DEF Begin, TypeOK
  <1>3. h.type = t /\ h.stage = FirstStage(t) /\ h.what = x /\ h.left = n
    OBVIOUS
  <1> HIDE DEF h
  <1> QED
    BY <1>1, <1>2, <1>3, RestHasNoFields DEF TypeOK, Hook, Fields

\* A hook goes on to another stage.
LEMMA StageHook ==
  ASSUME TypeOK, NEW s \in Session, hook[s] # Rest, NEW stage \in Stage, GoTo(s, stage)
  PROVE  /\ hook' \in [Session -> Hook] /\ hook'[s] # Rest
         /\ hook'[s].type = hook[s].type /\ hook'[s].stage = stage
         /\ hook'[s].what = hook[s].what /\ hook'[s].left = hook[s].left
         /\ \A u \in Session \ {s} : hook'[u] = hook[u]
PROOF
  <1> DEFINE h == [hook[s] EXCEPT !.stage = stage]
  <1>1. hook[s] \in Fields
    BY HookFields
  <1>2. /\ h \in Fields /\ h.type = hook[s].type /\ h.stage = stage
        /\ h.what = hook[s].what /\ h.left = hook[s].left
    BY <1>1 DEF Fields
  <1>3. hook' = [hook EXCEPT ![s] = h]
    BY DEF GoTo
  <1> HIDE DEF h
  <1> QED
    BY <1>2, <1>3, RestHasNoFields DEF TypeOK, Hook, Fields

-----------------------------------------------------------------------------
(* The hooks and the two mutexes.                                          *)

\* A hook begins where none, or one that is done, was before.
LEMMA BeginKeeps ==
  ASSUME IInv, NEW s \in Session, hook[s] = Rest \/ hook[s].stage = "done",
         NEW t \in MsgType \cup {"log", "event"}, NEW x \in State \cup Session,
         NEW n \in 0 .. MaxParams, Begin(s, t, x, n), UNCHANGED lockVars,
         t \in {"smttBeforeEnter", "smttBeforeExit"} => x \in State,
         t \in {"smttBeforeInvoke", "smttBeforeUnInvoke"} => s = Main /\ x \in Session \ {Main},
         t # "event" => n = 0
  PROVE  hook' \in [Session -> Hook] /\ HookForm' /\ Locks'
PROOF
  <1>1. /\ hook' \in [Session -> Hook] /\ hook'[s] # Rest
        /\ hook'[s].type = t /\ hook'[s].stage = FirstStage(t)
        /\ hook'[s].what = x /\ hook'[s].left = n
        /\ \A u \in Session \ {s} : hook'[u] = hook[u]
    BY BeginHook DEF IInv
  <1>2. t # "joining"
    BY DEF MsgType, LockedTypes, BaseTypes, EnterExitTypes, InvokeTypes
  <1>3. HookForm'
    BY <1>1, <1>2, FirstStages DEF IInv, HookForm
  <1>4. ~Owns(s) /\ ~At(s, "logging")
    BY DEF Owns, At, Inside
  <1>5. ~Owns(s)' /\ ~At(s, "logging")'
    BY <1>1, FirstStages DEF Owns, At, Inside
  <1>6. \A u \in Session \ {s} : (Owns(u)' <=> Owns(u)) /\ (At(u, "logging")' <=> At(u, "logging"))
    BY <1>1 DEF Owns, At
  <1> QED
    BY <1>1, <1>3, <1>4, <1>5, <1>6 DEF IInv, Locks, lockVars

\* A session of a chart that is there, in a hook that goes on.
LEMMA GoKeeps ==
  ASSUME IInv, NEW s \in Session, hook[s] # Rest, NEW stage \in Stage, GoTo(s, stage),
         hook[s].type = "log" => stage \in {"log", "logging", "done"},
         hook[s].type = "joining" => stage = "done",
         stage # "base",
         owner' = IF hook[s].type # "log" /\ stage \in Inside THEN s
                  ELSE IF owner = s THEN NoOne ELSE owner,
         logger' = IF stage = "logging" THEN s ELSE IF logger = s THEN NoOne ELSE logger,
         hook[s].type # "log" /\ stage \in Inside => owner \in {s, NoOne},
         stage = "logging" => logger \in {s, NoOne}
  PROVE  /\ hook' \in [Session -> Hook] /\ HookForm' /\ Locks'
         /\ owner' \in Session \cup {NoOne} /\ logger' \in Session \cup {NoOne}
PROOF
  <1>0. NoOne \notin Session
    BY MonitorAssumption DEF MonitorAssumption
  <1>1. /\ hook' \in [Session -> Hook] /\ hook'[s] # Rest
        /\ hook'[s].type = hook[s].type /\ hook'[s].stage = stage
        /\ hook'[s].what = hook[s].what /\ hook'[s].left = hook[s].left
        /\ \A u \in Session \ {s} : hook'[u] = hook[u]
    BY StageHook DEF IInv
  <1>2. HookForm'
    BY <1>1 DEF IInv, HookForm
  <1>3. /\ Owns(s)' <=> hook[s].type # "log" /\ stage \in Inside
        /\ At(s, "logging")' <=> stage = "logging"
        /\ \A u \in Session \ {s} :
             (Owns(u)' <=> Owns(u)) /\ (At(u, "logging")' <=> At(u, "logging"))
    BY <1>1 DEF Owns, At
  <1>4. \A u \in Session : owner' = u <=> Owns(u)'
    BY <1>0, <1>3 DEF IInv, Locks
  <1>5. \A u \in Session : logger' = u <=> At(u, "logging")'
    BY <1>0, <1>3 DEF IInv, Locks
  <1> QED
    BY <1>1, <1>2, <1>4, <1>5 DEF IInv, TypeOK, Locks

\* The form of hooks and the mutexes, under each step of a report.
Course == /\ hook' \in [Session -> Hook] /\ HookForm' /\ Locks'
          /\ owner' \in Session \cup {NoOne} /\ logger' \in Session \cup {NoOne}

LEMMA ReportingKeeps ==
  ASSUME IInv, NEW s \in Session, Reporting(s)
  PROVE  Course
PROOF
  <1>0. NoOne \notin Session
    BY MonitorAssumption DEF MonitorAssumption
  <1> DEFINE t == hook[s].type
  <1>1. hook[s] # Rest
    BY DEF Reporting, BaseHook, Lock, LoggerLock, LoggerUnlock, Send, SendThrows, Callback,
           Unlock, At
  <1>2. /\ HookForm /\ Locks /\ TypeOK
        /\ owner = s <=> t # "log" /\ hook[s].stage \in Inside
        /\ logger = s <=> hook[s].stage = "logging"
    BY <1>1 DEF IInv, Locks, Owns, At
  <1>3. /\ t = "log" => hook[s].stage \in {"log", "logging", "done"}
        /\ t = "joining" => hook[s].stage = "done"
    BY <1>1, <1>2 DEF HookForm
  <1>4. CASE BaseHook(s)
    <2>1. hook[s].stage = "base" /\ UNCHANGED lockVars /\ (GoTo(s, "lock") \/ GoTo(s, "done"))
      BY <1>4 DEF BaseHook, At
    <2> QED
      BY <1>0, <1>1, <1>2, <1>3, <2>1, GoKeeps DEF Course, Stage, Inside, lockVars
  <1>5. CASE Lock(s)
    <2>1. /\ hook[s].stage = "lock" /\ owner = NoOne /\ owner' = s /\ logger' = logger
          /\ GoTo(s, AfterLock(t))
      BY <1>5 DEF Lock, At
    <2>2. AfterLock(t) \in {"send", "log", "callback", "unlock"}
      BY LaterStages
    <2> QED
      BY <1>0, <1>1, <1>2, <1>3, <2>1, <2>2, GoKeeps DEF Course, Stage, Inside
  <1>6. CASE LoggerLock(s)
    <2>1. /\ hook[s].stage = "log" /\ logger = NoOne /\ logger' = s /\ owner' = owner
          /\ GoTo(s, "logging")
      BY <1>6 DEF LoggerLock, At
    <2> QED
      BY <1>0, <1>1, <1>2, <1>3, <2>1, GoKeeps DEF Course, Stage, Inside
  <1>7. CASE LoggerUnlock(s)
    <2>1. /\ hook[s].stage = "logging" /\ logger' = NoOne /\ owner' = owner
          /\ GoTo(s, AfterLog(t))
      BY <1>7 DEF LoggerUnlock, At
    <2>2. AfterLog(t) \in {"done", "send", "callback", "unlock"} /\ (AfterLog(t) = "done" <=> t = "log")
      BY LaterStages
    <2> QED
      BY <1>0, <1>1, <1>2, <1>3, <2>1, <2>2, GoKeeps DEF Course, Stage, Inside
  <1>8. CASE Send(s) \/ SendThrows(s)
    <2>1. /\ hook[s].stage = "send" /\ UNCHANGED lockVars
          /\ GoTo(s, AfterSend(t)) \/ GoTo(s, "unlock")
      BY <1>8 DEF Send, SendThrows, At
    <2>2. AfterSend(t) \in {"callback", "unlock"}
      BY LaterStages
    <2> QED
      BY <1>0, <1>1, <1>2, <1>3, <2>1, <2>2, GoKeeps DEF Course, Stage, Inside, lockVars
  <1>9. CASE Callback(s) /\ hook[s].left > 1
    <2> DEFINE h == [hook[s] EXCEPT !.left = @ - 1]
    <2>1. /\ hook[s].stage = "callback" /\ UNCHANGED lockVars /\ hook' = [hook EXCEPT ![s] = h]
      BY <1>9 DEF Callback, At
    <2>2. hook[s] \in Fields /\ MaxParams \in Nat
      BY <1>1, <1>2, HookFields, MonitorAssumption DEF MonitorAssumption
    <2>3. hook[s].left - 1 \in 0 .. MaxParams
      BY <1>9, <2>2 DEF Fields
    <2>4. /\ h \in Fields /\ h.type = t /\ h.stage = "callback" /\ h.what = hook[s].what
      BY <2>1, <2>2, <2>3 DEF Fields
    <2>5. t = "event"
      BY <1>1, <1>2, <1>9 DEF HookForm
    <2> HIDE DEF h
    <2>6. /\ hook' \in [Session -> Hook] /\ hook'[s] # Rest
          /\ hook'[s].type = t /\ hook'[s].stage = "callback" /\ hook'[s].what = hook[s].what
          /\ \A u \in Session \ {s} : hook'[u] = hook[u]
      BY <1>2, <2>1, <2>4, RestHasNoFields DEF TypeOK, Hook, Fields
    <2>7. HookForm'
      BY <1>2, <2>5, <2>6 DEF HookForm, LockedTypes, EnterExitTypes, InvokeTypes
    <2>8. Locks'
      BY <1>1, <1>2, <2>1, <2>6 DEF Locks, Owns, At, lockVars
    <2> QED
      BY <1>2, <2>1, <2>6, <2>7, <2>8 DEF Course, lockVars, TypeOK
  <1>10. CASE Callback(s) /\ ~(hook[s].left > 1)
    <2>1. hook[s].stage = "callback" /\ UNCHANGED lockVars /\ GoTo(s, "unlock")
      BY <1>10 DEF Callback, At
    <2> QED
      BY <1>0, <1>1, <1>2, <1>3, <2>1, GoKeeps DEF Course, Stage, Inside, lockVars
  <1>11. CASE Unlock(s)
    <2>1. hook[s].stage = "unlock" /\ owner' = NoOne /\ logger' = logger /\ GoTo(s, "done")
      BY <1>11 DEF Unlock, At
    <2> QED
      BY <1>0, <1>1, <1>2, <1>3, <2>1, GoKeeps DEF Course, Stage, Inside
  <1> QED
    BY <1>4, <1>5, <1>6, <1>7, <1>8, <1>9, <1>10, <1>11 DEF Reporting

-----------------------------------------------------------------------------
(* The invariant under every step.                                         *)

LEMMA MonitorInit == Init => IInv
PROOF
  <1> SUFFICES ASSUME Init PROVE IInv
    OBVIOUS
  <1>1. failed \in BOOLEAN
    BY DEF Init
  <1> QED BY <1>1, MonitorAssumption DEF Init, IInv, TypeOK, HookForm, Locks, Absent, Owns,
             At, Hook, MonitorAssumption

\* A channel keeps its type when a report is added.
LEMMA PlusTypes ==
  ASSUME IInv, NEW s \in Session, hook[s] # Rest, NEW channel \in Seq(Report)
  PROVE  Plus(channel, s) \in Seq(Report)
PROOF
  <1>1. hook[s] \in Fields
    BY HookFields DEF IInv
  <1>2. Shared(hook[s].type) => TheReport(s) \in Report
    BY <1>1 DEF Shared, HasCallback, Monitored, TheReport, Report, Fields, LockedTypes,
       MsgType, BaseTypes, EnterExitTypes, InvokeTypes
  <1> QED BY <1>2 DEF Plus

\* The editor's picture keeps its type when a message arrives.
LEMMA ShownTypes ==
  ASSUME IInv, NEW s \in Session, hook[s] # Rest
  PROVE  ShownAfter(s) \in [Session -> SUBSET State]
BY HookFields DEF ShownAfter, IInv, TypeOK, HookForm, Fields

LEMMA InvariantReporting ==
  ASSUME IInv, NEW s \in Session, Reporting(s)
  PROVE  IInv'
PROOF
  <1>1. Course
    BY ReportingKeeps
  <1>2. UNCHANGED <<chartVars, late, hooks>>
    BY DEF Reporting, BaseHook, Lock, LoggerLock, LoggerUnlock, Send, SendThrows, Callback,
           Unlock, historyVars
  <1>3. hook[s] # Rest /\ hook'[s] # Rest /\ \A u \in Session \ {s} : hook'[u] = hook[u]
    <2>1. hook[s] # Rest
      BY DEF Reporting, BaseHook, Lock, LoggerLock, LoggerUnlock, Send, SendThrows,
             Callback, Unlock, At
    <2>2. ASSUME NEW stage \in Stage, GoTo(s, stage)
          PROVE  hook'[s] # Rest /\ \A u \in Session \ {s} : hook'[u] = hook[u]
      BY <2>1, <2>2, StageHook DEF IInv
    <2>3. ASSUME hook' = [hook EXCEPT ![s].left = @ - 1]
          PROVE  hook'[s] # Rest /\ \A u \in Session \ {s} : hook'[u] = hook[u]
      <3>1. hook[s] \in Fields
        BY <2>1, HookFields DEF IInv
      <3>2. hook'[s] = [hook[s] EXCEPT !.left = @ - 1] /\ \A u \in Session \ {s} : hook'[u] = hook[u]
        BY <2>3 DEF IInv, TypeOK
      <3>3. [hook[s] EXCEPT !.left = @ - 1].stage = hook[s].stage
        BY <3>1 DEF Fields
      <3>4. hook'[s] # Rest
        BY <3>1, <3>2 DEF Fields, Rest
      <3> QED BY <3>2, <3>4
    <2>4. AfterLock(hook[s].type) \in Stage /\ AfterLog(hook[s].type) \in Stage
          /\ AfterSend(hook[s].type) \in Stage /\ {"lock", "logging", "unlock", "done"} \subseteq Stage
      BY LaterStages DEF Stage
    <2> QED
      BY <2>1, <2>2, <2>3, <2>4 DEF Reporting, BaseHook, Lock, LoggerLock, LoggerUnlock, Send,
         SendThrows, Callback, Unlock
  <1>4. /\ logged' \in Seq(Report) /\ sent' \in Seq(Report) /\ called' \in Seq(Report)
        /\ picture' \in [Session -> SUBSET State]
    <2>1. TypeOK /\ hook[s] # Rest
      BY <1>3 DEF IInv
    <2>2. logged' \in {logged, Plus(logged, s)} /\ sent' \in {sent, Plus(sent, s)}
          /\ called' \in {called, Plus(called, s)} /\ picture' \in {picture, ShownAfter(s)}
      BY DEF Reporting, BaseHook, Lock, LoggerLock, LoggerUnlock, Send, SendThrows, Callback,
             Unlock, historyVars
    <2>3. \A channel \in Seq(Report) : Plus(channel, s) \in Seq(Report)
      BY <2>1, PlusTypes
    <2> QED BY <2>1, <2>2, <2>3, ShownTypes DEF TypeOK
  <1>7. failed' \in BOOLEAN
    <2>1. failed' = failed \/ failed' = TRUE
      BY DEF Reporting, BaseHook, Lock, LoggerLock, LoggerUnlock, Send, SendThrows, Callback,
             Unlock, historyVars
    <2> QED BY <2>1 DEF IInv, TypeOK
  <1>5. TypeOK'
    BY <1>1, <1>2, <1>4, <1>7 DEF IInv, TypeOK, Course, chartVars
  <1>6. Absent'
    BY <1>2, <1>3 DEF IInv, Absent, chartVars
  <1> QED BY <1>1, <1>5, <1>6 DEF IInv, Course

\* The sessions begin a hook, of a step or after it.
LEMMA InvariantBegin ==
  ASSUME IInv, NEW s \in Session, Step(s) \/ Entered(s) \/ Exited(s) \/ Executed(s)
                                  \/ Invoked(s) \/ Uninvoked(s)
  PROVE  IInv'
PROOF
  <1> USE DEF IInv
  <1>0. MaxParams \in Nat \ {0} /\ MaxHooks \in Nat
    BY MonitorAssumption DEF MonitorAssumption
  <1>1. MsgType \cup {"log", "event"} = {"smttBeforeEnter", "smttBeforeExit",
          "smttBeforeInvoke", "smttBeforeUnInvoke", "smttAfterEnter", "smttAfterExit",
          "smttBeforeExecContent", "smttAfterExecContent", "smttAfterInvoke",
          "smttAfterUnInvoke", "smttBeforeTakingTransition", "smttAfterTakingTransition",
          "smttMAXSIZE", "log", "event"}
    BY DEF MsgType, LockedTypes, BaseTypes, EnterExitTypes, InvokeTypes
  \* What follows from a hook that begins.
  <1>2. ASSUME hook[s] = Rest \/ hook[s].stage = "done", alive'[s] # "none",
               NEW t \in MsgType \cup {"log", "event"}, NEW x \in State \cup Session,
               NEW n \in 0 .. MaxParams, Begin(s, t, x, n), UNCHANGED lockVars,
               t \in {"smttBeforeEnter", "smttBeforeExit"} => x \in State,
               t \in {"smttBeforeInvoke", "smttBeforeUnInvoke"} => s = Main /\ x \in Session \ {Main},
               t # "event" => n = 0,
               UNCHANGED <<logged, sent, called, picture, failed>>,
               alive' \in [Session -> {"none", "running", "stopping"}],
               config' \in [Session -> SUBSET State],
               late' \in [Session -> SUBSET State],
               hooks' \in 0 .. MaxHooks,
               \A u \in Session \ {s} : alive'[u] = "none" => alive[u] = "none" /\ config'[u] = config[u]
        PROVE  IInv'
    <2>1. hook' \in [Session -> Hook] /\ HookForm' /\ Locks'
      BY <1>2, BeginKeeps
    <2>2. \A u \in Session \ {s} : hook'[u] = hook[u]
      BY <1>2, BeginHook
    <2>3. TypeOK'
      BY <1>2, <2>1 DEF TypeOK, lockVars
    <2>4. Absent'
      BY <1>2, <2>2 DEF Absent
    <2> QED BY <2>1, <2>3, <2>4
  \* A step of the chart.
  <1>3. ASSUME Resting(s), Reports(s), NEW t \in MsgType \cup {"log", "event"},
               NEW x \in State \cup Session, NEW n \in 0 .. MaxParams, Begin(s, t, x, n),
               t \in {"smttBeforeEnter", "smttBeforeExit"} => x \in State,
               t \in {"smttBeforeInvoke", "smttBeforeUnInvoke"} => s = Main /\ x \in Session \ {Main},
               t # "event" => n = 0
        PROVE  IInv'
    <2>1. /\ hook[s] = Rest /\ alive[s] # "none" /\ hooks' \in 0 .. MaxHooks
          /\ UNCHANGED <<alive, config, lockVars, picture, logged, sent, called, late, failed>>
      BY <1>0, <1>3 DEF Resting, Reports, chartVars, historyVars, TypeOK
    <2> QED BY <1>2, <1>3, <2>1 DEF TypeOK
  <1>4. CASE Step(s)
    <2>1. Resting(s) /\ Reports(s)
      BY <1>4 DEF Step, EnterState, ExitState, TakeTransition, ExecuteContent, Log,
                  ProcessEvent, Invoke, Uninvoke, Reports
    <2>2. CASE EnterState(s) \/ ExitState(s)
      <3>1. PICK x \in State : Begin(s, "smttBeforeEnter", x, 0) \/ Begin(s, "smttBeforeExit", x, 0)
        BY <2>2 DEF EnterState, ExitState, beforeEnteringState, beforeExitingState, TypeOK
      <3> QED BY <1>0, <1>1, <1>3, <2>1, <3>1
    <2>3. CASE TakeTransition(s) \/ ExecuteContent(s) \/ Log(s)
      <3>1. \/ Begin(s, "smttBeforeTakingTransition", s, 0)
            \/ Begin(s, "smttBeforeExecContent", s, 0) \/ Begin(s, "log", s, 0)
        BY <2>3 DEF TakeTransition, ExecuteContent, Log, beforeTakingTransition,
                    beforeExecutingContent, log
      <3> QED BY <1>0, <1>1, <1>3, <2>1, <3>1
    <2>4. CASE ProcessEvent(s)
      <3>1. PICK n \in 0 .. MaxParams : Begin(s, "event", s, IF n = 0 THEN 1 ELSE n)
        BY <2>4 DEF ProcessEvent, beforeProcessingEvent
      <3>2. (IF n = 0 THEN 1 ELSE n) \in 0 .. MaxParams
        BY <1>0
      <3> QED BY <1>1, <1>3, <2>1, <3>1, <3>2
    <2>5. CASE Invoke(s) \/ Uninvoke(s)
      <3>1. PICK i \in Session \ {Main} :
              s = Main /\ (Begin(s, "smttBeforeInvoke", i, 0) \/ Begin(s, "smttBeforeUnInvoke", i, 0))
        BY <2>5 DEF Invoke, Uninvoke, beforeInvoking, beforeUninvoking
      <3> QED BY <1>0, <1>1, <1>3, <2>1, <3>1
    <2> QED BY <1>4, <2>2, <2>3, <2>4, <2>5 DEF Step
  \* After a step of the chart.
  <1>5. ASSUME NEW t, Done(s, t)
        PROVE  hook[s] # Rest /\ hook[s].stage = "done" /\ hook[s].type = t /\ alive[s] # "none"
               /\ hook[s].what \in State \cup Session
    <2>1. hook[s] # Rest /\ hook[s].stage = "done" /\ hook[s].type = t
      BY <1>5 DEF Done, At
    <2> QED BY <2>1, HookFields DEF Absent, Fields
  <1>6. ASSUME hook[s].stage = "done", alive'[s] # "none",
               NEW t \in {"smttAfterEnter", "smttAfterExit", "smttAfterExecContent",
                          "smttAfterTakingTransition", "smttAfterInvoke", "smttAfterUnInvoke"},
               NEW x \in State \cup Session, Begin(s, t, x, 0),
               UNCHANGED <<lockVars, logged, sent, called, picture, failed, hooks>>,
               alive' \in [Session -> {"none", "running", "stopping"}],
               config' \in [Session -> SUBSET State],
               late' \in [Session -> SUBSET State],
               \A u \in Session \ {s} : alive'[u] = "none" => alive[u] = "none" /\ config'[u] = config[u]
        PROVE  IInv'
    <2>1. t \in MsgType \cup {"log", "event"} /\ 0 \in 0 .. MaxParams
      BY <1>0, <1>1
    <2>2. t \notin {"smttBeforeEnter", "smttBeforeExit", "smttBeforeInvoke", "smttBeforeUnInvoke"}
      OBVIOUS
    <2>3. hooks' \in 0 .. MaxHooks
      BY <1>6 DEF TypeOK
    <2>4. UNCHANGED lockVars /\ UNCHANGED <<logged, sent, called, picture, failed>>
      BY <1>6
    <2> QED BY <1>2, <1>6, <2>1, <2>2, <2>3, <2>4
  <1>7. CASE Entered(s)
    <2> DEFINE x == hook[s].what
    <2>1. /\ hook[s].stage = "done" /\ alive[s] # "none"
          /\ hook[s] # Rest /\ hook[s].type = "smttBeforeEnter"
      BY <1>5, <1>7 DEF Entered
    <2>2. x \in State
      BY <2>1 DEF HookForm
    <2>3. Begin(s, "smttAfterEnter", x, 0) /\ UNCHANGED <<lockVars, logged, sent, called, picture, failed, hooks>>
          /\ alive' = alive
      BY <1>7 DEF Entered, afterEnteringState
    <2>4. config' \in [Session -> SUBSET State] /\ late' \in [Session -> SUBSET State]
          /\ \A u \in Session \ {s} : config'[u] = config[u]
      BY <1>7, <2>2 DEF Entered, TypeOK
    <2>5. alive' \in [Session -> {"none", "running", "stopping"}] /\ alive'[s] # "none"
          /\ \A u \in Session \ {s} : alive'[u] = "none" => alive[u] = "none" /\ config'[u] = config[u]
      BY <2>1, <2>3, <2>4 DEF TypeOK
    <2> HIDE DEF x
    <2> QED BY <1>6, <2>1, <2>2, <2>3, <2>4, <2>5
  <1>8. CASE Exited(s)
    <2> DEFINE x == hook[s].what
    <2>1. /\ hook[s].stage = "done" /\ alive[s] # "none"
          /\ hook[s] # Rest /\ hook[s].type = "smttBeforeExit"
      BY <1>5, <1>8 DEF Exited
    <2>2. x \in State
      BY <2>1 DEF HookForm
    <2>3. Begin(s, "smttAfterExit", x, 0) /\ UNCHANGED <<lockVars, logged, sent, called, picture, failed, hooks>>
          /\ alive' = alive /\ late' = late
      BY <1>8 DEF Exited, afterExitingState, historyVars
    <2>4. config' \in [Session -> SUBSET State]
          /\ \A u \in Session \ {s} : config'[u] = config[u]
      BY <1>8, <2>2 DEF Exited, TypeOK
    <2>5. alive' \in [Session -> {"none", "running", "stopping"}] /\ alive'[s] # "none"
          /\ late' \in [Session -> SUBSET State]
          /\ \A u \in Session \ {s} : alive'[u] = "none" => alive[u] = "none" /\ config'[u] = config[u]
      BY <2>1, <2>3, <2>4 DEF TypeOK
    <2> HIDE DEF x
    <2> QED BY <1>6, <2>1, <2>2, <2>3, <2>4, <2>5
  <1>9. CASE Executed(s) \/ Uninvoked(s)
    <2>1. hook[s].stage = "done" /\ alive[s] # "none" /\ hook[s].what \in State \cup Session
      BY <1>5, <1>9 DEF Executed, Uninvoked
    <2>2. PICK t \in {"smttAfterExecContent", "smttAfterTakingTransition", "smttAfterUnInvoke"},
               x \in {s, hook[s].what} : Begin(s, t, x, 0)
      BY <1>9 DEF Executed, Uninvoked, afterExecutingContent, afterTakingTransition, afterUninvoking
    <2>3. UNCHANGED <<lockVars, logged, sent, called, picture, failed, hooks>> /\ UNCHANGED <<alive, config, late>>
      BY <1>9 DEF Executed, Uninvoked, chartVars, historyVars
    <2>4. /\ alive' \in [Session -> {"none", "running", "stopping"}] /\ alive'[s] # "none"
          /\ config' \in [Session -> SUBSET State] /\ late' \in [Session -> SUBSET State]
          /\ \A u \in Session \ {s} : alive'[u] = "none" => alive[u] = "none" /\ config'[u] = config[u]
      BY <2>1, <2>3 DEF TypeOK
    <2> QED BY <1>6, <2>1, <2>2, <2>3, <2>4
  <1>10. CASE Invoked(s)
    <2> DEFINE i == hook[s].what
    <2>1. /\ hook[s].stage = "done" /\ alive[s] # "none"
          /\ hook[s] # Rest /\ hook[s].type = "smttBeforeInvoke"
      BY <1>5, <1>10 DEF Invoked
    <2>2. s = Main /\ i \in Session \ {Main}
      BY <2>1 DEF HookForm
    <2>3. Begin(s, "smttAfterInvoke", i, 0) /\ UNCHANGED <<lockVars, logged, sent, called, picture, failed, hooks>>
          /\ config' = config /\ late' = late
      BY <1>10 DEF Invoked, afterInvoking, historyVars
    <2>4. /\ alive' \in [Session -> {"none", "running", "stopping"}]
          /\ \A u \in Session \ {i} : alive'[u] = alive[u]
          /\ alive'[i] = "running"
      BY <1>10, <2>2 DEF Invoked, TypeOK
    <2>5. /\ alive'[s] # "none"
          /\ config' \in [Session -> SUBSET State] /\ late' \in [Session -> SUBSET State]
          /\ \A u \in Session \ {s} : alive'[u] = "none" => alive[u] = "none" /\ config'[u] = config[u]
      BY <2>1, <2>2, <2>3, <2>4 DEF TypeOK
    <2> HIDE DEF i
    <2> QED BY <1>6, <2>1, <2>2, <2>3, <2>4, <2>5
  <1> QED BY <1>4, <1>7, <1>8, <1>9, <1>10

\* The steps by which a hook returns, and sessions come and go.
LEMMA InvariantReturn ==
  ASSUME IInv, NEW s \in Session, Return(s) \/ InvokedEnds(s)
  PROVE  IInv'
PROOF
  <1>1. CASE Return(s)
    <2>1. hook[s].stage = "done" /\ hook' = [hook EXCEPT ![s] = Rest]
          /\ UNCHANGED <<chartVars, lockVars, picture, historyVars, hooks>>
      BY <1>1 DEF Return, Done, At
    <2>2. hook' \in [Session -> Hook] /\ hook'[s] = Rest /\ \A u \in Session \ {s} : hook'[u] = hook[u]
      BY <2>1 DEF IInv, TypeOK, Hook
    <2>3. TypeOK'
      BY <2>1, <2>2 DEF IInv, TypeOK, chartVars, lockVars, historyVars
    <2>4. HookForm'
      BY <2>2 DEF IInv, HookForm
    <2>5. Locks'
      BY <2>1, <2>2 DEF IInv, Locks, Owns, At, lockVars, Inside
    <2>6. Absent'
      BY <2>1, <2>2 DEF IInv, Absent, chartVars
    <2> QED BY <2>3, <2>4, <2>5, <2>6 DEF IInv
  <1>2. CASE InvokedEnds(s)
    <2>1. hook[s] = Rest /\ UNCHANGED <<hook, lockVars, picture, historyVars, hooks>>
          /\ alive' = [alive EXCEPT ![s] = "none"] /\ config' = [config EXCEPT ![s] = {}]
      BY <1>2 DEF InvokedEnds
    <2>2. TypeOK'
      BY <2>1 DEF IInv, TypeOK, lockVars, historyVars
    <2>3. HookForm' /\ Locks'
      BY <2>1 DEF IInv, HookForm, Locks, Owns, At, lockVars
    <2>4. Absent'
      BY <2>1 DEF IInv, Absent, TypeOK
    <2> QED BY <2>2, <2>3, <2>4 DEF IInv
  <1> QED BY <1>1, <1>2

LEMMA InvariantCancel ==
  ASSUME IInv, NEW s \in Session, CancelInvoked(s)
  PROVE  IInv'
PROOF
  <1> DEFINE i == hook[s].what
             h == [hook[s] EXCEPT !.type = "joining"]
  <1>1. /\ hook[s] # Rest /\ hook[s].stage = "done" /\ hook[s].type = "smttBeforeUnInvoke"
        /\ alive' = [alive EXCEPT ![i] = "stopping"] /\ hook' = [hook EXCEPT ![s] = h]
        /\ UNCHANGED <<config, lockVars, picture, historyVars, hooks>>
    BY DEF CancelInvoked, Done, At
  <1>2. hook[s] \in Fields
    BY <1>1, HookFields DEF IInv
  <1>3. s = Main /\ i \in Session \ {Main} /\ hook[s].left = 0
    BY <1>1 DEF IInv, HookForm
  <1>4. h \in Fields /\ h.type = "joining" /\ h.stage = "done" /\ h.what = i /\ h.left = 0
    BY <1>1, <1>2, <1>3 DEF Fields
  <1> HIDE DEF h
  <1>5. hook' \in [Session -> Hook] /\ hook'[s] = h /\ h # Rest
        /\ \A u \in Session \ {s} : hook'[u] = hook[u]
    BY <1>1, <1>4, RestHasNoFields DEF IInv, TypeOK, Hook, Fields
  <1>6. TypeOK'
    BY <1>1, <1>3, <1>5 DEF IInv, TypeOK, lockVars, historyVars
  <1>7. HookForm'
    BY <1>3, <1>4, <1>5 DEF IInv, HookForm, LockedTypes, EnterExitTypes, InvokeTypes
  <1>8. Locks'
    BY <1>1, <1>4, <1>5 DEF IInv, Locks, Owns, At, Inside, lockVars
  <1>9. Absent'
    BY <1>1, <1>3, <1>5 DEF IInv, Absent, TypeOK
  <1> QED BY <1>6, <1>7, <1>8, <1>9 DEF IInv

LEMMA InvariantStart ==
  ASSUME IInv, StartInterpreter \/ InterpreterEnds
  PROVE  IInv'
PROOF
  <1>a. Main \in Session
    BY MonitorAssumption DEF MonitorAssumption
  <1>1. UNCHANGED <<hook, lockVars, logged, sent, called, hooks>>
    BY DEF StartInterpreter, InterpreterEnds, historyVars
  <1>2. CASE StartInterpreter
    <2>1. TypeOK'
      BY <1>1, <1>2 DEF IInv, TypeOK, StartInterpreter, SequenceCheckingMonitor, lockVars
    <2>2. Absent'
      BY <1>1, <1>2, <1>a DEF IInv, Absent, StartInterpreter, TypeOK
    <2> QED BY <1>1, <2>1, <2>2 DEF IInv, HookForm, Locks, Owns, At, lockVars
  <1>3. CASE InterpreterEnds
    <2>1. TypeOK'
      BY <1>1, <1>3 DEF IInv, TypeOK, InterpreterEnds, lockVars, historyVars
    <2>2. Absent'
      BY <1>1, <1>3, <1>a DEF IInv, Absent, InterpreterEnds, TypeOK, Resting
    <2> QED BY <1>1, <2>1, <2>2 DEF IInv, HookForm, Locks, Owns, At, lockVars
  <1> QED BY <1>2, <1>3

LEMMA MonitorNext == IInv /\ [Next]_vars => IInv'
PROOF
  <1> SUFFICES ASSUME IInv, [Next]_vars PROVE IInv'
    OBVIOUS
  <1>1. CASE UNCHANGED vars
    BY <1>1 DEF vars, chartVars, lockVars, historyVars, IInv, TypeOK, HookForm, Locks, Absent,
                Owns, At
  <1>2. CASE Next
    BY <1>2, InvariantReporting, InvariantBegin, InvariantReturn, InvariantCancel,
       InvariantStart DEF Next, Continue
  <1> QED BY <1>1, <1>2

LEMMA MonitorInvariant == Spec => []IInv
BY MonitorInit, MonitorNext, PTL DEF Spec

\* Hooks, locks, charts and channels keep their types for any number of sessions,
\* any message types and any callbacks.
THEOREM MonitorTypeCorrect == Spec => []TypeOK
BY MonitorInvariant, PTL DEF IInv

\* The application's callbacks of two sessions, and the log callbacks of two,
\* never overlap: each is made under a mutex that one session holds.
THEOREM CallbacksDoNotOverlap == Spec => []CallbacksOneAtATime
PROOF
  <1>1. IInv => CallbacksOneAtATime
    BY DEF IInv, Locks, HookForm, Owns, At, Inside, CallbacksOneAtATime
  <1> QED BY <1>1, MonitorInvariant, PTL

\* Of any sessions, however many, one waits for none of the others.  Who holds
\* the logger's mutex waits for nobody; who holds the monitor's waits at most for
\* the logger's; who joins a chart holds neither, and nobody joins who is joined.
THEOREM NobodyWaitsInACircle == Spec => []NoCircularWait
PROOF
  <1>1. ASSUME IInv, NEW S \in SUBSET Session, S # {}
        PROVE  \E s \in S : \A r \in S : ~WaitsFor(s, r)
    <2>1. \A s \in S : logger = s => \A r \in S : ~WaitsFor(s, r)
      BY <1>1 DEF IInv, Locks, WaitsFor, At, Done
    <2>2. \A s \in S : owner = s /\ logger \notin S => \A r \in S : ~WaitsFor(s, r)
      BY <1>1 DEF IInv, Locks, HookForm, Owns, Inside, WaitsFor, At, Done
    <2>3. \A s \in S : owner \notin S /\ logger \notin S /\ ~Done(s, "joining") =>
            \A r \in S : ~WaitsFor(s, r)
      BY DEF WaitsFor
    <2>4. (\A s \in S : Done(s, "joining")) => \A s, r \in S : ~WaitsFor(s, r)
      BY <1>1 DEF IInv, HookForm, WaitsFor, At, Done
    <2> QED
      BY <1>1, <2>1, <2>2, <2>3, <2>4
  <1>2. IInv => NoCircularWait
    BY <1>1 DEF NoCircularWait
  <1> QED BY <1>2, MonitorInvariant, PTL

-----------------------------------------------------------------------------
(* The three channels.  While no session is between the log and the        *)
(* callback of a report, the channels are equal; and the one that is has   *)
(* its report in the channels it has served and in no other.               *)

InMiddle(s) ==
  hook[s] # Rest /\ Shared(hook[s].type) /\ hook[s].stage \in {"logging", "send", "callback"}

OneBehind(s) ==
  IF hook[s].stage = "callback"
  THEN logged = sent /\ sent = Append(called, TheReport(s))
  ELSE logged = Append(sent, TheReport(s)) /\ sent = called

ChannelStructure ==
  ~failed =>
    /\ (\A s \in Session : ~InMiddle(s)) => logged = sent /\ sent = called
    /\ \A s \in Session : InMiddle(s) => OneBehind(s)

\* What a message that could not be sent has spoilt stays so.
LEMMA FailedStays ==
  ASSUME [Next]_vars
  PROVE  /\ failed => failed'
         /\ \A s \in Session : SendThrows(s) => failed'
PROOF
  <1>1. CASE UNCHANGED vars
    BY <1>1 DEF vars, historyVars, SendThrows
  <1>2. CASE StartInterpreter \/ InterpreterEnds
    BY <1>2 DEF StartInterpreter, InterpreterEnds, historyVars, SendThrows
  <1>3. ASSUME NEW s \in Session, Step(s)
        PROVE  failed' = failed
    BY <1>3 DEF Step, EnterState, ExitState, TakeTransition, ExecuteContent, Log,
       ProcessEvent, Invoke, Uninvoke, Reports, historyVars
  <1>4. ASSUME NEW s \in Session, Continue(s), ~Reporting(s)
        PROVE  failed' = failed
    BY <1>4 DEF Continue, Entered, Exited, Executed, Return, Invoked, CancelInvoked,
       InvokedEnds, Uninvoked, historyVars
  <1>5. ASSUME NEW s \in Session, Reporting(s)
        PROVE  failed => failed'
    BY <1>5 DEF Reporting, BaseHook, Lock, LoggerLock, LoggerUnlock, Send, SendThrows,
       Callback, Unlock, historyVars
  <1>6. \A s \in Session : SendThrows(s) => failed'
    BY DEF SendThrows
  <1> QED BY <1>1, <1>2, <1>3, <1>4, <1>5, <1>6 DEF Next

\* What is shared by the channels is monitored, sent and never of the base hook.
LEMMA SharedTypes ==
  ASSUME NEW t, Shared(t)
  PROVE  /\ t \in LockedTypes /\ t # "event" /\ t # "log"
         /\ Monitored(t) /\ Remote /\ HasCallback(t)
BY DEF Shared, HasCallback, Monitored, MsgType, LockedTypes, BaseTypes, EnterExitTypes,
   InvokeTypes

\* Only one session is in the middle of a report.
LEMMA OneInMiddle ==
  ASSUME IInv, NEW s \in Session, NEW u \in Session, owner = s \/ owner = NoOne, InMiddle(u)
  PROVE  u = s
PROOF
  <1>1. Owns(u)
    BY SharedTypes DEF InMiddle, Owns, Inside
  <1> QED BY <1>1, MonitorAssumption DEF IInv, Locks, MonitorAssumption

\* A step of s outside the middle of a report leaves the channels as they are.
LEMMA ChannelsElsewhere ==
  ASSUME ChannelStructure, NEW s \in Session, UNCHANGED <<logged, sent, called>>,
         failed => failed', \A u \in Session \ {s} : hook'[u] = hook[u],
         ~InMiddle(s), ~InMiddle(s)'
  PROVE  ChannelStructure'
PROOF
  <1>1. \A u \in Session \ {s} : (InMiddle(u)' <=> InMiddle(u)) /\ (OneBehind(u)' <=> OneBehind(u))
    BY DEF InMiddle, OneBehind, TheReport
  <1> QED BY <1>1 DEF ChannelStructure

\* Each step of a report of s, by the channel it writes.
LEMMA ChannelsReporting ==
  ASSUME IInv, ChannelStructure, NEW s \in Session, Reporting(s)
  PROVE  ChannelStructure'
PROOF
  <1> SUFFICES ASSUME ~failed' PROVE ChannelStructure'
    BY DEF ChannelStructure
  <1> USE DEF IInv
  <1>0. ~failed /\ ~SendThrows(s)
    BY FailedStays DEF Next, Continue
  <1> USE <1>0
  <1> DEFINE t == hook[s].type
  <1>1. hook[s] # Rest
    BY DEF Reporting, BaseHook, Lock, LoggerLock, LoggerUnlock, Send, SendThrows, Callback,
           Unlock, At
  \* What a step that goes on to another stage changes of the hooks.
  <1>2. ASSUME NEW stage \in Stage, GoTo(s, stage)
        PROVE  /\ hook'[s] # Rest /\ hook'[s].type = t /\ hook'[s].stage = stage
               /\ TheReport(s)' = TheReport(s)
               /\ \A u \in Session \ {s} : hook'[u] = hook[u]
    BY <1>1, <1>2, StageHook DEF TheReport
  <1>3. /\ AfterLock(t) \in Stage /\ AfterLog(t) \in Stage /\ AfterSend(t) \in Stage
        /\ AfterLock(t) \in {"send", "log", "callback", "unlock"}
        /\ t \in LockedTypes /\ Monitored(t) => AfterLock(t) = "log"
        /\ t \in LockedTypes /\ Monitored(t) /\ Remote => AfterLog(t) = "send"
        /\ HasCallback(t) => AfterSend(t) = "callback"
    BY LaterStages DEF Stage
  \* No other session is in the middle of a report of its own.
  <1>4. ASSUME Shared(t), hook[s].stage \in Inside
        PROVE  \A u \in Session \ {s} : ~InMiddle(u)
    <2>1. owner = s
      BY <1>1, <1>4, SharedTypes DEF Locks, Owns
    <2> QED BY <2>1, OneInMiddle
  \* A report that not all channels make leaves them alone.
  <1>5. CASE ~Shared(t)
    <2>1. UNCHANGED <<logged, sent, called>>
      BY <1>5 DEF Reporting, BaseHook, Lock, LoggerLock, LoggerUnlock, Send, SendThrows,
                  Callback, Unlock, historyVars, Plus
    <2>2. hook'[s] # Rest /\ hook'[s].type = t /\ \A u \in Session \ {s} : hook'[u] = hook[u]
      <3>1. CASE \E stage \in Stage : GoTo(s, stage)
        BY <3>1, <1>2
      <3>2. CASE hook' = [hook EXCEPT ![s].left = @ - 1]
        BY <3>2, <1>1, HookFields, RestHasNoFields DEF TypeOK, Fields, Rest
      <3>3. (\E stage \in Stage : GoTo(s, stage)) \/ hook' = [hook EXCEPT ![s].left = @ - 1]
        BY <1>3 DEF Reporting, BaseHook, Lock, LoggerLock, LoggerUnlock, Send,
                    SendThrows, Callback, Unlock, Stage
      <3> QED BY <3>1, <3>2, <3>3
    <2>3. ~InMiddle(s) /\ ~InMiddle(s)'
      BY <1>5, <2>2 DEF InMiddle, Shared, Monitored, HasCallback
    <2> QED BY <2>1, <2>2, <2>3, ChannelsElsewhere
  <1>6. ASSUME Shared(t), BaseHook(s) \/ Lock(s) \/ Unlock(s)
        PROVE  ChannelStructure'
    <2>1. ~BaseHook(s)
      BY <1>1, <1>6, SharedTypes DEF BaseHook, At, HookForm
    <2>2. /\ hook[s].stage \in {"lock", "unlock"} /\ UNCHANGED <<logged, sent, called>>
          /\ GoTo(s, "log") \/ GoTo(s, "done")
      BY <1>3, <1>6, <2>1, SharedTypes DEF Lock, Unlock, At, historyVars
    <2>3. ~InMiddle(s) /\ ~InMiddle(s)' /\ \A u \in Session \ {s} : hook'[u] = hook[u]
      BY <1>2, <2>2 DEF InMiddle, Stage
    <2> QED BY <2>2, <2>3, ChannelsElsewhere
  \* The four steps in the middle.
  <1>7. ASSUME Shared(t), LoggerLock(s) \/ LoggerUnlock(s) \/ Send(s) \/ Callback(s)
        PROVE  ChannelStructure'
    <2>1. /\ hook[s].stage \in {"log", "logging", "send", "callback"}
          /\ ~SendThrows(s) /\ hook[s].left = 0
      BY <1>1, <1>7, SharedTypes DEF LoggerLock, LoggerUnlock, Send, Callback, At,
         SendThrows, HookForm
    <2>2. \A u \in Session \ {s} : ~InMiddle(u)
      BY <1>4, <1>7, <2>1 DEF Inside
    <2>3. /\ hook[s].stage = "log" => logged = sent /\ sent = called
          /\ hook[s].stage # "log" => OneBehind(s)
      BY <1>1, <1>7, <2>1, <2>2 DEF ChannelStructure, InMiddle
    <2>4. \A stage \in Stage : GoTo(s, stage) =>
            /\ InMiddle(s)' <=> stage \in {"logging", "send", "callback"}
            /\ \A u \in Session \ {s} : ~InMiddle(u)'
      BY <1>2, <1>7, <2>2 DEF InMiddle, Shared, Monitored, HasCallback
    <2>5. CASE LoggerLock(s)
      <3>1. GoTo(s, "logging") /\ hook[s].stage = "log" /\ UNCHANGED <<sent, called>>
            /\ logged' = Append(logged, TheReport(s))
        BY <1>7, <2>5 DEF LoggerLock, At, Plus
      <3>2. OneBehind(s)'
        BY <1>2, <2>3, <3>1 DEF OneBehind, Stage
      <3> QED BY <2>4, <3>1, <3>2 DEF ChannelStructure, Stage
    <2>6. CASE LoggerUnlock(s)
      <3>1. GoTo(s, "send") /\ hook[s].stage = "logging" /\ UNCHANGED <<logged, sent, called>>
        BY <1>3, <1>7, <2>6, SharedTypes DEF LoggerUnlock, At, historyVars
      <3>2. OneBehind(s)'
        BY <1>2, <2>3, <3>1 DEF OneBehind, Stage
      <3> QED BY <2>4, <3>1, <3>2 DEF ChannelStructure, Stage
    <2>7. CASE Send(s)
      <3>1. GoTo(s, "callback") /\ hook[s].stage = "send" /\ UNCHANGED <<logged, called>>
            /\ sent' = Append(sent, TheReport(s))
        BY <1>3, <1>7, <2>7, SharedTypes DEF Send, At, Plus
      <3>2. OneBehind(s)'
        BY <1>2, <2>3, <3>1 DEF OneBehind, Stage
      <3> QED BY <2>4, <3>1, <3>2 DEF ChannelStructure, Stage
    <2>8. CASE Callback(s)
      <3>1. GoTo(s, "unlock") /\ hook[s].stage = "callback" /\ UNCHANGED <<logged, sent>>
            /\ called' = Append(called, TheReport(s))
        BY <1>7, <2>1, <2>8 DEF Callback, At, Plus
      <3>2. logged' = sent' /\ sent' = called'
        BY <2>3, <3>1 DEF OneBehind
      <3> QED BY <2>4, <3>1, <3>2 DEF ChannelStructure, Stage
    <2> QED BY <1>7, <2>5, <2>6, <2>7, <2>8
  <1> QED BY <1>5, <1>6, <1>7 DEF Reporting

\* The steps between the reports: hooks begin, return or are handed on.
LEMMA ChannelsBetween ==
  ASSUME IInv, ChannelStructure, [Next]_vars, \A s \in Session : ~Reporting(s)
  PROVE  ChannelStructure'
PROOF
  <1> USE DEF IInv
  <1>0. failed => failed'
    BY FailedStays
  <1> USE <1>0
  <1>1. CASE UNCHANGED hook /\ UNCHANGED <<logged, sent, called>>
    BY <1>1, ChannelsElsewhere DEF ChannelStructure, InMiddle, OneBehind, TheReport
  <1>2. ASSUME NEW s \in Session, Step(s) \/ Entered(s) \/ Exited(s) \/ Executed(s)
                                   \/ Invoked(s) \/ Uninvoked(s)
        PROVE  ChannelStructure'
    <2>1. UNCHANGED <<logged, sent, called>> /\ (hook[s] = Rest \/ hook[s].stage = "done")
      BY <1>2 DEF Step, EnterState, ExitState, TakeTransition, ExecuteContent, Log,
         ProcessEvent, Invoke, Uninvoke, Reports, Resting, Entered, Exited, Executed, Invoked,
         Uninvoked, Done, At, historyVars
    <2>2. \E t, x, n : Begin(s, t, x, n)
      BY <1>2 DEF Step, EnterState, ExitState, TakeTransition, ExecuteContent, Log,
         ProcessEvent, Invoke, Uninvoke, Entered, Exited, Executed, Invoked, Uninvoked,
         beforeEnteringState, beforeExitingState, afterEnteringState, afterExitingState,
         beforeExecutingContent, afterExecutingContent, beforeTakingTransition,
         afterTakingTransition, beforeInvoking, afterInvoking, beforeUninvoking,
         afterUninvoking, beforeProcessingEvent, log
    <2>3. PICK t, x, n : Begin(s, t, x, n)
      BY <2>2
    <2>4. /\ hook'[s].stage = FirstStage(t) /\ \A u \in Session \ {s} : hook'[u] = hook[u]
      BY <2>3 DEF Begin, TypeOK
    <2>5. ~InMiddle(s) /\ ~InMiddle(s)'
      BY <2>1, <2>4, FirstStages DEF InMiddle
    <2> QED BY <2>1, <2>4, <2>5, ChannelsElsewhere
  <1>3. ASSUME NEW s \in Session, Return(s) \/ CancelInvoked(s)
        PROVE  ChannelStructure'
    <2>1. /\ UNCHANGED <<logged, sent, called>> /\ hook[s].stage = "done"
          /\ \A u \in Session \ {s} : hook'[u] = hook[u]
          /\ hook'[s] = Rest \/ hook'[s] = [hook[s] EXCEPT !.type = "joining"]
      BY <1>3 DEF Return, CancelInvoked, Done, At, TypeOK, historyVars
    <2>2. hook[s] # Rest
      BY <1>3 DEF Return, CancelInvoked, Done, At
    <2>3. hook'[s] = Rest \/ hook'[s].stage = "done"
      BY <2>1, <2>2, HookFields DEF Fields
    <2>4. ~InMiddle(s) /\ ~InMiddle(s)'
      BY <2>1, <2>3 DEF InMiddle
    <2> QED BY <2>1, <2>4, ChannelsElsewhere
  <1>4. CASE UNCHANGED vars
    BY <1>1, <1>4 DEF vars, historyVars
  <1>5. CASE StartInterpreter \/ InterpreterEnds \/ \E s \in Session : InvokedEnds(s)
    BY <1>1, <1>5 DEF StartInterpreter, InterpreterEnds, InvokedEnds, historyVars
  <1> QED BY <1>2, <1>3, <1>4, <1>5 DEF Next, Continue

\* As long as no message failed to be sent, the log, the remote editor and the
\* callbacks tell of the same reports in the same order whenever no session is
\* inside the monitor, for any sessions and in every interleaving of their threads.
THEOREM ChannelsTellTheSame == Spec => []ChannelsAgree
PROOF
  <1>1. Init => ChannelStructure
    BY DEF Init, ChannelStructure, InMiddle
  <1>2. IInv /\ ChannelStructure /\ [Next]_vars => ChannelStructure'
    BY ChannelsReporting, ChannelsBetween
  <1>3. IInv /\ ChannelStructure => ChannelsAgree
    <2> SUFFICES ASSUME IInv, ChannelStructure, owner = NoOne, ~failed
                 PROVE  called = sent /\ sent = logged
      BY DEF ChannelsAgree
    <2>1. \A s \in Session : ~InMiddle(s)
      BY MonitorAssumption, SharedTypes DEF IInv, Locks, Owns, InMiddle, Inside,
         MonitorAssumption
    <2> QED BY <2>1 DEF ChannelStructure
  <1> QED BY <1>1, <1>2, <1>3, MonitorInvariant, PTL DEF Spec

-----------------------------------------------------------------------------
(* A channel that leaves reports out.  A message that is not sent leaves   *)
(* its report out of the channels after it, for good; between the log and  *)
(* the callback of a report the channels it has served are ahead by it.    *)

\* A longer whole has what it had.
LEMMA WithinLonger ==
  ASSUME NEW S, NEW p \in Seq(S), NEW w \in Seq(S), NEW x \in S, Within(p, w)
  PROVE  Within(p, Append(w, x))
PROOF
  <1>1. PICK f \in [DOMAIN p -> DOMAIN w] :
          /\ \A i, j \in DOMAIN p : i < j => f[i] < f[j]
          /\ \A i \in DOMAIN p : p[i] = w[f[i]]
    BY Zenon DEF Within
  <1>2. /\ DOMAIN w \subseteq DOMAIN Append(w, x)
        /\ \A i \in DOMAIN w : Append(w, x)[i] = w[i]
    OBVIOUS
  <1>3. f \in [DOMAIN p -> DOMAIN Append(w, x)]
    BY <1>2
  <1>4. \A i \in DOMAIN p : p[i] = Append(w, x)[f[i]]
    BY <1>1, <1>2
  <1> QED
    BY <1>1, <1>3, <1>4, Zenon DEF Within

\* What both get at their end keeps the one within the other.
LEMMA WithinBoth ==
  ASSUME NEW S, NEW p \in Seq(S), NEW w \in Seq(S), NEW x \in S, Within(p, w)
  PROVE  Within(Append(p, x), Append(w, x))
PROOF
  <1>1. PICK f \in [DOMAIN p -> DOMAIN w] :
          /\ \A i, j \in DOMAIN p : i < j => f[i] < f[j]
          /\ \A i \in DOMAIN p : p[i] = w[f[i]]
    BY Zenon DEF Within
  <1> DEFINE P == Append(p, x)
             W == Append(w, x)
             m == Len(p)
             n == Len(w)
             g == [i \in 1 .. m + 1 |-> IF i <= m THEN f[i] ELSE n + 1]
  <1>2. /\ m \in Nat /\ n \in Nat /\ DOMAIN p = 1 .. m /\ DOMAIN w = 1 .. n
        /\ DOMAIN P = 1 .. m + 1 /\ DOMAIN W = 1 .. n + 1
        /\ P[m + 1] = x /\ W[n + 1] = x
        /\ \A i \in 1 .. m : P[i] = p[i]
        /\ \A i \in 1 .. n : W[i] = w[i]
    OBVIOUS
  <1> HIDE DEF P, W, m, n
  <1>3. \A i \in 1 .. m + 1 : /\ i \in 1 .. m => f[i] \in 1 .. n /\ g[i] = f[i]
                              /\ i \notin 1 .. m => i = m + 1 /\ g[i] = n + 1
    BY <1>1, <1>2
  <1>4. g \in [DOMAIN P -> DOMAIN W]
    BY <1>2, <1>3
  <1>5. ASSUME NEW i \in DOMAIN P, NEW j \in DOMAIN P, i < j  PROVE g[i] < g[j]
    <2>1. i \in 1 .. m /\ i \in 1 .. m + 1 /\ j \in 1 .. m + 1
      BY <1>2, <1>5
    <2>2. f[i] \in 1 .. n /\ g[i] = f[i]
      BY <2>1, <1>3
    <2>3. CASE j \in 1 .. m
      BY <1>1, <1>2, <1>3, <1>5, <2>1, <2>2, <2>3
    <2>4. CASE j \notin 1 .. m
      BY <1>2, <1>3, <2>1, <2>2, <2>4
    <2> QED BY <2>3, <2>4
  <1>6. ASSUME NEW i \in DOMAIN P  PROVE P[i] = W[g[i]]
    <2>1. CASE i \in 1 .. m
      BY <1>1, <1>2, <1>3, <2>1
    <2>2. CASE i \notin 1 .. m
      BY <1>2, <1>3, <2>2
    <2> QED BY <2>1, <2>2
  <1> HIDE DEF g
  <1>7. Within(P, W)
    BY <1>4, <1>5, <1>6, Zenon DEF Within
  <1> QED
    BY <1>7 DEF P, W

\* The middle of a report: which channel is ahead by it.
Ahead(s) ==
  IF hook[s].stage = "callback"
  THEN Within(sent, logged) /\ \E before \in Seq(Report) :
         sent = Append(before, TheReport(s)) /\ Within(called, before)
  ELSE Within(called, sent) /\ \E before \in Seq(Report) :
         logged = Append(before, TheReport(s)) /\ Within(sent, before)

OmitStructure ==
  /\ (\A s \in Session : ~InMiddle(s)) => Within(called, sent) /\ Within(sent, logged)
  /\ \A s \in Session : InMiddle(s) => Ahead(s)

\* A step of s outside the middle of a report leaves the channels as they are.
LEMMA OmitsElsewhere ==
  ASSUME OmitStructure, NEW s \in Session, UNCHANGED <<logged, sent, called>>,
         \A u \in Session \ {s} : hook'[u] = hook[u], ~InMiddle(s), ~InMiddle(s)'
  PROVE  OmitStructure'
PROOF
  <1>1. \A u \in Session \ {s} : (InMiddle(u)' <=> InMiddle(u)) /\ (Ahead(u)' <=> Ahead(u))
    BY DEF InMiddle, Ahead, TheReport
  <1>2. (Within(called, sent) /\ Within(sent, logged))'
          <=> Within(called, sent) /\ Within(sent, logged)
    OBVIOUS
  <1> QED BY <1>1, <1>2 DEF OmitStructure

\* The channels and a report that all of them make.
LEMMA ReportTypes ==
  ASSUME IInv, NEW s \in Session, hook[s] # Rest, Shared(hook[s].type)
  PROVE  /\ logged \in Seq(Report) /\ sent \in Seq(Report) /\ called \in Seq(Report)
         /\ TheReport(s) \in Report
PROOF
  <1>1. Append(<<>>, TheReport(s)) \in Seq(Report)
    <2>1. <<>> \in Seq(Report)
      OBVIOUS
    <2> QED BY <2>1, PlusTypes DEF Plus
  <1>2. Append(<<>>, TheReport(s))[1] = TheReport(s) /\ 1 \in DOMAIN Append(<<>>, TheReport(s))
    OBVIOUS
  <1>3. TheReport(s) \in Report
    BY <1>1, <1>2
  <1> QED BY <1>3 DEF IInv, TypeOK

\* Between two stages of a report no channel gets ahead of the one before it.
LEMMA OmitsAhead ==
  ASSUME IInv, NEW s \in Session, hook[s] # Rest, Shared(hook[s].type), Ahead(s)
  PROVE  Within(called, sent) /\ Within(sent, logged)
PROOF
  BY ReportTypes, WithinLonger DEF Ahead

\* Each step of a report of s, by the channel it writes or leaves out.
LEMMA OmitsReporting ==
  ASSUME IInv, OmitStructure, NEW s \in Session, Reporting(s)
  PROVE  OmitStructure'
PROOF
  <1> USE DEF IInv
  <1> DEFINE t == hook[s].type
             r == TheReport(s)
  <1>1. hook[s] # Rest
    BY DEF Reporting, BaseHook, Lock, LoggerLock, LoggerUnlock, Send, SendThrows, Callback,
           Unlock, At
  <1>2. ASSUME NEW stage \in Stage, GoTo(s, stage)
        PROVE  /\ hook'[s] # Rest /\ hook'[s].type = t /\ hook'[s].stage = stage
               /\ TheReport(s)' = r
               /\ \A u \in Session \ {s} : hook'[u] = hook[u]
    BY <1>1, <1>2, StageHook DEF TheReport
  <1>3. /\ AfterLock(t) \in Stage /\ AfterLog(t) \in Stage /\ AfterSend(t) \in Stage
        /\ t \in LockedTypes /\ Monitored(t) => AfterLock(t) = "log"
        /\ t \in LockedTypes /\ Monitored(t) /\ Remote => AfterLog(t) = "send"
        /\ HasCallback(t) => AfterSend(t) = "callback"
    BY LaterStages DEF Stage
  <1>4. CASE ~Shared(t)
    <2>1. UNCHANGED <<logged, sent, called>>
      BY <1>4 DEF Reporting, BaseHook, Lock, LoggerLock, LoggerUnlock, Send, SendThrows,
                  Callback, Unlock, historyVars, Plus
    <2>2. hook'[s] # Rest /\ hook'[s].type = t /\ \A u \in Session \ {s} : hook'[u] = hook[u]
      <3>1. CASE \E stage \in Stage : GoTo(s, stage)
        BY <3>1, <1>2
      <3>2. CASE hook' = [hook EXCEPT ![s].left = @ - 1]
        BY <3>2, <1>1, HookFields, RestHasNoFields DEF TypeOK, Fields, Rest
      <3>3. (\E stage \in Stage : GoTo(s, stage)) \/ hook' = [hook EXCEPT ![s].left = @ - 1]
        BY <1>3 DEF Reporting, BaseHook, Lock, LoggerLock, LoggerUnlock, Send,
                    SendThrows, Callback, Unlock, Stage
      <3> QED BY <3>1, <3>2, <3>3
    <2>3. ~InMiddle(s) /\ ~InMiddle(s)'
      BY <1>4, <2>2 DEF InMiddle, Shared, Monitored, HasCallback
    <2> QED BY <2>1, <2>2, <2>3, OmitsElsewhere
  <1>5. ASSUME Shared(t), BaseHook(s) \/ Lock(s) \/ Unlock(s)
        PROVE  OmitStructure'
    <2>1. ~BaseHook(s)
      BY <1>1, <1>5, SharedTypes DEF BaseHook, At, HookForm
    <2>2. /\ hook[s].stage \in {"lock", "unlock"} /\ UNCHANGED <<logged, sent, called>>
          /\ GoTo(s, "log") \/ GoTo(s, "done")
      BY <1>3, <1>5, <2>1, SharedTypes DEF Lock, Unlock, At, historyVars
    <2>3. ~InMiddle(s) /\ ~InMiddle(s)' /\ \A u \in Session \ {s} : hook'[u] = hook[u]
      BY <1>2, <2>2 DEF InMiddle, Stage
    <2> QED BY <2>2, <2>3, OmitsElsewhere
  \* The steps in the middle, in which no other session is.
  <1>6. ASSUME Shared(t), LoggerLock(s) \/ LoggerUnlock(s) \/ Send(s) \/ SendThrows(s) \/ Callback(s)
        PROVE  OmitStructure'
    <2>1. /\ hook[s].stage \in {"log", "logging", "send", "callback"} /\ hook[s].left = 0
      BY <1>1, <1>6, SharedTypes DEF LoggerLock, LoggerUnlock, Send, Callback, At,
         SendThrows, HookForm
    <2>2. \A u \in Session \ {s} : ~InMiddle(u)
      <3>1. owner = s
        BY <1>1, <1>6, <2>1, SharedTypes DEF Locks, Owns, Inside
      <3> QED BY <3>1, OneInMiddle
    <2>3. hook[s].stage # "log" => Ahead(s)
      BY <1>1, <1>6, <2>1 DEF OmitStructure, InMiddle
    <2>4. Within(called, sent) /\ Within(sent, logged)
      <3>1. CASE hook[s].stage = "log"
        BY <2>2, <3>1 DEF OmitStructure, InMiddle
      <3>2. CASE hook[s].stage # "log"
        BY <1>1, <1>6, <2>3, <3>2, OmitsAhead
      <3> QED BY <3>1, <3>2
    <2>5. \A stage \in Stage : GoTo(s, stage) =>
            /\ InMiddle(s)' <=> stage \in {"logging", "send", "callback"}
            /\ \A u \in Session \ {s} : ~InMiddle(u)'
      BY <1>2, <1>6, <2>2 DEF InMiddle, Shared, Monitored, HasCallback
    <2>6. /\ logged \in Seq(Report) /\ sent \in Seq(Report) /\ called \in Seq(Report)
          /\ r \in Report
      BY <1>1, <1>6, ReportTypes
    <2>7. CASE LoggerLock(s)
      <3>1. GoTo(s, "logging") /\ UNCHANGED <<sent, called>> /\ logged' = Append(logged, r)
        BY <1>6, <2>7 DEF LoggerLock, Plus
      <3>2. Ahead(s)'
        <4>1. TheReport(s)' = r /\ hook'[s].stage = "logging"
          BY <1>2, <3>1 DEF Stage
        <4> HIDE DEF r
        <4> QED BY <2>4, <2>6, <3>1, <4>1 DEF Ahead
      <3> QED BY <2>5, <3>1, <3>2 DEF OmitStructure, Stage
    <2>8. CASE LoggerUnlock(s)
      <3>1. GoTo(s, "send") /\ hook[s].stage = "logging" /\ UNCHANGED <<logged, sent, called>>
        BY <1>3, <1>6, <2>8, SharedTypes DEF LoggerUnlock, At, historyVars
      <3>2. Ahead(s)'
        <4>1. TheReport(s)' = r /\ hook'[s].stage = "send"
          BY <1>2, <3>1 DEF Stage
        <4> QED BY <2>3, <3>1, <4>1 DEF Ahead
      <3> QED BY <2>5, <3>1, <3>2 DEF OmitStructure, Stage
    <2>9. CASE Send(s) \/ SendThrows(s)
      <3>1. /\ hook[s].stage = "send" /\ UNCHANGED <<logged, called>>
            /\ Send(s) => GoTo(s, "callback") /\ sent' = Append(sent, r)
            /\ SendThrows(s) => GoTo(s, "unlock") /\ sent' \in {sent, Append(sent, r)}
        BY <1>3, <1>6, <2>9, SharedTypes DEF Send, SendThrows, At, Plus
      <3>2. PICK before \in Seq(Report) : logged = Append(before, r) /\ Within(sent, before)
        BY <2>3, <3>1 DEF Ahead
      <3>3. Within(Append(sent, r), logged)
        <4> HIDE DEF r
        <4> QED BY <2>6, <3>2, WithinBoth
      <3>4. CASE Send(s)
        <4>1. TheReport(s)' = r /\ hook'[s].stage = "callback"
          BY <1>2, <3>1, <3>4 DEF Stage
        <4>2. Ahead(s)'
          <5> HIDE DEF r
          <5> QED BY <2>4, <2>6, <3>1, <3>3, <3>4, <4>1 DEF Ahead
        <4> QED BY <2>5, <3>1, <3>4, <4>2 DEF OmitStructure, Stage
      <3>5. CASE SendThrows(s)
        <4>1. Within(called, Append(sent, r))
          <5> HIDE DEF r
          <5> QED BY <2>4, <2>6, WithinLonger
        <4>2. Within(called', sent') /\ Within(sent', logged')
          <5> HIDE DEF r
          <5> QED BY <2>4, <3>1, <3>3, <3>5, <4>1
        <4> QED BY <2>5, <3>1, <3>5, <4>2 DEF OmitStructure, Stage
      <3> QED BY <2>9, <3>4, <3>5
    <2>10. CASE Callback(s)
      <3>1. GoTo(s, "unlock") /\ hook[s].stage = "callback" /\ UNCHANGED <<logged, sent>>
            /\ called' = Append(called, r)
        BY <1>6, <2>1, <2>10 DEF Callback, At, Plus
      <3>2. PICK before \in Seq(Report) : sent = Append(before, r) /\ Within(called, before)
        BY <2>3, <3>1 DEF Ahead
      <3>3. Within(called', sent') /\ Within(sent', logged')
        <4> HIDE DEF r
        <4> QED BY <2>4, <2>6, <3>1, <3>2, WithinBoth
      <3> QED BY <2>5, <3>1, <3>3 DEF OmitStructure, Stage
    <2> QED BY <1>6, <2>7, <2>8, <2>9, <2>10
  <1> QED BY <1>4, <1>5, <1>6 DEF Reporting

\* The steps between the reports change no channel.
LEMMA OmitsBetween ==
  ASSUME IInv, OmitStructure, [Next]_vars, \A s \in Session : ~Reporting(s)
  PROVE  OmitStructure'
PROOF
  <1> USE DEF IInv
  <1>1. CASE UNCHANGED hook /\ UNCHANGED <<logged, sent, called>>
    BY <1>1, OmitsElsewhere DEF OmitStructure, InMiddle, Ahead, TheReport
  <1>2. ASSUME NEW s \in Session, Step(s) \/ Entered(s) \/ Exited(s) \/ Executed(s)
                                   \/ Invoked(s) \/ Uninvoked(s)
        PROVE  OmitStructure'
    <2>1. UNCHANGED <<logged, sent, called>> /\ (hook[s] = Rest \/ hook[s].stage = "done")
      BY <1>2 DEF Step, EnterState, ExitState, TakeTransition, ExecuteContent, Log,
         ProcessEvent, Invoke, Uninvoke, Reports, Resting, Entered, Exited, Executed, Invoked,
         Uninvoked, Done, At, historyVars
    <2>2. \E t, x, n : Begin(s, t, x, n)
      BY <1>2 DEF Step, EnterState, ExitState, TakeTransition, ExecuteContent, Log,
         ProcessEvent, Invoke, Uninvoke, Entered, Exited, Executed, Invoked, Uninvoked,
         beforeEnteringState, beforeExitingState, afterEnteringState, afterExitingState,
         beforeExecutingContent, afterExecutingContent, beforeTakingTransition,
         afterTakingTransition, beforeInvoking, afterInvoking, beforeUninvoking,
         afterUninvoking, beforeProcessingEvent, log
    <2>3. PICK t, x, n : Begin(s, t, x, n)
      BY <2>2
    <2>4. /\ hook'[s].stage = FirstStage(t) /\ \A u \in Session \ {s} : hook'[u] = hook[u]
      BY <2>3 DEF Begin, TypeOK
    <2>5. ~InMiddle(s) /\ ~InMiddle(s)'
      BY <2>1, <2>4, FirstStages DEF InMiddle
    <2> QED BY <2>1, <2>4, <2>5, OmitsElsewhere
  <1>3. ASSUME NEW s \in Session, Return(s) \/ CancelInvoked(s)
        PROVE  OmitStructure'
    <2>1. /\ UNCHANGED <<logged, sent, called>> /\ hook[s].stage = "done"
          /\ \A u \in Session \ {s} : hook'[u] = hook[u]
          /\ hook'[s] = Rest \/ hook'[s] = [hook[s] EXCEPT !.type = "joining"]
      BY <1>3 DEF Return, CancelInvoked, Done, At, TypeOK, historyVars
    <2>2. hook[s] # Rest
      BY <1>3 DEF Return, CancelInvoked, Done, At
    <2>3. hook'[s] = Rest \/ hook'[s].stage = "done"
      BY <2>1, <2>2, HookFields DEF Fields
    <2>4. ~InMiddle(s) /\ ~InMiddle(s)'
      BY <2>1, <2>3 DEF InMiddle
    <2> QED BY <2>1, <2>4, OmitsElsewhere
  <1>4. CASE UNCHANGED vars
    BY <1>1, <1>4 DEF vars, historyVars
  <1>5. CASE StartInterpreter \/ InterpreterEnds \/ \E s \in Session : InvokedEnds(s)
    BY <1>1, <1>5 DEF StartInterpreter, InterpreterEnds, InvokedEnds, historyVars
  <1> QED BY <1>2, <1>3, <1>4, <1>5 DEF Next, Continue

\* A message that fails to be sent makes the later channels omit its report: none of
\* them ever tells of one that an earlier channel omits, or tells them in another
\* order, for any number of failures and in every interleaving of the threads.
THEOREM LaterChannelsTellLess == Spec => []LaterChannelsOmit
PROOF
  <1>1. Init => OmitStructure
    <2>1. Within(<<>>, <<>>)
      <3>1. [i \in DOMAIN <<>> |-> i] \in [DOMAIN <<>> -> DOMAIN <<>>] /\ DOMAIN <<>> = {}
        OBVIOUS
      <3> QED BY <3>1 DEF Within
    <2> QED BY <2>1 DEF Init, OmitStructure, InMiddle
  <1>2. IInv /\ OmitStructure /\ [Next]_vars => OmitStructure'
    BY OmitsReporting, OmitsBetween
  <1>3. IInv /\ OmitStructure => LaterChannelsOmit
    <2> SUFFICES ASSUME IInv, OmitStructure, owner = NoOne
                 PROVE  Within(called, sent) /\ Within(sent, logged)
      BY DEF LaterChannelsOmit
    <2>1. \A s \in Session : ~InMiddle(s)
      BY MonitorAssumption, SharedTypes DEF IInv, Locks, Owns, InMiddle, Inside,
         MonitorAssumption
    <2> QED BY <2>1 DEF OmitStructure
  <1> QED BY <1>1, <1>2, <1>3, MonitorInvariant, PTL DEF Spec

-----------------------------------------------------------------------------
(* The picture of the remote editor.  A message is sent before the chart   *)
(* makes the step it tells of, so between the two the picture is one step  *)
(* ahead; and an uninvoked chart goes on with its step after the editor    *)
(* was told to clear it.                                                   *)

EditorIsTold ==
  /\ Remote /\ ~failed
  /\ Monitored("smttBeforeEnter") /\ Monitored("smttBeforeExit")
  /\ Monitored("smttBeforeUnInvoke")

\* The editor has the message of type t about x, of a step s has yet to make.
Told(s, t, x) ==
  /\ hook[s] # Rest /\ hook[s].type = t /\ hook[s].what = x
  /\ hook[s].stage \in {"callback", "unlock", "done"}
EnterTold(s, x) == Told(s, "smttBeforeEnter", x)
ExitTold(s, x)  == Told(s, "smttBeforeExit", x)
Cleared(s)      == alive[s] = "stopping" \/ Told(Main, "smttBeforeUnInvoke", s)

PictureOf(s) ==
  /\ alive[s] # "none" =>
       \A x \in picture[s] : x \in config[s] \/ x \in late[s] \/ EnterTold(s, x)
  /\ ~Ending(s) => \A x \in config[s] : x \in picture[s] \/ ExitTold(s, x)
  /\ ~Ending(s) => \A x \in State : EnterTold(s, x) => x \in picture[s]
  /\ \A x \in State : ExitTold(s, x) => x \notin picture[s]
  /\ Cleared(s) => \A x \in picture[s] : x \in late[s] \/ EnterTold(s, x)
  /\ s # Main /\ alive[s] = "none" => picture[s] \subseteq late[s]

\* A chart that is stopping is the one the main chart waits for.
Joining ==
  \A i \in Session : alive[i] = "stopping" =>
    hook[Main] # Rest /\ hook[Main].type = "joining" /\ hook[Main].what = i

PictureStructure == EditorIsTold => Joining /\ \A s \in Session : PictureOf(s)

\* A step that changes nothing the picture of u depends on, except that it may
\* be the first of an uninvoke of u.
LEMMA PictureElsewhere ==
  ASSUME NEW u \in Session, PictureOf(u), picture[u] \subseteq State, config[u] \subseteq State,
         config'[u] = config[u], picture'[u] = picture[u], late'[u] = late[u],
         alive'[u] # "none" => alive[u] # "none" \/ u # Main,
         alive'[u] = "none" => alive[u] = "none",
         Ending(u) => Ending(u)', Cleared(u)' => Cleared(u),
         \A x \in State : (EnterTold(u, x)' <=> EnterTold(u, x)) /\ (ExitTold(u, x)' <=> ExitTold(u, x))
  PROVE  PictureOf(u)'
BY DEF PictureOf

\* The monitored types are sent before the callback.
LEMMA ToldTypes ==
  ASSUME EditorIsTold, NEW t \in {"smttBeforeEnter", "smttBeforeExit", "smttBeforeUnInvoke"}
  PROVE  /\ FirstStage(t) = "lock" /\ AfterLock(t) = "log" /\ AfterLog(t) = "send"
         /\ AfterSend(t) \in {"callback", "unlock"}
BY FirstStages, LaterStages DEF EditorIsTold, LockedTypes, EnterExitTypes, InvokeTypes

\* The steps of a report other than the message.
LEMMA PictureReporting ==
  ASSUME IInv, PictureStructure, EditorIsTold, NEW s \in Session, Reporting(s), ~Send(s),
         ~SendThrows(s)
  PROVE  PictureStructure'
PROOF
  <1> USE DEF IInv
  <1> DEFINE t == hook[s].type
             Types == {"smttBeforeEnter", "smttBeforeExit", "smttBeforeUnInvoke"}
             After == {"callback", "unlock", "done"}
  <1>0. Main \in Session
    BY MonitorAssumption DEF MonitorAssumption
  <1>1. hook[s] # Rest /\ UNCHANGED <<alive, config, picture, late>>
    BY DEF Reporting, BaseHook, Lock, LoggerLock, LoggerUnlock, Callback, Unlock, At,
           chartVars, historyVars
  <1>2. \/ BaseHook(s) \/ Lock(s) \/ LoggerLock(s) \/ LoggerUnlock(s) \/ Callback(s) \/ Unlock(s)
    BY DEF Reporting
  <1>3. \/ \E stage \in Stage : GoTo(s, stage)
        \/ hook[s].stage = "callback" /\ hook' = [hook EXCEPT ![s].left = @ - 1]
    BY <1>2, LaterStages DEF BaseHook, Lock, LoggerLock, LoggerUnlock, Callback, Unlock, Stage, At
  <1>4. /\ hook'[s] # Rest /\ hook'[s].type = t /\ hook'[s].what = hook[s].what
        /\ \A u \in Session \ {s} : hook'[u] = hook[u]
    <2>1. CASE \E stage \in Stage : GoTo(s, stage)
      BY <2>1, <1>1, StageHook
    <2>2. CASE hook' = [hook EXCEPT ![s].left = @ - 1]
      BY <2>2, <1>1, HookFields, RestHasNoFields DEF TypeOK, Fields, Rest
    <2> QED BY <1>3, <2>1, <2>2
  <1>5. t \in Types => (hook'[s].stage \in After <=> hook[s].stage \in After)
    <2> SUFFICES ASSUME t \in Types PROVE hook'[s].stage \in After <=> hook[s].stage \in After
      OBVIOUS
    <2>1. /\ AfterLock(t) = "log" /\ AfterLog(t) = "send" /\ t \in LockedTypes
      BY ToldTypes DEF LockedTypes, EnterExitTypes, InvokeTypes
    <2>2. \A stage \in Stage : GoTo(s, stage) => hook'[s].stage = stage
      BY <1>1, StageHook
    <2>3. ~BaseHook(s)
      BY <1>1, <2>1 DEF BaseHook, At, HookForm
    <2>4. CASE Lock(s)
      BY <2>1, <2>2, <2>4 DEF Lock, At, Stage
    <2>5. CASE LoggerLock(s) \/ LoggerUnlock(s)
      BY <2>1, <2>2, <2>5 DEF LoggerLock, LoggerUnlock, At, Stage
    <2>6. CASE Unlock(s)
      BY <2>2, <2>6 DEF Unlock, At, Stage
    <2>7. CASE Callback(s)
      <3>1. hook[s].stage = "callback" /\ hook[s].left = 0
        BY <1>1, <2>1, <2>7 DEF Callback, At, HookForm, LockedTypes, EnterExitTypes, InvokeTypes
      <3>2. GoTo(s, "unlock")
        BY <3>1, <2>7 DEF Callback
      <3> QED BY <2>2, <3>1, <3>2 DEF Stage
    <2> QED BY <1>2, <2>3, <2>4, <2>5, <2>6, <2>7
  <1>6. \A u \in Session, y \in Types, x \in State \cup Session : Told(u, y, x)' <=> Told(u, y, x)
    BY <1>1, <1>4, <1>5 DEF Told
  <1>7. \A u \in Session :
          /\ Ending(u)' <=> Ending(u)
          /\ Cleared(u)' <=> Cleared(u)
          /\ \A x \in State : (EnterTold(u, x)' <=> EnterTold(u, x)) /\ (ExitTold(u, x)' <=> ExitTold(u, x))
    BY <1>0, <1>1, <1>4, <1>6 DEF Ending, Cleared, EnterTold, ExitTold
  <1>8. \A u \in Session : PictureOf(u)'
    BY <1>1, <1>7, PictureElsewhere DEF PictureStructure, TypeOK
  <1>9. Joining'
    BY <1>0, <1>1, <1>4 DEF Joining, PictureStructure
  <1> QED BY <1>8, <1>9 DEF PictureStructure

\* The message.
LEMMA PictureSend ==
  ASSUME IInv, PictureStructure, EditorIsTold, NEW s \in Session, Send(s)
  PROVE  PictureStructure'
PROOF
  <1> USE DEF IInv
  <1> DEFINE t == hook[s].type
             x == hook[s].what
  <1>0. Main \in Session
    BY MonitorAssumption DEF MonitorAssumption
  <1>1. /\ hook[s] # Rest /\ hook[s].stage = "send" /\ UNCHANGED <<alive, config, late>>
        /\ picture' = ShownAfter(s) /\ GoTo(s, AfterSend(t))
    BY DEF Send, At, chartVars
  <1>2. AfterSend(t) \in Stage /\ AfterSend(t) \in {"callback", "unlock"}
    BY LaterStages DEF Stage
  <1>3. /\ hook'[s] # Rest /\ hook'[s].type = t /\ hook'[s].what = x
        /\ hook'[s].stage \in {"callback", "unlock"}
        /\ \A u \in Session \ {s} : hook'[u] = hook[u]
    BY <1>1, <1>2, StageHook
  <1>4. alive[s] # "none"
    BY <1>1 DEF Absent
  \* What the editor is told now, and was not before.
  <1>5. /\ \A y, z : ~Told(s, y, z) /\ (Told(s, y, z)' <=> y = t /\ z = x)
        /\ \A u \in Session \ {s} : \A y, z : Told(u, y, z)' <=> Told(u, y, z)
    BY <1>1, <1>3 DEF Told
  <1>6. \A u \in Session : Ending(u)' <=> Ending(u)
    BY <1>0, <1>1, <1>3 DEF Ending
  <1>7. \A u \in Session : Cleared(u)' <=> Cleared(u) \/ (s = Main /\ t = "smttBeforeUnInvoke" /\ x = u)
    BY <1>0, <1>1, <1>5 DEF Cleared
  <1>8. Joining'
    BY <1>0, <1>1, <1>3 DEF Joining, PictureStructure
  <1>9. \A u \in Session : PictureOf(u) /\ picture[u] \subseteq State /\ config[u] \subseteq State
    BY DEF PictureStructure, TypeOK
  <1>10. ASSUME NEW u \in Session, u # s, picture'[u] = picture[u],
                t = "smttBeforeUnInvoke" => u # x
         PROVE  PictureOf(u)'
    <2>1. \A z \in State : (EnterTold(u, z)' <=> EnterTold(u, z)) /\ (ExitTold(u, z)' <=> ExitTold(u, z))
      BY <1>5, <1>10 DEF EnterTold, ExitTold
    <2>2. (Cleared(u)' <=> Cleared(u)) /\ (Ending(u)' <=> Ending(u))
      BY <1>6, <1>7, <1>10
    <2> QED BY <1>1, <1>9, <1>10, <2>1, <2>2, PictureElsewhere
  <1>11. CASE t = "smttBeforeEnter"
    <2>1. /\ x \in State /\ picture'[s] = picture[s] \cup {x}
          /\ \A u \in Session \ {s} : picture'[u] = picture[u]
      BY <1>1, <1>11 DEF ShownAfter, TypeOK, HookForm
    <2>2. PictureOf(s)'
      BY <1>1, <1>4, <1>5, <1>6, <1>7, <1>9, <1>11, <2>1 DEF PictureOf, EnterTold, ExitTold
    <2> QED BY <1>8, <1>10, <1>11, <2>1, <2>2 DEF PictureStructure
  <1>12. CASE t = "smttBeforeExit"
    <2>1. /\ x \in State /\ picture'[s] = picture[s] \ {x}
          /\ \A u \in Session \ {s} : picture'[u] = picture[u]
      BY <1>1, <1>12 DEF ShownAfter, TypeOK, HookForm
    <2>2. PictureOf(s)'
      BY <1>1, <1>4, <1>5, <1>6, <1>7, <1>9, <1>12, <2>1 DEF PictureOf, EnterTold, ExitTold
    <2> QED BY <1>8, <1>10, <1>12, <2>1, <2>2 DEF PictureStructure
  <1>13. CASE t = "smttBeforeUnInvoke"
    <2>1. s = Main /\ x \in Session \ {Main}
      BY <1>1, <1>13 DEF HookForm
    <2>2. PICK i \in Session \ {Main} : i = x
      BY <2>1
    <2>3. picture'[i] = {} /\ \A u \in Session \ {i} : picture'[u] = picture[u]
      BY <1>1, <1>13, <2>2 DEF ShownAfter, TypeOK
    <2>4. Ending(i)'
      BY <1>1, <1>6, <1>13, <2>1, <2>2 DEF Ending
    <2>5. PictureOf(i)'
      BY <2>3, <2>4 DEF PictureOf
    <2>6. PictureOf(s)'
      <3>1. \A z \in State : (EnterTold(s, z)' <=> EnterTold(s, z)) /\ (ExitTold(s, z)' <=> ExitTold(s, z))
        BY <1>5, <1>13 DEF EnterTold, ExitTold
      <3>2. (Cleared(s)' <=> Cleared(s)) /\ (Ending(s)' <=> Ending(s))
        BY <1>6, <1>7, <2>1
      <3> QED BY <1>1, <1>9, <2>1, <2>2, <2>3, <3>1, <3>2, PictureElsewhere
    <2>7. \A u \in Session \ {s, i} : PictureOf(u)'
      BY <1>10, <2>2, <2>3
    <2> QED BY <1>8, <2>5, <2>6, <2>7 DEF PictureStructure
  <1>14. CASE t \notin {"smttBeforeEnter", "smttBeforeExit", "smttBeforeUnInvoke"}
    <2>1. picture' = picture
      BY <1>1, <1>14 DEF ShownAfter
    <2>2. PictureOf(s)'
      <3>1. \A z \in State : (EnterTold(s, z)' <=> EnterTold(s, z)) /\ (ExitTold(s, z)' <=> ExitTold(s, z))
        BY <1>5, <1>14 DEF EnterTold, ExitTold
      <3>2. (Cleared(s)' <=> Cleared(s)) /\ (Ending(s)' <=> Ending(s))
        BY <1>6, <1>7, <1>14
      <3> QED BY <1>1, <1>9, <2>1, <3>1, <3>2, PictureElsewhere
    <2> QED BY <1>8, <1>10, <1>14, <2>1, <2>2 DEF PictureStructure
  <1> QED BY <1>11, <1>12, <1>13, <1>14

\* A hook begins where none was, or after another one; none of its messages has
\* been sent, and it ends nothing.
LEMMA BeginTells ==
  ASSUME IInv, EditorIsTold, Joining, NEW s \in Session,
         NEW t \in MsgType \cup {"log", "event"},
         NEW x \in State \cup Session, NEW n \in 0 .. MaxParams, Begin(s, t, x, n),
         hook[s] = Rest \/ (hook[s].stage = "done" /\ hook[s].type # "smttBeforeUnInvoke"),
         \A u \in Session : alive'[u] = "stopping" <=> alive[u] = "stopping",
         hook[s] # Rest /\ hook[s].type = "joining" => alive[hook[s].what] # "stopping"
  PROVE  /\ Joining'
         /\ \A u \in Session : (Ending(u) => Ending(u)') /\ (Cleared(u)' => Cleared(u))
         /\ \A z \in State : ~EnterTold(s, z)' /\ ~ExitTold(s, z)'
         /\ \A u \in Session \ {s} : \A z \in State :
              (EnterTold(u, z)' <=> EnterTold(u, z)) /\ (ExitTold(u, z)' <=> ExitTold(u, z))
PROOF
  <1> USE DEF IInv
  <1>0. Main \in Session
    BY MonitorAssumption DEF MonitorAssumption
  <1>1. /\ hook'[s] # Rest /\ hook'[s].type = t /\ hook'[s].stage = FirstStage(t)
        /\ \A u \in Session \ {s} : hook'[u] = hook[u]
    BY BeginHook
  <1>2. \A y \in {"smttBeforeEnter", "smttBeforeExit", "smttBeforeUnInvoke"} : \A z : ~Told(s, y, z)'
    BY <1>1, ToldTypes DEF Told
  <1>3. \A u \in Session \ {s} : \A y, z : Told(u, y, z)' <=> Told(u, y, z)
    BY <1>1 DEF Told
  <1>4. \A u \in Session : Cleared(u)' => Cleared(u)
    BY <1>0, <1>2, <1>3 DEF Cleared
  <1>5. \A u \in Session : Ending(u) => Ending(u)'
    BY <1>0, <1>1 DEF Ending
  <1>6. Joining'
    BY <1>0, <1>1 DEF Joining
  <1> QED BY <1>2, <1>3, <1>4, <1>5, <1>6 DEF EnterTold, ExitTold

\* A hook begins without a change of what is active.
LEMMA PictureBegin ==
  ASSUME IInv, PictureStructure, EditorIsTold, NEW s \in Session,
         Step(s) \/ Executed(s) \/ Invoked(s) \/ Uninvoked(s)
  PROVE  PictureStructure'
PROOF
  <1> USE DEF IInv
  <1>0. Main \in Session /\ Joining
    BY MonitorAssumption DEF MonitorAssumption, PictureStructure
  <1>1. \A u \in Session : PictureOf(u) /\ picture[u] \subseteq State /\ config[u] \subseteq State
    BY DEF PictureStructure, TypeOK
  \* What follows from a hook that begins.
  <1>2. ASSUME NEW t \in MsgType \cup {"log", "event"}, NEW x \in State \cup Session,
               NEW n \in 0 .. MaxParams, Begin(s, t, x, n),
               \/ hook[s] = Rest
               \/ /\ hook[s].stage = "done"
                  /\ hook[s].type \notin {"smttBeforeEnter", "smttBeforeExit", "smttBeforeUnInvoke"},
               \A u \in Session : /\ alive'[u] = "stopping" <=> alive[u] = "stopping"
                                  /\ alive'[u] # "none" => alive[u] # "none" \/ u # Main
                                  /\ alive'[u] = "none" => alive[u] = "none",
               hook[s] # Rest /\ hook[s].type = "joining" => alive[hook[s].what] # "stopping",
               UNCHANGED <<config, picture, late>>
        PROVE  PictureStructure'
    <2>1. /\ Joining'
          /\ \A u \in Session : (Ending(u) => Ending(u)') /\ (Cleared(u)' => Cleared(u))
          /\ \A z \in State : ~EnterTold(s, z)' /\ ~ExitTold(s, z)'
          /\ \A u \in Session \ {s} : \A z \in State :
               (EnterTold(u, z)' <=> EnterTold(u, z)) /\ (ExitTold(u, z)' <=> ExitTold(u, z))
      <3>1. \A u \in Session : alive'[u] = "stopping" <=> alive[u] = "stopping"
        BY <1>2
      <3>2. hook[s] = Rest \/ (hook[s].stage = "done" /\ hook[s].type # "smttBeforeUnInvoke")
        BY <1>2
      <3> QED BY <1>0, <1>2, <3>1, <3>2, BeginTells
    <2>2. \A z \in State : ~EnterTold(s, z) /\ ~ExitTold(s, z)
      BY <1>2 DEF EnterTold, ExitTold, Told
    <2>3. \A u \in Session : PictureOf(u)'
      BY <1>1, <1>2, <2>1, <2>2, PictureElsewhere
    <2> QED BY <2>1, <2>3 DEF PictureStructure
  <1>3. CASE Step(s)
    <2>1. hook[s] = Rest /\ UNCHANGED <<alive, config, picture, late>>
      BY <1>3 DEF Step, EnterState, ExitState, TakeTransition, ExecuteContent, Log,
         ProcessEvent, Invoke, Uninvoke, Reports, Resting, chartVars, historyVars
    <2>2. PICK t \in MsgType \cup {"log", "event"}, x \in State \cup Session,
               n \in 0 .. MaxParams : Begin(s, t, x, n)
      <3>1. MaxParams \in Nat \ {0}
        BY MonitorAssumption DEF MonitorAssumption
      <3>2. 0 \in 0 .. MaxParams /\ \A n \in 0 .. MaxParams : (IF n = 0 THEN 1 ELSE n) \in 0 .. MaxParams
        BY <3>1
      <3>3. {"smttBeforeEnter", "smttBeforeExit", "smttBeforeInvoke", "smttBeforeUnInvoke",
             "smttBeforeExecContent", "smttBeforeTakingTransition"} \subseteq MsgType
        BY DEF MsgType, LockedTypes, BaseTypes, EnterExitTypes, InvokeTypes
      <3>4. CASE EnterState(s) \/ ExitState(s)
        BY <3>2, <3>3, <3>4 DEF EnterState, ExitState, beforeEnteringState,
           beforeExitingState, TypeOK
      <3>5. CASE TakeTransition(s) \/ ExecuteContent(s) \/ Log(s)
        BY <3>2, <3>3, <3>5 DEF TakeTransition, ExecuteContent, Log, beforeTakingTransition,
           beforeExecutingContent, log
      <3>6. CASE ProcessEvent(s)
        BY <3>2, <3>6 DEF ProcessEvent, beforeProcessingEvent
      <3>7. CASE Invoke(s) \/ Uninvoke(s)
        BY <3>2, <3>3, <3>7 DEF Invoke, Uninvoke, beforeInvoking, beforeUninvoking
      <3> QED BY <1>3, <3>4, <3>5, <3>6, <3>7 DEF Step
    <2> QED BY <1>2, <2>1, <2>2
  <1>4. CASE Executed(s) \/ Uninvoked(s)
    <2>1. /\ hook[s] # Rest /\ hook[s].stage = "done"
          /\ hook[s].type \notin {"smttBeforeEnter", "smttBeforeExit", "smttBeforeUnInvoke"}
          /\ hook[s].type = "joining" => alive[hook[s].what] # "stopping"
          /\ UNCHANGED <<alive, config, picture, late>>
      BY <1>4 DEF Executed, Uninvoked, Done, At, chartVars, historyVars
    <2>2. hook[s].what \in State \cup Session /\ 0 \in 0 .. MaxParams
      BY <2>1, HookFields, MonitorAssumption DEF Fields, MonitorAssumption
    <2>3. PICK t \in {"smttAfterExecContent", "smttAfterTakingTransition", "smttAfterUnInvoke"},
               x \in {s, hook[s].what} : Begin(s, t, x, 0)
      BY <1>4 DEF Executed, Uninvoked, afterExecutingContent, afterTakingTransition, afterUninvoking
    <2>4. t \in MsgType \cup {"log", "event"} /\ x \in State \cup Session
      BY <2>2 DEF MsgType, BaseTypes
    <2> QED BY <1>2, <2>1, <2>2, <2>3, <2>4
  <1>5. CASE Invoked(s)
    <2> DEFINE i == hook[s].what
    <2>1. /\ hook[s] # Rest /\ hook[s].stage = "done" /\ hook[s].type = "smttBeforeInvoke"
          /\ alive' = [alive EXCEPT ![i] = "running"] /\ UNCHANGED <<config, picture, late>>
          /\ Begin(s, "smttAfterInvoke", i, 0)
      BY <1>5 DEF Invoked, Done, At, historyVars, afterInvoking
    <2>2. s = Main /\ i \in Session \ {Main} /\ 0 \in 0 .. MaxParams
      BY <2>1, MonitorAssumption DEF HookForm, MonitorAssumption
    <2>3. alive[i] # "stopping"
      BY <1>0, <2>1, <2>2 DEF Joining
    <2>4. \A u \in Session : /\ alive'[u] = "stopping" <=> alive[u] = "stopping"
                             /\ alive'[u] # "none" => alive[u] # "none" \/ u # Main
                             /\ alive'[u] = "none" => alive[u] = "none"
      BY <2>1, <2>2, <2>3 DEF TypeOK
    <2>5. "smttAfterInvoke" \in MsgType \cup {"log", "event"}
      BY DEF MsgType, BaseTypes
    <2> HIDE DEF i
    <2> QED BY <1>2, <2>1, <2>2, <2>4, <2>5
  <1> QED BY <1>3, <1>4, <1>5

\* The chart enters or exits the state the editor was told of.
LEMMA PictureChange ==
  ASSUME IInv, PictureStructure, EditorIsTold, NEW s \in Session, Entered(s) \/ Exited(s)
  PROVE  PictureStructure'
PROOF
  <1> USE DEF IInv
  <1>0. Main \in Session /\ Joining /\ 0 \in 0 .. MaxParams
    BY MonitorAssumption DEF MonitorAssumption, PictureStructure
  <1>1. \A u \in Session : PictureOf(u) /\ picture[u] \subseteq State /\ config[u] \subseteq State
    BY DEF PictureStructure, TypeOK
  <1>2. /\ hook[s] # Rest /\ hook[s].stage = "done"
        /\ hook[s].type \in {"smttBeforeEnter", "smttBeforeExit"}
        /\ UNCHANGED <<alive, picture>> /\ \A u \in Session \ {s} : late'[u] = late[u]
    BY DEF Entered, Exited, Done, At, historyVars, TypeOK
  <1>3. PICK x \in State : x = hook[s].what
    BY <1>2 DEF HookForm
  <1>4. PICK t \in {"smttAfterEnter", "smttAfterExit"} : Begin(s, t, x, 0)
    BY <1>3 DEF Entered, Exited, afterEnteringState, afterExitingState
  <1>5. t \in MsgType \cup {"log", "event"}
    BY DEF MsgType, LockedTypes
  <1>6. /\ Joining'
        /\ \A u \in Session : (Ending(u) => Ending(u)') /\ (Cleared(u)' => Cleared(u))
        /\ \A z \in State : ~EnterTold(s, z)' /\ ~ExitTold(s, z)'
        /\ \A u \in Session \ {s} : \A z \in State :
             (EnterTold(u, z)' <=> EnterTold(u, z)) /\ (ExitTold(u, z)' <=> ExitTold(u, z))
    BY <1>0, <1>2, <1>4, <1>5, BeginTells
  <1>7. \A u \in Session \ {s} : config'[u] = config[u]
    BY <1>3 DEF Entered, Exited, TypeOK
  <1>8. \A u \in Session \ {s} : PictureOf(u)'
    BY <1>1, <1>2, <1>6, <1>7, PictureElsewhere
  <1>9. alive[s] # "none"
    BY <1>2 DEF Absent
  <1>10. CASE Entered(s)
    <2>1. /\ config'[s] = config[s] \cup {x}
          /\ late'[s] = IF Ending(s) THEN late[s] \cup {x} ELSE late[s]
          /\ hook[s].type = "smttBeforeEnter"
      BY <1>3, <1>10 DEF Entered, Done, TypeOK
    <2>2. \A z \in State : (EnterTold(s, z) <=> z = x) /\ ~ExitTold(s, z)
      BY <1>2, <1>3, <2>1 DEF EnterTold, ExitTold, Told
    <2>3. Cleared(s) => Ending(s)
      BY DEF Cleared, Ending, Told
    <2>4. PictureOf(s)'
      BY <1>1, <1>2, <1>6, <1>9, <2>1, <2>2, <2>3 DEF PictureOf
    <2> QED BY <1>6, <1>8, <2>4 DEF PictureStructure
  <1>11. CASE Exited(s)
    <2>1. /\ config'[s] = config[s] \ {x} /\ late'[s] = late[s]
          /\ hook[s].type = "smttBeforeExit"
      BY <1>3, <1>11 DEF Exited, Done, TypeOK, historyVars
    <2>2. \A z \in State : (ExitTold(s, z) <=> z = x) /\ ~EnterTold(s, z)
      BY <1>2, <1>3, <2>1 DEF EnterTold, ExitTold, Told
    <2>3. PictureOf(s)'
      BY <1>1, <1>2, <1>6, <1>9, <2>1, <2>2 DEF PictureOf
    <2> QED BY <1>6, <1>8, <2>3 DEF PictureStructure
  <1> QED BY <1>10, <1>11

\* Hooks return, and charts come and go.
LEMMA PictureReturn ==
  ASSUME IInv, PictureStructure, EditorIsTold, NEW s \in Session, Return(s) \/ CancelInvoked(s)
  PROVE  PictureStructure'
PROOF
  <1> USE DEF IInv
  <1>0. Main \in Session /\ Joining
    BY MonitorAssumption DEF MonitorAssumption, PictureStructure
  <1>1. \A u \in Session : PictureOf(u) /\ picture[u] \subseteq State /\ config[u] \subseteq State
    BY DEF PictureStructure, TypeOK
  <1>2. /\ hook[s] # Rest /\ hook[s].stage = "done"
        /\ hook[s].type \notin {"smttBeforeEnter", "smttBeforeExit", "joining"}
        /\ UNCHANGED <<config, picture, late>> /\ \A u \in Session \ {s} : hook'[u] = hook[u]
    BY DEF Return, CancelInvoked, Done, At, TypeOK, chartVars, historyVars
  <1>3. hook'[s] = Rest \/ (hook'[s].type = "joining" /\ hook'[s].what = hook[s].what)
    BY <1>2, HookFields DEF Return, CancelInvoked, TypeOK, Fields
  <1>4. \A u \in Session, z \in State :
          (EnterTold(u, z)' <=> EnterTold(u, z)) /\ (ExitTold(u, z)' <=> ExitTold(u, z))
    BY <1>2, <1>3 DEF EnterTold, ExitTold, Told
  <1>5. CASE Return(s)
    <2>1. alive' = alive /\ hook[s].type # "smttBeforeUnInvoke" /\ hook'[s] = Rest
      BY <1>5 DEF Return, Done, chartVars, TypeOK
    <2>2. Joining'
      BY <1>0, <1>2, <2>1 DEF Joining
    <2>3. \A u \in Session : (Ending(u)' <=> Ending(u)) /\ (Cleared(u)' => Cleared(u))
      BY <1>0, <1>2, <2>1 DEF Ending, Cleared, Told
    <2>4. \A u \in Session : PictureOf(u)'
      BY <1>1, <1>2, <1>4, <2>1, <2>3, PictureElsewhere
    <2> QED BY <2>2, <2>4 DEF PictureStructure
  <1>6. CASE CancelInvoked(s)
    <2>1. /\ hook[s].type = "smttBeforeUnInvoke" /\ hook'[s] # Rest /\ hook'[s].type = "joining"
          /\ hook'[s].what = hook[s].what /\ alive' = [alive EXCEPT ![hook[s].what] = "stopping"]
      BY <1>2, <1>6, HookFields, RestHasNoFields DEF CancelInvoked, Done, TypeOK, Fields, Rest
    <2>2. s = Main /\ hook[s].what \in Session \ {Main}
      BY <1>2, <2>1 DEF HookForm
    <2>3. PICK i \in Session \ {Main} : i = hook[s].what
      BY <2>2
    <2>4. /\ alive'[i] = "stopping" /\ \A u \in Session \ {i} : alive'[u] = alive[u]
      BY <2>1, <2>3 DEF TypeOK
    <2>5. \A u \in Session : alive[u] # "stopping"
      BY <1>0, <1>2, <2>2 DEF Joining
    <2>6. Joining'
      BY <2>1, <2>2, <2>3, <2>4, <2>5 DEF Joining
    <2>7. Ending(i)' /\ Cleared(i)
      BY <1>2, <2>1, <2>2, <2>3, <2>4 DEF Ending, Cleared, Told
    <2>8. \A u \in Session \ {i} : ~Ending(u) /\ ~Cleared(u)'
      BY <2>1, <2>2, <2>3, <2>4, <2>5 DEF Ending, Cleared, Told
    <2>9. \A u \in Session : PictureOf(u)'
      <3>1. \A u \in Session : /\ alive'[u] # "none" => alive[u] # "none" \/ u # Main
                               /\ alive'[u] = "none" => alive[u] = "none"
                               /\ Ending(u) => Ending(u)'
                               /\ Cleared(u)' => Cleared(u)
        BY <2>3, <2>4, <2>7, <2>8
      <3> QED BY <1>1, <1>2, <1>4, <3>1, PictureElsewhere
    <2> QED BY <2>6, <2>9 DEF PictureStructure
  <1> QED BY <1>5, <1>6

LEMMA PictureEnds ==
  ASSUME IInv, PictureStructure, EditorIsTold,
         StartInterpreter \/ InterpreterEnds \/ \E i \in Session : InvokedEnds(i)
  PROVE  PictureStructure'
PROOF
  <1> USE DEF IInv
  <1>0. Main \in Session /\ Joining
    BY MonitorAssumption DEF MonitorAssumption, PictureStructure
  <1>1. \A u \in Session : PictureOf(u) /\ picture[u] \subseteq State /\ config[u] \subseteq State
    BY DEF PictureStructure, TypeOK
  <1>2. UNCHANGED hook
    BY DEF StartInterpreter, InterpreterEnds, InvokedEnds
  <1>3. \A u \in Session : \A y, z : Told(u, y, z)' <=> Told(u, y, z)
    BY <1>2 DEF Told
  \* Sessions whose chart neither begins nor ends.
  <1>4. ASSUME NEW u \in Session, alive'[u] = alive[u], config'[u] = config[u],
               picture'[u] = picture[u], late'[u] = late[u]
        PROVE  PictureOf(u)'
    <2>1. (Ending(u)' <=> Ending(u)) /\ (Cleared(u)' <=> Cleared(u))
      BY <1>0, <1>2, <1>3, <1>4 DEF Ending, Cleared
    <2>2. \A z \in State : (EnterTold(u, z)' <=> EnterTold(u, z)) /\ (ExitTold(u, z)' <=> ExitTold(u, z))
      BY <1>3 DEF EnterTold, ExitTold
    <2> QED BY <1>1, <1>4, <2>1, <2>2, PictureElsewhere
  <1>5. CASE StartInterpreter
    <2>1. /\ \A u \in Session : hook[u] = Rest /\ config[u] = {}
          /\ \A u \in Session : alive'[u] \in {"none", "running"}
          /\ \A u \in Session : config'[u] = {} /\ picture'[u] = {}
      BY <1>5 DEF StartInterpreter, SequenceCheckingMonitor, Absent, TypeOK, EditorIsTold
    <2>2. \A u \in Session : \A y, z : ~Told(u, y, z)'
      BY <1>3, <2>1 DEF Told
    <2>3. \A u \in Session : PictureOf(u)'
      BY <2>1, <2>2 DEF PictureOf, EnterTold, ExitTold
    <2>4. Joining'
      BY <2>1 DEF Joining
    <2> QED BY <2>3, <2>4 DEF PictureStructure
  <1>6. ASSUME NEW s \in Session, InvokedEnds(s) \/ (s = Main /\ InterpreterEnds)
        PROVE  PictureStructure'
    <2>1. /\ hook[s] = Rest /\ UNCHANGED <<picture, late>>
          /\ alive' = [alive EXCEPT ![s] = "none"] /\ config' = [config EXCEPT ![s] = {}]
      BY <1>6 DEF InvokedEnds, InterpreterEnds, Resting, historyVars
    <2>2. /\ alive'[s] = "none" /\ config'[s] = {}
          /\ \A u \in Session \ {s} : alive'[u] = alive[u] /\ config'[u] = config[u]
      BY <2>1 DEF TypeOK
    <2>3. \A z : ~EnterTold(s, z) /\ ~EnterTold(s, z)' /\ ~ExitTold(s, z)'
      BY <1>2, <2>1 DEF EnterTold, ExitTold, Told
    <2>4. s # Main => picture[s] \subseteq late[s]
      <3> SUFFICES ASSUME s # Main PROVE picture[s] \subseteq late[s]
        OBVIOUS
      <3>1. Cleared(s)
        BY <1>6 DEF InvokedEnds, Cleared
      <3> QED BY <1>1, <2>3, <3>1 DEF PictureOf
    <2>5. Cleared(s)' => s # Main
      BY <1>2, <1>3, <2>1, <2>2 DEF Cleared, Told
    <2>6. PictureOf(s)'
      BY <2>1, <2>2, <2>3, <2>4, <2>5 DEF PictureOf
    <2>7. Joining'
      BY <1>0, <1>2, <2>2 DEF Joining
    <2> QED BY <1>4, <2>1, <2>2, <2>6, <2>7 DEF PictureStructure
  <1> QED BY <1>0, <1>5, <1>6

LEMMA PictureNext == IInv /\ PictureStructure /\ [Next]_vars => PictureStructure'
PROOF
  <1> SUFFICES ASSUME IInv, PictureStructure, [Next]_vars, EditorIsTold'
               PROVE  PictureStructure'
    BY DEF PictureStructure
  <1>0. EditorIsTold /\ \A s \in Session : ~SendThrows(s)
    BY FailedStays DEF EditorIsTold, Monitored
  <1> USE <1>0
  <1>1. CASE UNCHANGED vars
    BY <1>1 DEF vars, chartVars, historyVars, PictureStructure, PictureOf, Joining, Cleared,
       Ending, EnterTold, ExitTold, Told
  <1>2. CASE Next
    BY <1>2, PictureReporting, PictureSend, PictureBegin, PictureChange, PictureReturn,
       PictureEnds DEF Next, Continue
  <1> QED BY <1>1, <1>2

\* If the editor's message types are monitored and no message failed to be sent, the
\* remote editor shows of every running chart what is active, but for states
\* entered after the uninvoke of an earlier session had begun, for any sessions and
\* states and in every interleaving.
THEOREM EditorShowsTheCharts == Spec => []PictureFollowsCharts
PROOF
  <1>1. Init => PictureStructure
    BY DEF Init, PictureStructure, PictureOf, Joining, EnterTold, ExitTold, Told
  <1>2. PictureStructure => PictureFollowsCharts
    <2> SUFFICES ASSUME PictureStructure, EditorIsTold, NEW s \in Session
                 PROVE  /\ Resting(s) /\ ~Ending(s) =>
                             /\ config[s] \subseteq picture[s]
                             /\ picture[s] \subseteq config[s] \cup late[s]
                        /\ s # Main /\ alive[s] = "none" => picture[s] \subseteq late[s]
      BY DEF PictureFollowsCharts, EditorIsTold
    <2>1. PictureOf(s)
      BY DEF PictureStructure
    <2>2. Resting(s) => alive[s] # "none" /\ \A x : ~EnterTold(s, x) /\ ~ExitTold(s, x)
      BY DEF Resting, EnterTold, ExitTold, Told
    <2> QED BY <2>1, <2>2 DEF PictureOf
  <1> QED BY <1>1, <1>2, PictureNext, MonitorInvariant, PTL DEF Spec
==============================================================================
