------------------------------ MODULE Monitor ------------------------------
(***************************************************************************)
(* SequenceCheckingMonitor (UscxmlClibBase.cpp): what the sessions of one  *)
(* handle - the chart that was started and the charts it invokes, each on  *)
(* its own thread - report of their steps to the log, to the remote editor *)
(* and to the application's callbacks.  The monitor's recursive mutex is   *)
(* shared by all sessions and held while the callbacks run; the logger has *)
(* a mutex of its own that is held while the log callback runs.            *)
(*                                                                         *)
(* The remote editor is outside this repository: it shows as active the    *)
(* states it was told were entered, until it is told of their exit or to   *)
(* clear a chart, and takes the messages in the order they were sent.      *)
(***************************************************************************)
EXTENDS Naturals, Sequences

CONSTANTS
  Session,          \* the sessions that take part
  Main,             \* the session of the chart that was started
  State,            \* states of a chart
  NoOne,            \* not a session: a free mutex
  Monitoring,       \* _options.Monitor
  MonitorMsgTypes,  \* _options.MonitorMsgTypes
  Remote,           \* useRemoteMonitor()
  Registered,       \* callbacks of the application: "EnterExit", "Invoke", "Event"
  SendsFail,        \* send_to may throw
  MaxParams,        \* bound: parameters of an event
  MaxHooks          \* bound: calls of the monitor in a behaviour

\* TScxmlMsgType, without the types no hook of the monitor uses.
EnterExitTypes == {"smttBeforeEnter", "smttBeforeExit"}
InvokeTypes    == {"smttBeforeInvoke", "smttBeforeUnInvoke"}
LockedTypes    == EnterExitTypes \cup InvokeTypes
                    \cup {"smttAfterEnter", "smttAfterExit"}
BaseTypes      == {"smttBeforeExecContent", "smttAfterExecContent",
                   "smttAfterInvoke", "smttAfterUnInvoke",
                   "smttBeforeTakingTransition", "smttAfterTakingTransition"}
MsgType == LockedTypes \cup BaseTypes \cup {"smttMAXSIZE"}

ASSUME MonitorAssumption ==
  /\ Main \in Session /\ NoOne \notin Session
  /\ Monitoring \in BOOLEAN /\ Remote \in BOOLEAN /\ SendsFail \in BOOLEAN
  /\ MonitorMsgTypes \subseteq MsgType
  /\ Registered \subseteq {"EnterExit", "Invoke", "Event"}
  /\ MaxParams \in Nat \ {0} /\ MaxHooks \in Nat

VARIABLES
  \* the charts
  alive,    \* "none", "running", or "stopping" while it is uninvoked
  config,   \* the active states
  \* the threads inside the monitor
  hook,     \* hook[s]: the report session s is making, and how far it is
  owner,    \* who holds StateTransitionMonitor::_mutex
  logger,   \* who holds g_LoggerMtx
  \* the remote editor
  picture,  \* picture[s]: the states it shows as active
  \* history
  logged, sent, called,  \* the reports of enter, exit, invoke in each channel
  late,     \* late[s]: states s entered after its uninvoke had begun
  failed,   \* a message could not be sent
  hooks     \* the number of reports begun

chartVars   == <<alive, config>>
lockVars    == <<owner, logger>>
historyVars == <<logged, sent, called, late, failed>>
vars == <<chartVars, hook, lockVars, picture, historyVars, hooks>>

Stage  == {"base", "lock", "log", "logging", "send", "callback", "unlock", "done"}
Rest   == [type |-> "none"]
Report == [by : Session, type : LockedTypes, what : State \cup Session]
Hook   == {Rest} \cup
          [type : MsgType \cup {"log", "event", "joining"}, stage : Stage,
           what : State \cup Session, left : 0 .. MaxParams]

TypeOK ==
  /\ alive \in [Session -> {"none", "running", "stopping"}]
  /\ config \in [Session -> SUBSET State]
  /\ hook \in [Session -> Hook]
  /\ owner \in Session \cup {NoOne} /\ logger \in Session \cup {NoOne}
  /\ picture \in [Session -> SUBSET State]
  /\ logged \in Seq(Report) /\ sent \in Seq(Report) /\ called \in Seq(Report)
  /\ late \in [Session -> SUBSET State]
  /\ failed \in BOOLEAN
  /\ hooks \in 0 .. MaxHooks

Init ==
  /\ alive = [s \in Session |-> "none"]
  /\ config = [s \in Session |-> {}]
  /\ hook = [s \in Session |-> Rest]
  /\ owner = NoOne /\ logger = NoOne
  /\ picture = [s \in Session |-> {}]
  /\ logged = <<>> /\ sent = <<>> /\ called = <<>>
  /\ late = [s \in Session |-> {}]
  /\ failed = FALSE
  /\ hooks = 0

------------------------------------------------------------------------------
(* Which reports are made, and the steps one of them goes through.         *)

\* bMonitor, the same test in every hook that reports a message type.
Monitored(t) ==
  /\ Monitoring /\ t \in MsgType
  /\ t \in MonitorMsgTypes \/ "smttMAXSIZE" \in MonitorMsgTypes

\* The callback of the application a hook calls last.
HasCallback(t) ==
  \/ t \in EnterExitTypes /\ "EnterExit" \in Registered
  \/ t \in InvokeTypes /\ "Invoke" \in Registered
  \/ t = "event" /\ "Event" \in Registered

\* Types that are reported in all three channels.
Shared(t) == Monitored(t) /\ HasCallback(t) /\ Remote

Sending(t) == Remote /\ Monitored(t)

FirstStage(t) ==
  CASE t = "log" -> IF Monitoring THEN "log" ELSE "done"
    [] t \in BaseTypes -> IF Monitored(t) THEN "base" ELSE "done"
    [] OTHER -> IF Monitored(t) \/ HasCallback(t) THEN "lock" ELSE "done"

AfterSend(t) == IF HasCallback(t) THEN "callback" ELSE "unlock"
AfterLog(t) ==
  CASE t = "log" -> "done"
    [] Sending(t) -> "send"
    [] OTHER -> AfterSend(t)
AfterLock(t) ==
  IF t \in BaseTypes THEN "send"
  ELSE IF Monitored(t) THEN "log" ELSE AfterSend(t)

\* Session s enters the hook of type t.
Begin(s, t, x, n) ==
  hook' = [hook EXCEPT ![s] = [type |-> t, stage |-> FirstStage(t),
                               what |-> x, left |-> n]]

GoTo(s, stage) == hook' = [hook EXCEPT ![s].stage = stage]

At(s, stage) == hook[s] # Rest /\ hook[s].stage = stage
Done(s, t)   == At(s, "done") /\ hook[s].type = t
Resting(s)   == alive[s] # "none" /\ hook[s] = Rest

TheReport(s) == [by |-> s, type |-> hook[s].type, what |-> hook[s].what]
\* What a channel has reported once it has reported the step of s too.
Plus(channel, s) ==
  IF Shared(hook[s].type) THEN Append(channel, TheReport(s)) ELSE channel

------------------------------------------------------------------------------
(* The hooks: entry.                                                       *)

beforeExitingState(s, x)  == Begin(s, "smttBeforeExit", x, 0)
afterExitingState(s, x)   == Begin(s, "smttAfterExit", x, 0)
beforeEnteringState(s, x) == Begin(s, "smttBeforeEnter", x, 0)
afterEnteringState(s, x)  == Begin(s, "smttAfterEnter", x, 0)
beforeExecutingContent(s) == Begin(s, "smttBeforeExecContent", s, 0)
afterExecutingContent(s)  == Begin(s, "smttAfterExecContent", s, 0)
beforeTakingTransition(s) == Begin(s, "smttBeforeTakingTransition", s, 0)
afterTakingTransition(s)  == Begin(s, "smttAfterTakingTransition", s, 0)
beforeInvoking(s, i)      == Begin(s, "smttBeforeInvoke", i, 0)
afterInvoking(s, i)       == Begin(s, "smttAfterInvoke", i, 0)
beforeUninvoking(s, i)    == Begin(s, "smttBeforeUnInvoke", i, 0)
afterUninvoking(s, i)     == Begin(s, "smttAfterUnInvoke", i, 0)
\* Broken variant: a call for each parameter and one for the event.
beforeProcessingEventAndParams(s, params) == Begin(s, "event", s, params + 1)

\* One call of the callback for each parameter, or one for the event.
beforeProcessingEvent(s, params) ==
  Begin(s, "event", s, IF params = 0 THEN 1 ELSE params)
\* CLibLogger::log from <log> and from the interpreter.
log(s) == Begin(s, "log", s, 0)

------------------------------------------------------------------------------
(* The hooks: their steps.                                                 *)

\* The hook of StateTransitionMonitor, which logs under the same mutex.
BaseHook(s) ==
  /\ At(s, "base") /\ owner = NoOne /\ logger = NoOne
  /\ GoTo(s, IF Remote THEN "lock" ELSE "done")
  /\ UNCHANGED <<chartVars, lockVars, picture, historyVars, hooks>>

\* Broken variant: a hook goes on while another session holds the mutex.
LockShared(s) ==
  /\ At(s, "lock")
  /\ owner' = s
  /\ GoTo(s, AfterLock(hook[s].type))
  /\ UNCHANGED <<chartVars, logger, picture, historyVars, hooks>>

Lock(s) ==
  /\ At(s, "lock") /\ owner = NoOne
  /\ owner' = s
  /\ GoTo(s, AfterLock(hook[s].type))
  /\ UNCHANGED <<chartVars, logger, picture, historyVars, hooks>>

\* CLibLogger::log: the record is written and the log callback runs while
\* g_LoggerMtx is held.
LoggerLock(s) ==
  /\ At(s, "log") /\ logger = NoOne
  /\ logger' = s
  /\ logged' = Plus(logged, s)
  /\ GoTo(s, "logging")
  /\ UNCHANGED <<chartVars, owner, picture, sent, called, late, failed, hooks>>

LoggerUnlock(s) ==
  /\ At(s, "logging")
  /\ logger' = NoOne
  /\ GoTo(s, AfterLog(hook[s].type))
  /\ UNCHANGED <<chartVars, owner, picture, historyVars, hooks>>

\* Broken variant: sendClearInterpreterMessage is not called.
ShownAfterWithoutClear(s) ==
  LET x == hook[s].what IN
  CASE hook[s].type = "smttBeforeEnter" -> [picture EXCEPT ![s] = @ \cup {x}]
    [] hook[s].type = "smttBeforeExit" -> [picture EXCEPT ![s] = @ \ {x}]
    [] OTHER -> picture

\* What the remote editor shows once it has the messages of the hook.
ShownAfter(s) ==
  LET x == hook[s].what IN
  CASE hook[s].type = "smttBeforeEnter" -> [picture EXCEPT ![s] = @ \cup {x}]
    [] hook[s].type = "smttBeforeExit" -> [picture EXCEPT ![s] = @ \ {x}]
    [] hook[s].type = "smttBeforeUnInvoke" -> [picture EXCEPT ![x] = {}]
    [] OTHER -> picture

\* Broken variant: the message is sent after the mutex has been released.
SendUnlocked(s) ==
  /\ At(s, "send")
  /\ sent' = Plus(sent, s)
  /\ picture' = ShownAfter(s)
  /\ owner' = NoOne
  /\ GoTo(s, AfterSend(hook[s].type))
  /\ UNCHANGED <<chartVars, logger, logged, called, late, failed, hooks>>

Send(s) ==
  /\ At(s, "send")
  /\ sent' = Plus(sent, s)
  /\ picture' = ShownAfter(s)
  /\ GoTo(s, AfterSend(hook[s].type))
  /\ UNCHANGED <<chartVars, lockVars, logged, called, late, failed, hooks>>

\* Broken variant: the hook goes on after a message that could not be sent.
SendThrowsIgnored(s) ==
  /\ SendsFail /\ At(s, "send")
  /\ failed' = TRUE
  /\ GoTo(s, AfterSend(hook[s].type))
  /\ UNCHANGED <<chartVars, lockVars, picture, logged, sent, called, late, hooks>>

\* send_to throws: the lock_guard releases the mutex, nothing else of the hook
\* runs, and the interpreter swallows the exception.  Of the two messages of
\* beforeUninvoking the first may have left.
SendThrows(s) ==
  /\ SendsFail /\ At(s, "send")
  /\ \/ UNCHANGED sent
     \/ hook[s].type = "smttBeforeUnInvoke" /\ sent' = Plus(sent, s)
  /\ failed' = TRUE
  /\ GoTo(s, "unlock")
  /\ UNCHANGED <<chartVars, lockVars, picture, logged, called, late, hooks>>

\* A callback of the application, which returns without waiting.
Callback(s) ==
  /\ At(s, "callback")
  /\ called' = Plus(called, s)
  /\ IF hook[s].left > 1
     THEN hook' = [hook EXCEPT ![s].left = @ - 1]
     ELSE GoTo(s, "unlock")
  /\ UNCHANGED <<chartVars, lockVars, picture, logged, sent, late, failed, hooks>>

\* Broken variant: beforeUninvoking keeps the mutex until the chart is stopped.
UnlockUnlessUninvoking(s) ==
  /\ At(s, "unlock")
  /\ owner' = IF hook[s].type = "smttBeforeUnInvoke" THEN owner ELSE NoOne
  /\ GoTo(s, "done")
  /\ UNCHANGED <<chartVars, logger, picture, historyVars, hooks>>

Unlock(s) ==
  /\ At(s, "unlock")
  /\ owner' = NoOne
  /\ GoTo(s, "done")
  /\ UNCHANGED <<chartVars, logger, picture, historyVars, hooks>>

Reporting(s) ==
  \/ BaseHook(s) \/ Lock(s) \/ LoggerLock(s) \/ LoggerUnlock(s)
  \/ Send(s) \/ SendThrows(s) \/ Callback(s) \/ Unlock(s)

------------------------------------------------------------------------------
(* The charts, executed by uSCXML outside this repository.                 *)

\* A new report: what the hook leaves unchanged.
Reports(s) ==
  /\ Resting(s) /\ hooks < MaxHooks
  /\ hooks' = hooks + 1
  /\ UNCHANGED <<chartVars, lockVars, picture, historyVars>>

EnterState(s) == \E x \in State \ config[s] : beforeEnteringState(s, x) /\ Reports(s)
ExitState(s)  == \E x \in config[s] : beforeExitingState(s, x) /\ Reports(s)
TakeTransition(s) == beforeTakingTransition(s) /\ Reports(s)
ExecuteContent(s) == beforeExecutingContent(s) /\ Reports(s)
Log(s) == log(s) /\ Reports(s)
ProcessEvent(s) ==
  \E params \in 0 .. MaxParams : beforeProcessingEvent(s, params) /\ Reports(s)
\* Only the chart that was started invokes others here.
Invoke(s) ==
  /\ s = Main
  /\ \E i \in Session \ {Main} :
       alive[i] = "none" /\ beforeInvoking(s, i) /\ Reports(s)
Uninvoke(s) ==
  /\ s = Main
  /\ \E i \in Session \ {Main} :
       alive[i] = "running" /\ beforeUninvoking(s, i) /\ Reports(s)

\* The uninvoke of s has begun.
Ending(s) ==
  \/ alive[s] = "stopping"
  \/ /\ hook[Main] # Rest
     /\ hook[Main].type = "smttBeforeUnInvoke" /\ hook[Main].what = s

Entered(s) ==
  LET x == hook[s].what IN
  /\ Done(s, "smttBeforeEnter")
  /\ config' = [config EXCEPT ![s] = @ \cup {x}]
  /\ late' = [late EXCEPT ![s] = IF Ending(s) THEN @ \cup {x} ELSE @]
  /\ afterEnteringState(s, x)
  /\ UNCHANGED <<alive, lockVars, picture, logged, sent, called, failed, hooks>>

Exited(s) ==
  /\ Done(s, "smttBeforeExit")
  /\ config' = [config EXCEPT ![s] = @ \ {hook[s].what}]
  /\ afterExitingState(s, hook[s].what)
  /\ UNCHANGED <<alive, lockVars, picture, historyVars, hooks>>

Executed(s) ==
  /\ \/ Done(s, "smttBeforeExecContent") /\ afterExecutingContent(s)
     \/ Done(s, "smttBeforeTakingTransition") /\ afterTakingTransition(s)
  /\ UNCHANGED <<chartVars, lockVars, picture, historyVars, hooks>>

Invoked(s) ==
  LET i == hook[s].what IN
  /\ Done(s, "smttBeforeInvoke")
  /\ alive' = [alive EXCEPT ![i] = "running"]
  /\ afterInvoking(s, i)
  /\ UNCHANGED <<config, lockVars, picture, historyVars, hooks>>

\* USCXMLInvoker cancels the invoked chart and joins its thread.
CancelInvoked(s) ==
  LET i == hook[s].what IN
  /\ Done(s, "smttBeforeUnInvoke")
  /\ alive' = [alive EXCEPT ![i] = "stopping"]
  /\ hook' = [hook EXCEPT ![s].type = "joining"]
  /\ UNCHANGED <<config, lockVars, picture, historyVars, hooks>>

\* The thread of an uninvoked chart ends after its step; no exit is reported.
InvokedEnds(i) ==
  /\ alive[i] = "stopping" /\ hook[i] = Rest
  /\ alive' = [alive EXCEPT ![i] = "none"]
  /\ config' = [config EXCEPT ![i] = {}]
  /\ UNCHANGED <<hook, lockVars, picture, historyVars, hooks>>

Uninvoked(s) ==
  /\ Done(s, "joining") /\ alive[hook[s].what] = "none"
  /\ afterUninvoking(s, hook[s].what)
  /\ UNCHANGED <<chartVars, lockVars, picture, historyVars, hooks>>

Return(s) ==
  /\ \E t \in {"smttAfterEnter", "smttAfterExit", "smttAfterExecContent",
               "smttAfterTakingTransition", "smttAfterInvoke",
               "smttAfterUnInvoke", "log", "event"} : Done(s, t)
  /\ hook' = [hook EXCEPT ![s] = Rest]
  /\ UNCHANGED <<chartVars, lockVars, picture, historyVars, hooks>>

\* The constructor: with a remote monitor "@@@" clears all charts.
SequenceCheckingMonitor ==
  picture' = IF Remote THEN [s \in Session |-> {}] ELSE picture

\* ScxmlBase::start of the handle, and the end of its chart.
StartInterpreter ==
  /\ alive = [s \in Session |-> "none"]
  /\ alive' = [alive EXCEPT ![Main] = "running"]
  /\ SequenceCheckingMonitor
  /\ late' = [s \in Session |-> {}]
  /\ UNCHANGED <<config, hook, lockVars, logged, sent, called, failed, hooks>>

InterpreterEnds ==
  /\ Resting(Main) /\ \A i \in Session \ {Main} : alive[i] = "none"
  /\ alive' = [alive EXCEPT ![Main] = "none"]
  /\ config' = [config EXCEPT ![Main] = {}]
  /\ UNCHANGED <<hook, lockVars, picture, historyVars, hooks>>

\* What a session in a report, or in a step, goes on with.
Continue(s) ==
  \/ Reporting(s)
  \/ Entered(s) \/ Exited(s) \/ Executed(s) \/ Return(s)
  \/ Invoked(s) \/ CancelInvoked(s) \/ InvokedEnds(s) \/ Uninvoked(s)

Step(s) ==
  \/ EnterState(s) \/ ExitState(s) \/ TakeTransition(s) \/ ExecuteContent(s)
  \/ Log(s) \/ ProcessEvent(s) \/ Invoke(s) \/ Uninvoke(s)

Next ==
  \/ StartInterpreter \/ InterpreterEnds
  \/ \E s \in Session : Step(s) \/ Continue(s)

\* A thread that is inside a report is scheduled.
Fairness == \A s \in Session : WF_vars(Continue(s))
Spec == Init /\ [][Next]_vars /\ Fairness

------------------------------------------------------------------------------
(* Properties.                                                             *)

\* Log, remote editor and callbacks tell of entering, exiting, invoking and
\* uninvoking in one and the same order, over all sessions, and none tells of
\* more steps than another as long as every message could be sent.
ChannelsAgree ==
  owner = NoOne /\ ~failed => called = sent /\ sent = logged

Within(part, whole) ==
  \E f \in [DOMAIN part -> DOMAIN whole] :
    /\ \A i, j \in DOMAIN part : i < j => f[i] < f[j]
    /\ \A i \in DOMAIN part : part[i] = whole[f[i]]

\* A message that cannot be sent makes the later channels leave out a step that
\* the earlier ones tell of; they never tell of one the earlier ones omit, and
\* never in another order.
LaterChannelsOmit ==
  owner = NoOne => Within(called, sent) /\ Within(sent, logged)

\* With the message types of the editor it shows of a running chart the states
\* that are active, and besides them only states that an earlier session of
\* the same chart entered after its uninvoke had begun; of an ended one it
\* shows no other than these.
PictureFollowsCharts ==
  Remote /\ ~failed /\ Monitored("smttBeforeEnter") /\ Monitored("smttBeforeExit")
         /\ Monitored("smttBeforeUnInvoke") =>
    \A s \in Session :
      /\ Resting(s) /\ ~Ending(s) =>
           config[s] \subseteq picture[s] /\ picture[s] \subseteq config[s] \cup late[s]
      /\ s # Main /\ alive[s] = "none" => picture[s] \subseteq late[s]

\* The callbacks of two sessions never overlap, and neither do log callbacks.
CallbacksOneAtATime ==
  \A s, t \in Session : \A stage \in {"callback", "logging"} :
    At(s, stage) /\ At(t, stage) => s = t

\* What session s has to wait for before it goes on: for r to release a mutex,
\* or for the thread of r to end.
WaitsFor(s, r) ==
  \/ (At(s, "lock") \/ At(s, "base")) /\ owner = r
  \/ (At(s, "log") \/ At(s, "base")) /\ logger = r
  \/ Done(s, "joining") /\ hook[s].what = r /\ alive[r] # "none"

\* Sessions never wait for each other in a circle, over the two mutexes and the
\* join of an uninvoked chart: of any sessions one waits for none of them.
NoCircularWait ==
  \A S \in SUBSET Session : S # {} => \E s \in S : \A r \in S : ~WaitsFor(s, r)

\* No session keeps a mutex for ever, whatever the others report.
LocksAreReleased ==
  \A s \in Session : (owner = s \/ logger = s) ~> (owner # s /\ logger # s)

==============================================================================
