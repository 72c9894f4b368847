# Verification of UscxmlCLib

UscxmlCLib is a C library around the uSCXML state chart interpreter. An
application opens *handles*, starts, pauses, stops and closes the interpreter
behind each of them, triggers events, shares global data with the chart, and is
called back when the chart changes its configuration. This directory holds TLA+
models of that library, the TLC configurations that check them on small
instances, and theorems about them that TLAPS proves for every instance.

The models are written from the code in `src/Src/UscxmlCLibSrc` (2 500 lines of
C++), read with the header `src/Include/UscxmlCLib.h` and the chart that documents
the library, `src/Examples/StateCharts/UscxmlCLibLogic.scxml`, and from the three
example applications that have logic of their own: the W3C test runners
`src/Examples/BCB/TesterW3C` and `src/Examples/Qt/TesterW3C`, and the room
thermostat `src/Examples/BCB/SalusRT500Sim` with its chart. uSCXML, libevent and
boost are not part of the repository; what the code relies on of them is modelled
from its use, and marked `external` in the map of `PROJECT.json`.

Both the library and these applications are modelled with the order in which
threads, callbacks and posted messages reach them, which is where their tests
(one fixed sequence of calls in `GlobalTestLibrary`) do not look.

In what follows *Base* is `UscxmlClibBase.cpp`, *Export* `UscxmlCLibExport.cpp`,
*Queue* `UscxmlCLibPausableQueue.cpp`.

Contents: 1 the system, 2 modules, 3 runs, 4 proofs, 5 bounds, fairness and
assumptions, 6 disagreements found, 7 what is not modelled, 8 plan.


## 1. The system

### Threads

| thread | what it executes |
|---|---|
| application | every exported call; more than one thread of the application may call |
| interpreter thread, one per started handle | `ScxmlBase::blockingQueue`: `step()`, `setState()`, monitor callbacks, the stopped callback |
| threads of invoked charts, made by uSCXML | `step()` of the invoked charts, with the same monitor and the same global data |
| event loop, one per delayed event queue | hands delayed events to their chart when they become due |

A callback may itself call the library.

### Components

**Handle life cycle** (Base 14-250, Export 126-342, 377-395). State: `_state`,
`_interpreter`, `_interpreter_thread_ptr`, `_OnInterpreterStopped` and
`_queue_ptr`. Operations: open, register callbacks, start,
pause, resume, stop, wait, close, trigger. `start()` joins the thread of the
previous session, makes a new interpreter and, unless AsyncStart, executes it up
to its first stable configuration before it spawns the thread. `close()` cancels
when `_state` says so and joins. Hard: `_state` and the thread pointer are read
without a common lock, the thread may run before its address is stored, the chart
may end at any step and before there is a thread, every step of `start()` may
throw, callbacks call back. Correct when: the thread owns its interpreter until
it is joined, each end is announced once, stop and close return, a started handle
takes events, and the handle follows its documented usage chart.

**Application clock** (`AppTimer.cpp`). State: two instants, two durations, a
mutex. Read by charts through `GetAppMicroClock()`. Hard: `pause()` reads the
system clock twice; several pauses add up. Correct when it shows the running time
without the pauses.

**Pausing and delayed event queues** (Base 167-203, Queue). State: per queue
`_pausedAt`, `_isStarted` and the due times in `_callbackData`; the weak list
`_nestedDelayQueue` of the queues of invoked charts. `pause()` and `resume()` of
the handle walk the nested queues, then the main one; each queue stops its event
loop and, on resume, moves all due times by the length of the pause. Hard: charts
send, cancel, invoke and end during the walk, and events become due. Correct when
no delay is cut short, a paused interpreter is silent, and delays and clock agree.

**Global data** (Base 252-351, Export 397-615, `UscxmlLuaDataModelEx.cpp`,
`UscxmlClibExtensions.cpp`). State: `_global_data_storage`, trees of
`uscxml::Data` under a mutex. Written by the application (`usclib_SetGlobal…`,
`usclib_Trigger…Event`) and by charts (`SetGlobal` in Lua, `<setvalue>`,
`GlobalDataIOProcessor`), read by both. Each write is stored under the lock and
reported to the application by a callback outside it. Hard: the order of storing,
reporting and queueing differs between callers; a path conversion may throw in the
middle of the walk. Correct when reading gives what was written last, an event
that carries data finds it stored, and reports and storage agree in the end.

**Exported API: handle registry, error codes, last error** (Export). State:
`g_INTERPRETERS`, the objects behind the handles, `g_LAST_ERROR`, none of them
locked. A handle is the address of its object: after a close the address may be
given to the next object. Hard: several application threads with handles of their
own, and callbacks that call with a handle that is just being closed: the close
erases the handle first, then deletes the object, whose destructor joins the very
thread the callback runs on. Correct when a call that has passed the check works
on the object its handle was opened for until it returns, and close returns.

**SequenceCheckingMonitor** (Base 362-680). Called by uSCXML around every event,
state, transition and invoke; one recursive mutex, inherited from uSCXML's monitor,
for all sessions; filters by message type; writes the log, sends UDP messages to the
remote editor, calls the application back. Hard: the order of the three, a socket
that throws in the middle of a hook, messages of an ending chart after its clear
message, the locks held during user callbacks. Correct when the three channels tell
one story, the editor shows the states that are active, callbacks do not overlap,
sessions do not wait for each other in a circle and no lock is kept.

**Logger** (`UscxmlClibLogger.cpp`): one mutex held during the user's log
callback, taken inside the monitor's.

**TesterW3C** (`UnitTesterW3C.cpp` for C++ Builder, `mainwindow.cpp` for Qt). State:
the list of tests with a state each, a progress bar, the buttons, one handle that
starts asynchronously. The window's thread starts a test; the stopped callback posts
its outcome from the interpreter thread; the handler of the outcome starts the next
test. Hard: outcomes that are pending or on their way when the user stops, resets,
restarts or closes; each start joins the thread that posted. Correct when a result
belongs to the last run of its test, the chain does not break off, and "All tests
were completed" is true.

**SalusRT500Sim, data model** (`UnitSalusDataModel.cpp`). State: a clock, two weekly
programs, the item that is being set up, a temporary temperature. Changed by events
that have the names of its methods, and by documents, which may fail at any value.
Hard: long sequences of edits, each of which keeps to its neighbours' limits;
documents that leave a program half new and half old; the search for the item in
effect. Correct when the items of a program are in order, except where a document
failed between them, and the item in effect is the one that started last.

**SalusRT500Sim, window and callbacks** (`UnitInterpreterCallbacks.cpp`,
`UnitSalusRT500.cpp`, `SalusRT500Logic.scxml`). State: temperature mode, the flashing
pictures, the global `Inp.isFreezeMode` that the chart reads back. The chart's
states and events reach the window as notifications that are handled later. Correct
when the window shows the chart once it has caught up and, while the snow flake
flashes, the chart knows of the freeze mode. A window that is being destroyed is left alone: each handler looks first
whether the window is still there (`closing` in the guard of `Notify`).

**Global logging**, **options**, **HTTP server and cleanup**, **Lua table
utilities**, **DLL entry point**: set-up, copying and formatting.

### Interactions

```
 TesterW3C, SalusRT500Sim
     |  ^ posted outcomes, notifications (handled later, on the window's thread)
     v  |
 application --calls--> Export --(registry lookup)--> ScxmlBase
     ^                                                |   |   |
     |                                     spawns/joins   |   +-- AppTimer
     |  stopped callback                        v         +------ delay queues (main, nested)
     +------------------------- interpreter thread <--- events when due ---+
     |  data change callback          |     ^
     +------------- global data <-----+     +-- external queue <-- receive() / <send>
     |  enter, exit, invoke, event    |
     +------------- monitor <---------+--> logger --> log callback
                       +--> remote editor (UDP)
```


## 2. Modules

| module | models | composed with |
|---|---|---|
| `UscxmlCLibLogic` | the documented usage chart of one handle (abstract specification) | - |
| `ScxmlBase` | the life cycle of one handle, in the steps of its two threads | implements `UscxmlCLibLogic` (`FollowsChart`, refinement mapping `phaseOfHandle`) |
| `AppTimer` | the stop watch | - |
| `InterpreterPause` | `pause()` and `resume()` over clock and queues | contains `AppTimer` by INSTANCE (`Timer!Pause`, ...) |
| `DataStore` | the tree of global data and its paths | - |
| `GlobalData` | the order of storing, reporting and queueing between threads | writes are identities; `DataStore` says what a write does |
| `Monitor` | the monitor's hooks, the logger and the remote editor, for a chart and the charts it invokes | - |
| `HandleRegistry` | the exported calls on several handles, by several application threads and their callbacks | the methods are one step; `ScxmlBase` says what they do |
| `W3CTests` | the list of tests, the handle and its run, common to the two test runners | the run is `ScxmlBase`'s with AsyncStart, reduced to what a runner sees |
| `TesterW3CVCL`, `TesterW3CQt` | the handlers of the two windows | EXTENDS `W3CTests` |
| `TesterW3C` | either window | contains both by INSTANCE (`VCL!WindowNext`, `Qt!WindowNext`) |
| `SalusDataModel` | the data of the thermostat | - |
| `SalusWindow` | the thermostat's chart, its notifications and its window | the mode is `SalusDataModel`'s `_temperatureMode` |
| `MC…` | instances for TLC: values of constants, symmetry | EXTENDS the module |
| `…Proofs` | inductive invariants, lemmas, theorems: of `ScxmlBase`, `InterpreterPause` with its `AppTimer`, `DataStore`, `GlobalData`, `Monitor`, `HandleRegistry`, `TesterW3C`, and `SalusProofs` of `SalusDataModel` and `SalusWindow` | EXTENDS the module |

Every definition that stands for code is listed under `map` in `PROJECT.json`
with the lines it was translated from. Definitions whose comment begins with
"Broken variant" are no part of any specification: each is the definition that
follows it with a plausible mistake, and the property it breaks is listed
under `mutants`.

### ScxmlBase

One application thread, whose position inside a library call is `pc` and whose
call is `op`; one interpreter thread per *session*. A session is one successful
`fromXML`/`fromURL`, and `interp`, `threadPtr`, `thread[s]` all name sessions, so
that an interpreter or a thread pointer left from an earlier start is
distinguishable. The two threads interleave at every access to the members they
share:

| code | actions |
|---|---|
| `CHECK_INTERPRETER_VALID` and the try/catch of each export | `InvalidCall`, and the guards `Idle`, `ValidHandle` |
| `start()`: `waitForStopped()` | `StartInterpreter`, `WaitForStopped` |
| ... new interpreter, `_state` reset, new queue | `Load`, `LoadFails` |
| ... validation, remote monitor socket | `Validate`, `ValidateFails` |
| ... synchronized load, one `step()` per action | `SyncStep`, `SyncThrows`, `FinishedAtLoad` |
| ... `new std::thread`, then the assignment | `Spawn`, `AssignThread` |
| `close()`: read `_state`; cancel; join | `CloseCheck`, `CloseCancel`, `WaitForStopped`, `Destroy` |
| `receive()` | `TriggerEvent` (the tests), `Receive` (the queue) |
| `blockingQueue()` | `Step`, `SetState`, `ErrorEvent`, `TestCallback`, `CallCallback`, `CallbackReturns` |
| calls made by callbacks on the interpreter thread or during the load | `CallbackTriggerEvent`, `CallbackStopInterpreter` |

The chart is abstracted to how far its microstepper is (`new`, `busy`, `stable`,
`final`, `cancelled`). `StepReturns` is what one `step()` does: a macrostep is any
number of events' worth of work collapsed to one microstep and the step that finds
the configuration stable, and a stable chart with an empty queue blocks.
`USCXML_MICROSTEPPED` stands for every state the code does not tell apart. The
stopped callback is registered and cleared as the header asks, when no thread is
on its way to it; `ReloadsCallback` says whether the compiled code reads
`_OnInterpreterStopped` once or twice for test and call, both of which a compiler
may produce for the unsynchronised access.

### AppTimer and InterpreterPause

`AppTimer` has the fields of the class and a history variable `ran`, the running
time counted tick by tick. `Pause` takes its two clock reads up to `MaxRead` apart.

`InterpreterPause` has the clock, the walk (`pc`, `visited`, `current`), the
queues (`alive`, `pausedAt`, `started`) and the delayed events (`queued`, `where`,
`due`). `Timer == INSTANCE AppTimer` says what a call does to the clock, and `Wait` is
a tick of it. One action per visit: `PauseQueue` sets `_pausedAt`, `StopLoop` is the end
of `stop()`, which joins the loop's thread, and between the two the loop still
fires; `ResumeQueue` moves the due times and restarts the loop. `Send`,
`CancelDelayed`, `Fire`, `Create`, `Expire` may come between any two of these.
`delay`, `waited`, `late`, `clock`, `unseen` are history. An event that fired or
was cancelled is forgotten. That the handle uses its clock only as `AppTimer` allows
is a theorem, `ClockIsAnAppTimer`.

### DataStore

`store` maps addresses (a global's name, then the children down to the node) to
atoms. `ChildOf` is what `std::stoi` makes of an element: two spellings of an
index are one child, and a number too large is `Unparsable`; `setGlobal` then
throws in the middle of its walk and leaves the nodes inserted before
(`ParsedPart`). Each operation holds the lock and is one step.

### GlobalData

Threads are the application and the sessions of one interpreter. A call is the
list of its remaining steps, `todo[t]`, in the order the code has them:

| code | steps |
|---|---|
| `usclib_SetGlobal…Data`, `SetGlobal` in Lua, `<setvalue>` | set, notify |
| `usclib_Trigger…Event` | set, notify, receive (only receive with DisableGlobalData) |
| `GlobalDataIOProcessor::eventFromSCXML` | receive, set, notify |

`Store` is the part of `setGlobal` under the lock, `Notify` the callback after it,
`Receive` the queueing. `StartInterpreter` and `SetState` are two steps because
with AsyncStart the application goes on between them, and `receive()` refuses
events until the second.


### Monitor

`hook[s]` is the report session `s` is making: its message type, what it is about and
how far it is. The stages are those of the hooks of the code:

| code | stages and actions |
|---|---|
| `bMonitor`, `HasCallback` of a hook | `Monitored`, `FirstStage`, `AfterLock` |
| the hook of uSCXML's `StateTransitionMonitor`, called first for some types | `BaseHook` |
| `std::lock_guard` on the recursive mutex | `Lock` |
| `LOG`, and in the logger its mutex, the log callback and the release | `LoggerLock`, `LoggerUnlock` |
| `send_to` | `Send`; `SendThrows` leaves the rest of the hook out and releases the lock |
| the application's callback, once for each parameter of an event | `Callback` |
| leaving the hook | `Unlock` |

Between its reports the chart enters, exits, invokes and uninvokes; an invoked chart
is a thread of its own, which goes on while its parent reports the uninvoke and is
joined after it (`CancelInvoked`, `InvokedEnds`, `Uninvoked`). `picture` is what the
remote editor, which is no part of the repository, shows from the messages it was
sent. `logged`, `sent` and `called` are the reports made in each channel, `late[s]`
the states `s` entered after its uninvoke had begun, `failed` that a message was not
sent.

### HandleRegistry

Callers are the application threads and the interpreter threads; the latter call from
callbacks, with their own handle. A call goes through `Check` (the look-up) and `Use`
(the method, which may throw: `Fail`), an open through `Insert`, a close through
`Erase`, `Delete` and `Join`. `object[a]` is the number of the object constructed at
address `a`, so that a handle whose address was given to the next object is told from
that one's. `failure` is the last call that failed and its code. The exported
functions that do the same with the object are one member of `Calls`.

### W3CTests, TesterW3CVCL, TesterW3CQt, TesterW3C

`gui` is what the window's thread does next: `idle` in its event loop, `process` an
outcome, `join` the last run's thread inside a call of the library, `load` the
current test, `announce` the numbers; `after` is where a join leads. `run` is the
thread of the last start: `undef` until its first `setState()`, a window in which
`close()` does not cancel it, then `stepping`, `cancelled`, `ended`, and `returned`
when the stopped callback has posted. `outcome` is history: what the last run of a
test came to, whatever the window shows. The two windows differ in what special tests
mean (the VCL window skips them, the Qt window runs them), in the progress bar (the
index of the node, the number of outcomes) and so in when they think they are done.

### SalusDataModel and SalusWindow

`SalusDataModel` has one action per method that is called by name. `loadFromXML`
assigns value by value: three of the clock, then hour, minute and temperature of each
item of the work days, then of the weekend. At a value that is missing or not a
number, or a node that is missing or has another number of items, it throws and keeps
what it has assigned; a document says after how many values that is (`reads`). `seams`
is history and read by no action: the items before which a document stopped being
read, as long as no later one has read their hour.

In `SalusWindow` the chart is reduced to the
states that matter to the handlers; `Transition` appends the notifications of all
states that are exited, then of those entered, to `notes`. `Notify` handles the first
one. `EventNotify` flips the mode and `SetFreezeFlag` writes the global afterwards
(`UnitInterpreterCallbacks.cpp:167` and `:168`): in between (`writing`) the window's
thread takes no other notification, and the chart goes on with the old flag.
`StrayFreezeMode` is the delayed event that was due when its state was left. The
chart's transition `Program.Reload` is left out: the application never sends that
event.


## 3. Runs

State counts are distinct states.

| run | instance | what it shows |
|---|---|---|
| `lifecycle_sync` | synchronized load, 3 sessions, queue 2, fairness; 443 739 states | ownership of the interpreter, one announcement per end, a started handle takes events, stop and close find the thread awake and return, the usage chart is followed |
| `async_stop_hangs` | AsyncStart, 1 session, fairness | **violated**: see section 6 |
| `close_clears_callback` | synchronized load, callback read twice, 1 session | **violated**: see section 6 |
| `interpreter_pause` | 1 delayed event, main and 2 nested queues, delays 1 and 2, 6 ticks, the two reads of the clock up to 1 apart; 1 557 434 states up to symmetry | the clock counts running time, and how far it may step back; no delay cut short, silence while paused, delays follow the clock |
| `data_store` | 3 writes, every path of up to 2 elements; 28 758 states | a read gives what was written last, under any spelling, also after writes that threw |
| `global_data` | application and 2 sessions, 2 globals, 3 calls, queue 2; 326 537 states | events find their data, reports arrive in order |
| `monitor` | a chart and one it invokes, 1 state each, 5 reports, the editor's message types, every callback, a socket that may throw at each message; 356 328 states | the channels agree, or the later ones tell less of the same; the editor shows the active states; callbacks do not overlap; nobody waits in a circle; locks are released |
| `handle_registry` | 2 application threads, 2 addresses, 3 objects; 61 878 states | calls use their object, what is found exists, close returns |
| `salus_data_model` | 3 items a week, hours 0-5, minutes 0-1, 2 days, 8 calls, a whole document and five that fail in the clock, inside either program and between them; 1 230 772 states | the program stays in order but at the seams, the item in effect started last |
| `salus_window` | up to 6 notifications pending before a step of the chart; 59 908 states | the window shows the chart, freeze is known while it is shown |
| `tester_w3c` | either window, 4 tests of which 1 is special, 6 clicks, fairness; 319 720 states | results belong to their runs, completion is announced truly (Qt), no step drops the chain of outcomes, every test gets its turn |

The properties, where their meaning is not obvious:

- `ThreadOwnsInterpreter`: a thread that is not finished executes the
  interpreter in `_interpreter`, of an object that exists and, but for the moment
  between spawn and assignment, has its address.
- `StoppedAnnouncedOnce`: never twice for a session; and once, when the session
  has ended, nothing is going on, and a callback was registered at its start.
- `StopWakesThread`: when `stop` or `close` joins, the wake-up is in the queue or
  the thread has its last step behind it. This is what makes `StopReturns` true;
  it is a safety property and therefore provable.
- `FollowsChart`: under `phaseOfHandle` every step of the model is a transition
  of the usage chart or changes no phase.
- `ClockStepsBackBounded`: the clock goes back only at a `resume()`, by no more
  than `pause()` needed between its clock reads, and at a start.
- `PauseSilences` excludes the charts invoked after `pause()` walked the list
  (`unseen`): `create()` does not look whether the interpreter is paused.
- `DelaysFollowClock` excludes events sent into a paused queue (`late`): they are
  moved by the whole pause and come late by the part before they were sent.
- `EventFindsItsData` is about events of the application and of the session
  itself. It does not hold for events between sessions, whose sender stores the
  data after it queued the event; no document promises that order.
- `ReportsArriveInOrder` is about globals with one writer. With two, the callback
  runs outside the lock and the last report may be of the first write.
- `ChannelsAgree`: as long as no message failed, and nobody is inside the monitor,
  log, editor and callbacks have been told the same sequence. `LaterChannelsOmit`
  says what is left when `send_to` throws: the callbacks' sequence is contained in
  the editor's and that in the log's, in the same order.
- `PictureFollowsCharts` allows the editor to go on showing states in `late`: the
  clear message of an uninvoked chart is sent before the chart is cancelled, so
  what it still enters is shown after it, and nothing clears it.
- `CallbacksOneAtATime`, `NoCircularWait` and `LocksAreReleased` belong together: the
  first needs the mutexes around the callbacks, the second an order in which they and
  the join of an uninvoked chart are waited for, the third that every path, also the
  throwing one, leaves them. A callback is taken to return without waiting; one that
  waits for another session adds an edge that `NoCircularWait` cannot exclude.
- `UsesItsObject` names the object by its number, not its address: a call that goes
  on with the next object at the same address violates it.
- `CloseReturns` is about a close that waits for a thread whose callbacks go on to
  call with the handle that is already erased; they fail and return.
- `ResultsAreTheTestsOwn`: what the window shows is the outcome of the last run of
  that test, although an outcome names only the test.
- `OutcomesAreHandedOn` is the step behind `EveryTestGetsItsTurn`: as long as an
  outcome is under way - of a run, posted, or in a handler's hands - no step leaves
  none, unless every test has a result, the tests were stopped, the window closed, or
  that step could not load its test. It says nothing of a window in which nothing is
  under way: after the last result Start enables Stop and starts nothing, and a Reset
  then leaves open tests that wait for Stop and Start.
- `CompletedMeansAll` is about the Qt window. The VCL window is done when the last
  node of the list is processed, and after a Reset in the middle of a run this is
  not the last result (section 6).
- `ProgramInOrder` says where the order of a program may be lost: only between items
  on two sides of a seam. After a document whose first two hours are 20 and 21 and
  whose third item has no hour, the defaults 6, 12, 16, 18, 22 are 20, 21, 16, 18,
  22: the seam is before the third item, 20 < 21 and 16 < 18 < 22 hold, and no edit
  breaks them. Plain order is false of the code, and of the model.
- `CurrentStartedLast` compares the result of the search from the end with the
  times, as long as the program of the day has no seam; `ProgramInOrder` is what
  makes the search right.
- `ShowsTheChart` and `FreezeIsKnown` are about the moments when no notification is
  pending. `FreezeIsKnown` holds even while the window's thread has still to write
  the flag for the last event, since the snow flake cannot flash then: a chart that
  took the event in `DisplayNormal` reports the entry of `DisplayNormal` after it.
  That the mode alone implies the flag is false: between the two statements, and
  while notifications wait, Up and Down still set a temporary temperature.


## 4. Proofs

TLC shows the properties on the instances above; the theorems hold for any number
of sessions, events, queues, globals, threads, objects, items, tests, clicks and
pending notifications, and any delays and times.

| theorem | says |
|---|---|
| `ScxmlBaseProofs!TypeCorrect` | `Spec => []TypeOK` |
| `ScxmlBaseProofs!OwnedInterpreter` | `Spec => []ThreadOwnsInterpreter`, with and without AsyncStart |
| `ScxmlBaseProofs!StopIsAnnouncedOnce` | `Spec => []StoppedAnnouncedOnce`, with and without AsyncStart |
| `ScxmlBaseProofs!HandleFollowsChart` | `Spec => FollowsChart`: the refinement, with and without AsyncStart |
| `ScxmlBaseProofs!SynchronizedStartAcceptsEvents` | `[]StartedAcceptsEvents` under `~AsyncStart` |
| `ScxmlBaseProofs!SynchronizedStopWakesThread` | `[]StopWakesThread` under `~AsyncStart` |
| `InterpreterPauseProofs!PauseTypeCorrect`, `!NothingFiresEarly`, `!PauseIsSilent`, `!ClockAndDelaysAgree` | `[]TypeOK`, `[]NeverEarly`, `[]PauseSilences`, `[]DelaysFollowClock` |
| `InterpreterPauseProofs!ClockIsAnAppTimer` | `Spec => Timer!Spec`: the clock of a handle is a stop watch as `AppTimer` specifies it |
| `InterpreterPauseProofs!ClockIsRunningTime`, `!ClockHardlyStepsBack` | `[]ClockCountsRunningTime`, `ClockStepsBackBounded` |
| `DataStoreProofs!DataStoreTypeCorrect`, `!AnswersAreLastWrites` | `[]TypeOK`, `[]AnswersFollowWrites` |
| `GlobalDataProofs!DataTypeCorrect`, `!DataIsThereWithTheEvent`, `!ReportsAreLastWrites` | `[]TypeOK`, `[]EventFindsItsData`, `[]ReportsArriveInOrder` |
| `MonitorProofs!MonitorTypeCorrect`, `!CallbacksDoNotOverlap`, `!NobodyWaitsInACircle`, `!ChannelsTellTheSame`, `!LaterChannelsTellLess`, `!EditorShowsTheCharts` | `[]TypeOK`, `[]CallbacksOneAtATime`, `[]NoCircularWait`, `[]ChannelsAgree`, `[]LaterChannelsOmit`, `[]PictureFollowsCharts` |
| `HandleRegistryProofs!RegistryTypeCorrect`, `!CallsUseTheirObject`, `!RegistryIsRight` | `[]TypeOK`, `[]UsesItsObject`, `[]RegistryMatchesObjects` |
| `SalusProofs!SalusTypeCorrect` | `[]TypeOK` |
| `SalusProofs!ProgramStaysInOrder` | `[]ProgramInOrder`, if the documents are in order (`FilesInOrder`), wherever they fail |
| `SalusProofs!EffectIsLastStarted` | `[]CurrentStartedLast`, if they also have minutes below an hour (`FileMinutes`), wherever they fail |
| `SalusProofs!WindowTypeCorrect`, `!CaughtUpWindowShowsTheChart`, `!FreezeIsKnownToTheChart` | `[]WindowTypeOK`, `[]ShowsTheChart`, `[]FreezeIsKnown` |
| `TesterW3CProofs!TesterTypeCorrect` | `FairSpec => []TypeOK` |
| `TesterW3CProofs!ResultsBelongToTheirTests`, `!CompletedIsComplete` | `[]ResultsAreTheTestsOwn`, `[]CompletedMeansAll`, under `UserWaits` |
| `TesterW3CProofs!ChainIsNotDropped` | `FairSpec => OutcomesAreHandedOn`, for every user |

The other assumptions are those of the constants, evaluated by TLC on every run:
`ConstantsAssumption` (kinds of the options and bounds), `PauseAssumption` (the main
queue is none of the nested ones, `None` is no queue, delays and bounds are naturals), `StoreAssumption` (elements name children or are
unparsable, values are trees: a node's parents are nodes), `GlobalDataAssumption`
(main session, invoked sessions and application are different threads),
`MonitorAssumption` (the main session is one of the sessions, a free mutex is not),
`RegistryAssumption` (an application thread is not an interpreter thread),
`SalusAssumption` (the defaults are a whole document), `NotesAssumption` (a bound is
a natural) and `TestsAssumption` (there is a test, special ones are tests).

`UserWaits` is a hypothesis of two theorems and not an assumption: without it they
are false. A user of the Qt window who clicks Stop and Start while an outcome is
pending gets it counted for the run that was started last (section 6, item 6). Types
and the chain of outcomes hold for every user.

Why the invariants have to be strengthened:

- **ScxmlBase.** `ThreadOwnsInterpreter` is not inductive: that a new start may
  replace `_interpreter` follows only from the join before it.
  `CallStructure` says which call can be at which step, `PointerStructure` that
  the thread pointer is null or the current session's and that no thread is left
  at the steps after a join, `StateStructure` what `_state` says of a thread that
  still steps: it is not terminal, and without AsyncStart never `USCXML_UNDEF`
  once a thread exists. The last is the fact `close()` relies on when it skips the
  cancel, and it is what AsyncStart breaks. The refinement needs `FreshQueue`
  besides: a handle that was stopped while paused has a queue that is not paused
  again by the time its next start returns. `AnnounceStructure` says of every
  session where its announcement is: due, on its way at one of the steps between
  the end of the chart and the callback, or made.
- **AppTimer.** (`TimerInv`) `Accounts`: start, pauses and run time add up to the present while
  it runs, and to the beginning of the pause while it is paused.
- **InterpreterPause.** `WalkStructure` says what a walk left behind in the queues
  it is done with; `DueCoversDelay` that the due time leaves at least what the
  event has not waited yet, measured from the moment its loop stopped;
  `DueKeepsUp` that it leaves no more than the delay still has by what the clock
  shows, measured from `_pausedAt`. The two reference points differ because the loop stops later than
  `_pausedAt` is set.
- **DataStore.** `StoreInvariant`: every address in the store is one of a node,
  nodes hang on nodes, and the atom at *every* address, with or without a node, is
  what the writes say of it. A throwing write adds nodes without atoms, for which
  the writes say the empty one.
- **GlobalData.** `CallStructure`: which call each thread can be in, and what it
  has done at each of its steps; `QueueStructure`: what is true of an event from
  the moment it is queued; `ReportStructure`: the last report of a global with one
  writer is its value, or that writer is about to make it.
- **Monitor.** `HookForm`, `Locks` and `Absent`: which stage of which report holds
  which mutex, and that charts that do not run report nothing.
  Who holds the logger's mutex waits for nobody, who holds the monitor's for that one
  at most, and who joins holds neither: therefore no circle. `ChannelStructure`:
  only the session that holds the monitor's mutex can be in the middle, and then the
  channels behind its stage lack exactly its report. `FailedStays`: a failure is
  never forgotten, so that the induction may be done while there was none.
  `OmitStructure`: the same without that hypothesis. A report that was begun may be
  missing at the end of every channel behind its stage, now or for good, and what is
  written next in all of them keeps each within the one before (`WithinBoth`,
  `WithinLonger`). `PictureStructure`: what the editor shows at each stage of an enter, an exit and
  an uninvoke, with the parent that waits for the join.
- **HandleRegistry.** `ClaimsLive` and `ClaimsApart`: every handle that is owned, or
  that an open or close is at work on, has its object, and no two of these have one
  address; `Found` and `ThreadsHaveObjects`: what is in the registry is claimed by
  somebody, and an interpreter thread, and so its callback, has an object until it
  is joined.
- **SalusDataModel.** `ProgramInOrder` is inductive. An edit keeps an hour away from
  its neighbours', and from those of all items that no seam divides from it. After a
  document two items without a seam between them have both been read, and are in the
  document's order, or neither has, and there was no seam between them before: if one
  has been read and the other has not, the last item that was (`LastOfItems`) has a
  seam behind it. That the search finds the last started item needs in addition that
  minutes are below an hour.
- **SalusWindow.** `ShowsTheChart` speaks of moments without notifications; what is
  inductive speaks of all. `NotesTellTheRest`: there is something the window has been
  told, a set of states and whether an event came early or late, that it shows
  (`Shows`), and the pending notifications lead from there to the state of the chart
  (`Leads`), each one legal where it stands: `DisplayFunctional` is exited only after
  the displays inside it, a display is entered only inside it. A transition appends
  what leads on (`ExitsLead`, `EntersLead`, `LeadsOn`), the window takes the first
  (`LeadsPastHead`). For `FreezeIsKnown` there is `FlagFollows` besides: in freeze
  mode the flag is set or about to be written, and while it is, the snow flake
  flashes only if more is pending - for an event that is the last notification was
  taken outside `DisplayNormal`, and the window knows that the chart has left it
  (`LastEventFindsNoSnow`).
- **TesterW3C.** `OneAtATime`: with a user who waits there is one run, or one outcome,
  or none; `RunOfAnOpenTest`: what is executed has no result in the list yet;
  `TrueOutcomes`: an outcome on its way is that of its test's last run; `CountedOnce`:
  the Qt window has counted no more outcomes than there are results, so that a full
  progress bar means a full list. `ChainInv`, which needs no such user: a window joins
  to go on idle only when it has stopped, and a run that is not closed will report. The handlers of the two windows are first brought
  into a common form.

Each proof has one lemma or step per action, one level down one per conjunct that
the action can disturb. None of the proved modules uses recursion.

Every invariant and action property of a passing run is stated by a theorem. Only
model-checked are liveness, which is out of the prover's reach together with ENABLED
(`StopReturns`, `LocksAreReleased`, `CloseReturns`, `EveryTestGetsItsTurn`), and the
two runs that are violated. Two of the theorems about `ScxmlBase` assume the synchronized load; the
others also cover AsyncStart, for which `ThreadOwnsInterpreter`,
`StoppedAnnouncedOnce` and `FollowsChart` have no passing run.


## 5. Bounds, fairness, assumptions

**Bounds.** `MaxSessions` 3: a handle is started, ended or stopped, restarted and
restarted again, or closed and opened in between, so that a stale pointer of the
session before the last would show. `MaxQueue` bounds only the events offered by
the application and its callbacks; the wake-up event of `cancel()` is always accepted. `MaxNow`
leaves room for a delay of 2 that is sent, paused twice and fired, with time before,
in and after each pause, and `MaxRead` for one tick between the two clock reads of a
pause (`InterpreterPause`). Two
nested queues suffice for one that is walked and one that is made meanwhile, or
for two at different places of the walk; one event suffices because no property or
step relates two events, and the proof has no such bound. `DataStore`: paths of
two elements have every kind of prefix of each other, three writes put one above,
at and below another. `GlobalData`: three calls by three threads, every pair of
kinds in every order. `Monitor`: the properties speak of single states and of pairs
of sessions, so one state and one invoked chart suffice; five reports (`MaxHooks`)
are enough to invoke, enter, uninvoke and invoke again, with a failure at each
message. `HandleRegistry`: with three objects for two addresses an address is used
again while calls with the old handle go on; `MadeCalls` takes one call that starts
the thread and one that callbacks make too, the other kinds differ in the code they
return only. `W3CTests`: four tests have the special one in front of, at and behind
the current one; six clicks allow start, stop, start, reset, stop and start.
`SalusDataModel`: three items have neighbours on both sides and room for two seams,
eight calls move items between their limits before, between and after two documents. `SalusWindow`: the chart
takes a step only while fewer than six notifications wait (`MaxNotes`), which leaves
it at least two whole transitions ahead of the window.

**Fairness.** `FairSpec` of `ScxmlBase` has weak fairness on `AppStep`, the steps
*inside* a library call, and on `ThreadStep(s)`, the steps of each interpreter
thread: the operating system schedules threads that can run. The steps at which a
thread waits (`WaitForStopped`, a `step()` of a stable chart with an empty queue)
are disabled meanwhile. Nothing is assumed of the application: it need not call
anything. That a busy chart reaches a stable configuration is in the model, since a
macrostep is one microstep long: a chart that loops for ever keeps `stop` waiting,
and the library can do nothing about it.

`Monitor` has weak fairness on `Continue(s)`: a thread inside a report is scheduled,
and an uninvoked chart ends after its step; no chart has to report anything.
`HandleRegistry` has weak fairness on the steps inside a call, and strong fairness on
`Join`, which is disabled while a callback is inside the library: this says that an
interpreter thread does not call back to back for ever, which the cancel before the
join sees to. `TesterW3C` has weak fairness on the steps of the window's thread
(`OfWindow`: the event loop takes what was posted) and on those of the interpreter
thread (`OfRun`); nobody has to click.

**Deadlock** is checked in `InterpreterPause`'s and `DataStore`'s runs. Those have time or writes that end at a bound; the checks pass because a
start or a throwing write stays possible. It is off for `ScxmlBase`, because
`usclib_WaitForInterpreterStopped` and a second `usclib_StartInterpreter` do block
for ever on a chart that waits for events (the comment at Base 39-40 says so), and
where the system may come to rest: `GlobalData`, when the application has made its
calls and the charts have taken their events; `Monitor`, `HandleRegistry`,
`SalusDataModel` and the test runners at their bounds or, as `SalusWindow`, when the
window is closed. That nobody waits for ever inside these is what their liveness
properties say.

**Other abstractions.** One application thread uses a handle. Only `ErrorEvent`,
which `blockingQueue` catches, is thrown by `step()` on the thread; any other
exception ends the process. The application pauses and resumes in the order of the
usage chart (the timer, unlike the queues, does not guard against another order).
Unsynchronised accesses to `_nestedDelayQueue`, `_callbackData` and
`g_INTERPRETERS` are taken as whole steps; as data races they are listed under
`hazards`. In `HandleRegistry` an application thread uses only handles it opened
itself. The callbacks of `Monitor` return: one that waits for another session is
the application's deadlock, listed under `hazards`.

The test runners' run has `UserWaits`: the user clicks only when no outcome is
pending. Windows gives posted messages to a thread before input, so for the VCL
window this is how it is; Qt promises no such order, and there it is an assumption
about how fast the user is. The documents of the thermostat are in order and have
minutes below an hour where a theorem says so; the code does not check them, and a
program that is saved with a seam in it is a document out of order. The exception of
`EncodeTime` for a time that is none (`UnitSalusDataModel.cpp:45-46`) is not
modelled; the code meets it only with documents that have such times.


## 6. Disagreements found

Shown by a run:

1. **`usclib_StopInterpreter` may hang after AsyncStart** (`async_stop_hangs`).
   `close()` (Base 149) cancels only if `_state` is not `USCXML_UNDEF`, and joins in
   any case. With AsyncStart the state is `USCXML_UNDEF` until the new thread's
   first `setState()`. A stop in that window joins a thread nobody wakes; the
   usage chart has stop lead from Started to Stopped
   (`UscxmlCLibLogic.scxml:31`). `SynchronizedStopWakesThread` proves that the
   synchronized load has no such window. In the same window `receive()` (Base 207)
   refuses events, which the usage chart takes in every state of Started
   (`UscxmlCLibLogic.scxml:32`).
2. **`usclib_CloseInterpreter` clears the stopped callback under the thread**
   (`close_clears_callback`). Export 149 sets it to null before the thread is
   stopped; the thread tests it and then calls it (Base 235-236) without a lock.
   The header demands that registration be complete before the start
   (`UscxmlCLib.h:176`).

Seen while modelling, without a run of their own (the models do what the code does):

3. `usclib_TriggerEvent` returns `ERROR_USCLIB_TRIGGER_INT` when it fails (Export
   394); the header has a code of its own for it (`UscxmlCLib.h:83`).
4. `usclib_GetDefaultInterpreterOptions` (Export 365) does not write `AsyncStart`,
   for which the header gives a default (`UscxmlCLib.h:138`).
5. The VCL test runner says "All tests were completed" when the node with the last
   index is processed (`UnitTesterW3C.cpp:282-302`). After a Reset while that test
   runs all others are unknown then, and are counted as failed.
6. The Qt test runner decides whether an outcome belongs to a stopped run by the
   Stop button at the time it is handled (`mainwindow.cpp:148-160`): after a quick
   Stop and Start the outcome of the stopped run is counted for the new one.
7. The thermostat takes the clock from a document as it is
   (`UnitSalusDataModel.cpp:168`), although the steps keep to the ranges of
   `UnitSalusDataModel.h:102-104`; `decrementTemporaryTemperature` has the guard of
   the increment (`UnitSalusDataModel.cpp:60`), so it does nothing at the upper limit
   and has no lower one.
   A document that fails inside a program leaves it half new and half old
   (`UnitSalusDataModel.cpp:179-183`, `:192-196`); until edits or another document
   set it right its items may be out of order, and the search not find the one that
   started last.
8. `Inp.isFreezeMode` stays 1 when the freeze mode ends because the display state is
   left: only an event writes the flag (`UnitInterpreterCallbacks.cpp:43`, `:168`).
   `FreezeIsKnown` is therefore an implication.


## 7. What is not modelled

- Several application threads on one handle: no document promises that this works.
  The data races on `g_INTERPRETERS`, `_nestedDelayQueue` and `_callbackData`.
- The text of `usclib_GetLastError`, the wording of log records and messages.
- The registration of callbacks other than the stopped callback on a handle that
  runs, `AppTimer::stop` and `reset` (no caller). `usclib_IsInterpreterInState` is a
  call of `HandleRegistry`; its answer is not.
- The copying of the interpreter options, global logging, HTTP server, clean-up, Lua
  table utilities, DLL entry point: set-up, copying or formatting without state the
  rest depends on.
- uSCXML, libevent and boost beyond what the code relies on.
- `GlobalTestLibrary` (a fixed sequence of calls) and the remaining examples, which
  show values of a chart without state of their own. Of SalusRT500Sim the captions
  and lamps that follow events one to one, the sound, and `saveToXML`; of TesterW3C
  the log window and its settings.


## 8. Plan

Done: the life cycle with its refinement of the usage chart, clock and pausing,
global data and their tree, the monitor with the logger, the exported calls on several
handles, the test runners and the thermostat.

What is left, in the order of importance:

1. The lock order of monitor, logger, global data and delayed queues in one module,
   with callbacks that call the library: no cycle, hence no deadlock.
2. `GetGlobalDef` over `DataStore`, with the node that a throwing write leaves.
3. Two application threads on one handle, if a document ever promises it: two joins
   of one thread.
4. The interpreter options and their defaults.
