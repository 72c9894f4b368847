----------------------------- MODULE SalusWindow -----------------------------
(***************************************************************************)
(* The room thermostat of the example SalusRT500Sim between its chart and  *)
(* its window: the interpreter thread reports every state that the chart   *)
(* exits or enters, and every event it takes, as a notification; the       *)
(* window's thread handles them later, in their order, and changes the     *)
(* temperature mode, the pictures and the global Inp.isFreezeMode, which   *)
(* the chart reads in the meantime (UnitInterpreterCallbacks.cpp,          *)
(* UnitSalusRT500.cpp, SalusRT500Logic.scxml).                             *)
(***************************************************************************)
EXTENDS Naturals, SequencesExt

CONSTANT MaxNotes \* bound: notifications waiting when the chart takes a step

ASSUME NotesAssumption == MaxNotes \in Nat

VARIABLES
  chart,     \* the state of the chart that tells the rest
  timer,     \* the event Timer.FreezeMode is in the chart's queue
  stray,     \* history: the chart has taken one outside DisplayNormal
  flag,      \* the global Inp.isFreezeMode is 1
  notes,     \* the pending notifications
  mode,      \* SalusDataModel::_temperatureMode
  writing,   \* TEventNotify has flipped the mode, the flag is to be written
  snow,      \* TimerFreeze is enabled: the snow flake flashes
  flame,     \* TimerFlame is enabled: the flame flashes
  shown,     \* all controls are shown
  files,     \* the user may open and save programs
  closing    \* g_Closing

window == <<mode, writing, snow, flame, shown, files>>
timers == <<timer, stray>>
simVars == <<chart, timers, flag, notes, window, closing>>

\* The states that matter around a state of the chart, from outside.
Path == [Off |-> <<>>,
         Test |-> <<"On", "Test">>,
         SleepMode |-> <<"On">>,
         DisplayNormal |-> <<"On", "Operative", "DisplayFunctional", "DisplayNormal">>,
         DisplayTemporary |-> <<"On", "Operative", "DisplayFunctional", "DisplayTemporary">>,
         TimeSetup |-> <<"On", "Operative">>,
         ProgSetup |-> <<"On", "Operative", "ProgSetup">>]

ChartState == DOMAIN Path
TemperatureMode == {"tmdNormal", "tmdTemporary", "tmdFreeze"}

Note == [kind : {"enter", "exit"},
         name : {"On", "Test", "Operative", "DisplayFunctional", "DisplayNormal",
                 "DisplayTemporary", "ProgSetup"}]
        \cup [kind : {"event"}, name : {"Timer.FreezeMode"}]

WindowTypeOK ==
  /\ chart \in ChartState
  /\ timer \in BOOLEAN /\ stray \in BOOLEAN
  /\ flag \in BOOLEAN
  /\ notes \in Seq(Note)
  /\ mode \in TemperatureMode /\ writing \in BOOLEAN
  /\ snow \in BOOLEAN /\ flame \in BOOLEAN /\ shown \in BOOLEAN /\ files \in BOOLEAN
  /\ closing \in BOOLEAN

WindowInit ==
  /\ chart = "Off"
  /\ timer = FALSE /\ stray = FALSE
  /\ flag = FALSE
  /\ notes = <<>>
  /\ mode = "tmdNormal" /\ writing = FALSE
  /\ snow = FALSE /\ flame = FALSE /\ shown = FALSE
  /\ files = TRUE
  /\ closing = FALSE

------------------------------------------------------------------------------
(* The chart, on the interpreter thread.                                   *)

Exited(path) == [i \in DOMAIN path |-> [kind |-> "exit", name |-> Reverse(path)[i]]]
Entered(path) == [i \in DOMAIN path |-> [kind |-> "enter", name |-> path[i]]]

\* Broken variant: only the innermost state that is entered is reported.
TransitionInnermost(from, depth, to, before) ==
  /\ chart \in from /\ ~closing
  /\ Len(notes) < MaxNotes
  /\ chart' = to
  /\ notes' = notes \o before \o Entered(<<to>>)
  /\ UNCHANGED <<flag, window, closing>>

\* A transition from one of the states from to the state to, within the first
\* depth states around them, reports the events before, then what it exits, then
\* what it enters.
Transition(from, depth, to, before) ==
  /\ chart \in from /\ ~closing
  /\ Len(notes) < MaxNotes
  /\ chart' = to
  /\ notes' = notes \o before \o Exited(SubSeq(Path[chart], depth + 1, Len(Path[chart])))
                    \o Entered(SubSeq(Path[to], depth + 1, Len(Path[to])))
  /\ UNCHANGED <<flag, window, closing>>

Powered == ChartState \ {"Off"}
Functional == {"DisplayNormal", "DisplayTemporary"}
Operative == Functional \cup {"TimeSetup", "ProgSetup"}

CheckPower ==
  \/ Transition({"Off"}, 0, "Test", <<>>)
  \/ Transition(Powered, 0, "Off", <<>>)

HardReset == Transition(Powered, 0, "Test", <<>>)

\* The test is over, or a button wakes the thermostat.
Operate == Transition({"Test", "SleepMode"}, 1, "DisplayNormal", <<>>)

Sleep == Transition(Operative, 1, "SleepMode", <<>>)

Setup ==
  \/ \E to \in {"TimeSetup", "ProgSetup"} : Transition(Functional, 2, to, <<>>)
  \/ Transition({"TimeSetup", "ProgSetup"}, 2, "DisplayNormal", <<>>)

\* A change of the room's temperature enters the state again.
Refresh == Transition({"DisplayNormal"}, 3, "DisplayNormal", <<>>)

\* The button of the light was pressed for three seconds.
TimerFreezeMode ==
  /\ chart = "DisplayNormal" /\ ~closing
  /\ timer' = TRUE
  /\ UNCHANGED <<chart, stray, flag, notes, window, closing>>

Taken == <<[kind |-> "event", name |-> "Timer.FreezeMode"]>>

FreezeMode ==
  /\ timer /\ timer' = FALSE
  /\ Transition({"DisplayNormal"}, 3, "DisplayNormal", Taken)
  /\ UNCHANGED stray

\* Leaving DisplayNormal cancels the event only as long as it is delayed: from the
\* queue the chart takes it in a state that has no transition for it.
StrayFreezeMode ==
  /\ timer /\ timer' = FALSE
  /\ chart # "DisplayNormal" /\ ~closing
  /\ Len(notes) < MaxNotes
  /\ notes' = notes \o Taken
  /\ stray' = TRUE
  /\ UNCHANGED <<chart, flag, window, closing>>

\* Up and Down set a temporary temperature, unless the flag says freeze mode.
UpOrDown ==
  \/ ~flag /\ Transition({"DisplayNormal"}, 3, "DisplayTemporary", <<>>)
  \/ Transition({"DisplayTemporary"}, 3, "DisplayTemporary", <<>>)

TemporaryExit == Transition({"DisplayTemporary"}, 3, "DisplayNormal", <<>>)

Chart ==
  /\ \/ CheckPower \/ HardReset \/ Operate \/ Sleep \/ Setup \/ Refresh
     \/ UpOrDown \/ TemporaryExit
  /\ UNCHANGED timers

------------------------------------------------------------------------------
(* The notifications, on the window's thread.                              *)

\* TEnterExitNotify::DoNotify.
Changed(state) == [kind |-> "enter", name |-> state]
Left(state) == [kind |-> "exit", name |-> state]

ModeAfter(note) ==
  CASE note = Left("DisplayFunctional")  -> "tmdNormal"
    [] note = Changed("DisplayTemporary") -> "tmdTemporary"
    [] note.kind = "event" -> IF mode = "tmdFreeze" THEN "tmdNormal" ELSE "tmdFreeze"
    [] OTHER -> mode

\* Broken variant: DisplayNormal hides nothing when it is left.
PicturesAfterNoExit(note) ==
  IF note = Changed("DisplayNormal")
  THEN snow' = (snow \/ mode = "tmdFreeze") /\ flame' \in BOOLEAN
  ELSE UNCHANGED <<snow, flame>>

\* The flame depends on temperatures, which the chart's states do not tell.
PicturesAfter(note) ==
  CASE note = Changed("DisplayNormal") -> snow' = (snow \/ mode = "tmdFreeze") /\ flame' \in BOOLEAN
    [] note = Left("DisplayNormal")    -> snow' = FALSE /\ flame' = FALSE
    [] OTHER                           -> UNCHANGED <<snow, flame>>

EnterExitNotify(note) ==
  /\ mode' = ModeAfter(note)
  /\ PicturesAfter(note)
  /\ shown' = IF note.name = "Test" THEN note.kind = "enter" ELSE shown
  /\ files' = IF note.name = "Operative" THEN note.kind = "enter" ELSE files
  /\ UNCHANGED <<flag, writing>>

\* Broken variant: the flag is written before the mode is flipped.
EventNotifyFlagFirst(note) ==
  /\ flag' = (mode = "tmdFreeze")
  /\ mode' = ModeAfter(note)
  /\ UNCHANGED <<writing, snow, flame, shown, files>>

\* TEventNotify::DoNotify flips the mode, and the chart goes on while it has not
\* yet written the flag.
EventNotify(note) ==
  /\ mode' = ModeAfter(note)
  /\ writing' = TRUE
  /\ UNCHANGED <<flag, snow, flame, shown, files>>

SetFreezeFlag ==
  /\ writing /\ writing' = FALSE
  /\ flag' = (mode = "tmdFreeze")
  /\ UNCHANGED <<chart, timers, notes, mode, snow, flame, shown, files, closing>>

Notify ==
  /\ ~writing
  /\ notes # <<>>
  /\ notes' = Tail(notes)
  /\ CASE closing -> UNCHANGED <<flag, window>>
       [] ~closing /\ Head(notes).kind = "event" -> EventNotify(Head(notes))
       [] OTHER -> EnterExitNotify(Head(notes))
  /\ UNCHANGED <<chart, timers, closing>>

\* The destructor: notifications that are pending, or come until the interpreter
\* has stopped, no longer find the window.
CloseForm ==
  /\ ~closing /\ ~writing
  /\ closing' = TRUE
  /\ \E last \in {<<>>, Exited(Path[chart])} : notes' = notes \o last
  /\ UNCHANGED <<chart, timers, flag, window>>

WindowNext ==
  \/ Chart \/ TimerFreezeMode \/ FreezeMode \/ StrayFreezeMode
  \/ Notify \/ SetFreezeFlag \/ CloseForm

WindowSpec == WindowInit /\ [][WindowNext]_simVars

------------------------------------------------------------------------------
(* Properties.                                                             *)

\* No notification is pending; the window may still be in the last one.
CaughtUp == notes = <<>> /\ ~closing

\* When the window has taken all notifications its pictures and its mode are
\* those of the chart's state: the snow flake flashes in freeze mode and in
\* DisplayNormal only, all controls are shown in the test only, programs can be
\* opened and saved in operation and not in sleep; unless an event Timer.FreezeMode
\* came too late, the mode is temporary when a temporary temperature is set, and
\* normal outside the two displays.
ShowsTheChart ==
  CaughtUp =>
    /\ snow = (chart = "DisplayNormal" /\ mode = "tmdFreeze")
    /\ flame => chart = "DisplayNormal"
    /\ shown = (chart = "Test")
    /\ chart \in Operative => files
    /\ chart = "SleepMode" => ~files
    /\ ~stray => /\ chart = "DisplayTemporary" => mode = "tmdTemporary"
                 /\ chart \notin Functional => mode = "tmdNormal"

\* While the snow flake flashes and no notification is pending the chart knows of
\* freeze mode, in the state in which it asks for it: the buttons Up and Down are
\* without effect.  (With the mode alone it does not hold: between the flip of the
\* mode and the write of the flag they still set a temporary temperature.)
FreezeIsKnown == CaughtUp /\ snow => chart = "DisplayNormal" /\ flag
==============================================================================
