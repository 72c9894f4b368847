------------------------------- MODULE AppTimer -------------------------------
(***************************************************************************)
(* The stop watch behind GetAppMicroClock(): the time an interpreter has   *)
(* been running, pauses excluded (AppTimer.cpp).  Every operation holds    *)
(* the timer's mutex, so each is one step; the system clock `now' goes on  *)
(* between the steps, and inside pause(), which reads it twice.            *)
(*                                                                         *)
(* ScxmlBase calls start() in start(), pause() in pause() and resume() in  *)
(* resume(), in the order the usage chart allows: pause when running,      *)
(* resume when paused.  stop() and reset() have no caller.                 *)
(***************************************************************************)
EXTENDS Integers

CONSTANTS
  MaxNow,   \* bound: the system clock of a behaviour
  MaxRead   \* bound: the time between the two clock reads of pause()

VARIABLES
  now,        \* high_resolution_clock::now(), 0 being its epoch
  active,     \* _active
  tpStart,    \* _tp_start
  tpPause,    \* _tp_pause
  tdElapsed,  \* _td_elapsed
  tdPaused,   \* _td_paused
  timerState, \* _state
  ran         \* history: the time passed since start() while not paused

timerVars == <<active, tpStart, tpPause, tdElapsed, tdPaused, timerState, ran>>
vars == <<now, timerVars>>

\* The types, where the two durations are never negative.
TypeOK ==
  /\ now \in Nat
  /\ active \in BOOLEAN
  /\ tpStart \in Nat /\ tpPause \in Nat
  /\ tdElapsed \in Nat /\ tdPaused \in Nat
  /\ timerState \in {"atStopped", "atStarted", "atPaused", "atResumed"}
  /\ ran \in Nat

Running == timerState \in {"atStarted", "atResumed"}

getTime == IF active THEN (now - tpStart) - tdPaused ELSE tdElapsed

Init ==
  /\ now = 1
  /\ active = FALSE
  /\ tpStart = 0 /\ tpPause = 0
  /\ tdElapsed = 0 /\ tdPaused = 0
  /\ timerState = "atStopped"
  /\ ran = 0

Start ==
  /\ active' = TRUE
  /\ tdElapsed' = 0 /\ tdPaused' = 0
  /\ tpStart' = now
  /\ timerState' = "atStarted"
  /\ ran' = 0
  /\ UNCHANGED <<now, tpPause>>

\* Broken variant: the elapsed time forgets the earlier pauses.
PauseForgetsPauses ==
  /\ Running
  /\ active' = FALSE
  /\ tpPause' = now
  /\ \E d \in 0 .. MaxRead :
       /\ now + d <= MaxNow
       /\ now' = now + d /\ tdElapsed' = now + d - tpStart
  /\ timerState' = "atPaused"
  /\ UNCHANGED <<tpStart, tdPaused, ran>>

\* _tp_pause and _td_elapsed come from two reads of the clock.
Pause ==
  /\ Running
  /\ active' = FALSE
  /\ tpPause' = now
  /\ \E d \in 0 .. MaxRead :
       /\ now + d <= MaxNow
       /\ now' = now + d /\ tdElapsed' = (now + d - tpStart) - tdPaused
  /\ timerState' = "atPaused"
  /\ UNCHANGED <<tpStart, tdPaused, ran>>

\* Broken variant: only the last pause is taken off.
ResumeOverwrites ==
  /\ timerState = "atPaused"
  /\ active' = TRUE
  /\ tdPaused' = now - tpPause
  /\ timerState' = "atResumed"
  /\ UNCHANGED <<now, tpStart, tpPause, tdElapsed, ran>>

Resume ==
  /\ timerState = "atPaused"
  /\ active' = TRUE
  /\ tdPaused' = tdPaused + (now - tpPause)
  /\ timerState' = "atResumed"
  /\ UNCHANGED <<now, tpStart, tpPause, tdElapsed, ran>>

\* Time passes outside the timer.
Tick ==
  /\ now < MaxNow
  /\ now' = now + 1
  /\ ran' = IF Running THEN ran + 1 ELSE ran
  /\ UNCHANGED <<active, tpStart, tpPause, tdElapsed, tdPaused, timerState>>

Next ==
  \/ Start \/ Pause \/ Resume
  \/ Tick

Spec == Init /\ [][Next]_vars

------------------------------------------------------------------------------
(* Properties                                                              *)

\* The clock a chart reads is the time the interpreter has run, whatever the
\* number and length of the pauses: exactly while it runs, and while it is
\* paused with at most the time pause() took between its two clock reads.
ClockCountsRunningTime ==
  /\ active => getTime = ran
  /\ timerState = "atPaused" => getTime \in ran .. ran + MaxRead

\* The clock goes back, other than to zero at a start, by no more than that
\* time: at the resume(), where the time counted while pausing is taken off.
StepBack == getTime' >= getTime - MaxRead \/ (timerState' = "atStarted" /\ getTime' = 0)
==============================================================================
