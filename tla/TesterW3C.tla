----------------------------- MODULE TesterW3C ------------------------------
(***************************************************************************)
(* The two W3C test runners of the repository: a behaviour is one of the   *)
(* C++ Builder window or one of the Qt window.  They share the list, the   *)
(* handle and its run (W3CTests) and differ in what a special test, the    *)
(* progress bar and the end of the tests mean.                             *)
(***************************************************************************)
EXTENDS W3CTests

VARIABLE window  \* the runner this behaviour is of

VCL == INSTANCE TesterW3CVCL
Qt  == INSTANCE TesterW3CQt

RunnerInit == Init /\ window \in {"VCL", "Qt"}

\* Each step is one of the window, of the interpreter thread or of the user.
OfWindow ==
  /\ UNCHANGED window
  /\ \/ window = "VCL" /\ VCL!WindowNext
     \/ window = "Qt" /\ Qt!WindowNext
OfRun ==
  /\ UNCHANGED window
  /\ \/ window = "VCL" /\ VCL!RunNext
     \/ window = "Qt" /\ Qt!RunNext
OfUser ==
  /\ UNCHANGED window
  /\ \/ window = "VCL" /\ VCL!UserNext
     \/ window = "Qt" /\ Qt!UserNext

Next == OfWindow \/ OfRun \/ OfUser

\* The system runs the window's event loop and the interpreter thread; nobody
\* has to click.
FairSpec ==
  /\ RunnerInit /\ [][Next]_<<vars, window>>
  /\ WF_<<vars, window>>(OfWindow) /\ WF_<<vars, window>>(OfRun)

\* The outcome that arrives from another thread, perhaps after the user stopped,
\* reset or restarted the tests, is shown for the test and the run it belongs to.
ResultsAreTheTestsOwn ==
  IF window = "VCL" THEN ShownAsRun(VCL!Good) ELSE ShownAsRun(Qt!Good)

\* When the Qt window says that all tests were completed, every test has a
\* result, however often the user stopped, reset and started them.
CompletedMeansAll == window = "Qt" => AllWereCompleted

\* Each outcome starts the next test: whatever the user clicks and whichever run
\* the outcome is of, nothing is left to wait for only when there is no test left.
OutcomesAreHandedOn == [][HandedOn]_<<vars, window>>
=============================================================================
