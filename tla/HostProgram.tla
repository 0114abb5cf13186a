---------------------------- MODULE HostProgram ----------------------------
(***************************************************************************)
(* A program that gives its main thread to main_common_init                *)
(* (app/main_common.cpp), as the writer example and the ROS converters do: *)
(* open, run until a signal stops the loop, and exit(1) when the port      *)
(* cannot be opened or fails.  Whatever other threads do at the time of an *)
(* exit(1) or a kill, they do nothing more.                                *)
(***************************************************************************)
EXTENDS SerialHost

VARIABLES
  signalled,   \* a signal is with asio, its handler not run yet
  error,       \* an exception left main_common_run
  ended        \* "no", "ok": main returned, "error": exit(1), "killed"

programVars == <<signalled, error, ended>>

ProgramInit ==
  /\ HostInit
  /\ signalled = FALSE /\ error = FALSE
  /\ ended = "no"
-----------------------------------------------------------------------------
\* Through main_common_open and into main_common_run.
Opens ==
  /\ ended = "no"
  /\ OpenPort \/ InstallSignals \/ Run
  /\ UNCHANGED programVars

\* The port cannot be opened: exit(1).
OpenFails ==
  /\ ended = "no" /\ loop = "before" /\ serial = "null"
  /\ ended' = "error"
  /\ UNCHANGED <<hostVars, signalled, error>>

Loops ==
  /\ ended = "no"
  /\ LoopStep \/ Flush
  /\ UNCHANGED programVars

LoopFails ==
  /\ ended = "no"
  /\ PortError
  /\ error' = TRUE
  /\ UNCHANGED <<signalled, ended>>

\* The signal_set's handler, on the loop.
HandleSignal ==
  /\ ended = "no" /\ Dispatching /\ signalled
  /\ Stop
  /\ signalled' = FALSE
  /\ UNCHANGED <<error, ended>>

\* main_common_init caught what left the loop: exit(1).
ExitsOnError ==
  /\ ended = "no" /\ loop = "over" /\ error
  /\ ended' = "error"
  /\ UNCHANGED <<hostVars, signalled, error>>

InitReturned == ended = "no" /\ loop = "over" /\ ~error

\* A signal: asio's while g_signals stands, else the default action.
Interrupt ==
  IF signals
  THEN signalled' = TRUE /\ UNCHANGED ended
  ELSE ended' = "killed" /\ UNCHANGED signalled
=============================================================================
