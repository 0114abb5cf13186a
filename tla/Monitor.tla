------------------------------ MODULE Monitor ------------------------------
(***************************************************************************)
(* The monitor (app/monitor/main.cpp).  With its console the main thread   *)
(* runs the terminal interface (tui_console::run), a second thread the     *)
(* serial loop, and whichever ends first makes the other one end; without, *)
(* main runs the loop itself.  Foxglove and recording are started before   *)
(* and shut down after either.  The interface's own screen is in           *)
(* TuiConsole; here it is its life cycle.  FTXUI is external: Exit() ends  *)
(* the loop running or about to run, and a signal during the loop ends it  *)
(* and is raised again afterwards.                                         *)
(***************************************************************************)
EXTENDS SerialHost, FoxgloveViz

VARIABLES
  console,          \* neither --no-console nor an output that is no terminal
  main,             \* "open", "ui", "stop", "join", "close", "over"
  serial_thread,    \* run_serial, on its thread or, without console, main's
                    \* own: "none", "running", "leaving", "done"
  ui,               \* tui_console::run: "before", "ready", "looping", "unwinding", "over"
  g_app,            \* not NULL
  g_exit_requested,
  quitting,         \* the App has been told to Exit()
  caught,           \* a signal FTXUI took and will raise again
  signalled,        \* a signal is with asio, its handler not run yet
  serial_error,     \* the exception's text is not empty
  ended             \* "no", "ok", "error", "killed"

monitorVars == <<main, serial_thread, ui, g_app, g_exit_requested, quitting,
                 caught, signalled, serial_error, ended>>
outputVars == <<console, vizVars>>
allVars == <<hostVars, monitorVars, outputVars>>

Init ==
  /\ HostInit /\ VizInit
  /\ console \in BOOLEAN
  /\ main = "open" /\ serial_thread = "none" /\ ui = "before"
  /\ g_app = FALSE /\ g_exit_requested = FALSE /\ quitting = FALSE
  /\ caught = FALSE /\ signalled = FALSE /\ serial_error = FALSE
  /\ ended = "no"

Running == ended = "no"
-----------------------------------------------------------------------------
MainOpens ==
  /\ Running /\ main = "open"
  /\ OpenPort \/ InstallSignals
  /\ UNCHANGED <<monitorVars, outputVars>>

\* "return 1" before any thread or interface exists.
OpenFails ==
  /\ Running /\ main = "open" /\ serial = "null"
  /\ ended' = "error"
  /\ UNCHANGED <<hostVars, outputVars, main, serial_thread, ui, g_app,
                 g_exit_requested, quitting, caught, signalled, serial_error>>

\* Foxglove and recording are started, then run_serial.
MainStarts ==
  /\ Running /\ main = "open" /\ signals
  /\ StartViz
  /\ main' = IF console THEN "ui" ELSE "join"
  /\ serial_thread' = "running"
  /\ UNCHANGED <<hostVars, console, ui, g_app, g_exit_requested, quitting,
                 caught, signalled, serial_error, ended>>

\* run_serial: main_common_run to its end.
SerialRuns ==
  /\ Running /\ serial_thread = "running"
  /\ Run \/ LoopStep
  /\ serial_thread' = IF loop' # "over" THEN "running"
                       ELSE IF console THEN "leaving" ELSE "done"
  /\ UNCHANGED <<outputVars, main, ui, g_app, g_exit_requested, quitting,
                 caught, signalled, serial_error, ended>>

\* The port fails; run_serial will catch what Cleanup lets pass.
SerialFails ==
  /\ Running /\ serial_thread = "running"
  /\ PortError
  /\ serial_error' = TRUE
  /\ UNCHANGED <<outputVars, main, serial_thread, ui, g_app, g_exit_requested,
                 quitting, caught, signalled, ended>>

LineTakes ==
  /\ Running /\ Flush /\ UNCHANGED <<monitorVars, outputVars>>

\* Mutant: a request without an App to tell is forgotten.
RequestExitIfApp ==
  /\ UNCHANGED g_exit_requested
  /\ quitting' = (quitting \/ g_app)

\* tui_console::request_exit, under g_mutex.
RequestExit ==
  /\ g_exit_requested' = TRUE
  /\ quitting' = (quitting \/ g_app)

SerialThreadRequestsExit ==
  /\ Running /\ serial_thread = "leaving"
  /\ RequestExit
  /\ serial_thread' = "done"
  /\ UNCHANGED <<hostVars, outputVars, main, ui, g_app, caught, signalled,
                 serial_error, ended>>

\* tui_console::run up to the loop: not entered when exit was requested before.
UiBegins ==
  /\ Running /\ main = "ui" /\ ui = "before"
  /\ IF g_exit_requested
     THEN ui' = "over" /\ main' = "stop" /\ UNCHANGED g_app
     ELSE ui' = "ready" /\ g_app' = TRUE /\ UNCHANGED main
  /\ UNCHANGED <<hostVars, outputVars, serial_thread, g_exit_requested,
                 quitting, caught, signalled, serial_error, ended>>

UiLoops ==
  /\ Running /\ ui = "ready"
  /\ ui' = "looping"
  /\ UNCHANGED <<hostVars, outputVars, main, serial_thread, g_app,
                 g_exit_requested, quitting, caught, signalled, serial_error,
                 ended>>

\* Input while looping: a command is sent, quit or exit, Ctrl-C.
UserCommands ==
  /\ Running /\ ui = "looping" /\ ~quitting
  /\ Send
  /\ UNCHANGED <<monitorVars, outputVars>>

UserQuits ==
  /\ Running /\ ui = "looping" /\ ~quitting
  /\ \/ RequestExit
     \/ quitting' = TRUE /\ UNCHANGED g_exit_requested
  /\ UNCHANGED <<hostVars, outputVars, main, serial_thread, ui, g_app, caught,
                 signalled, serial_error, ended>>

\* asio's handler, or the default action when it is not installed.
Raise ==
  IF signals
  THEN signalled' = TRUE /\ UNCHANGED ended
  ELSE ended' = "killed" /\ UNCHANGED signalled

\* SIGINT or SIGTERM from outside.
Signal ==
  /\ Running
  /\ IF ui = "looping"
     THEN /\ quitting' = TRUE /\ caught' = TRUE
          /\ UNCHANGED <<signalled, ended>>
     ELSE Raise /\ UNCHANGED <<quitting, caught>>
  /\ UNCHANGED <<hostVars, outputVars, main, serial_thread, ui, g_app,
                 g_exit_requested, serial_error>>

\* app.Loop returns: FTXUI gives the signal handlers back and raises again.
LoopReturns ==
  /\ Running /\ ui = "looping" /\ quitting
  /\ ui' = "unwinding"
  /\ IF caught THEN Raise ELSE UNCHANGED <<signalled, ended>>
  /\ caught' = FALSE
  /\ UNCHANGED <<hostVars, outputVars, main, serial_thread, g_app,
                 g_exit_requested, quitting, serial_error>>

\* Mutant: g_app keeps pointing to the App that is about to go.
UiEndsKeepsApp ==
  /\ Running /\ ui = "unwinding"
  /\ ui' = "over" /\ main' = "stop"
  /\ UNCHANGED <<hostVars, outputVars, serial_thread, g_app, g_exit_requested,
                 quitting, caught, signalled, serial_error, ended>>

\* The end of tui_console::run, under g_mutex, and with it of the App.
UiEnds ==
  /\ Running /\ ui = "unwinding"
  /\ ui' = "over" /\ main' = "stop"
  /\ g_app' = FALSE
  /\ UNCHANGED <<hostVars, outputVars, serial_thread, g_exit_requested,
                 quitting, caught, signalled, serial_error, ended>>

\* Mutant: the interface's end is left at that.
MainStopsNothing ==
  /\ Running /\ main = "stop"
  /\ main' = "join"
  /\ UNCHANGED <<hostVars, outputVars, serial_thread, ui, g_app,
                 g_exit_requested, quitting, caught, signalled, serial_error,
                 ended>>

\* main_common_stop, whether the loop runs already, still or not yet.
MainStops ==
  /\ Running /\ main = "stop"
  /\ Stop
  /\ main' = "join"
  /\ UNCHANGED <<outputVars, serial_thread, ui, g_app, g_exit_requested,
                 quitting, caught, signalled, serial_error, ended>>

\* asio's signal handler on the loop.
HandleSignal ==
  /\ Running /\ Dispatching /\ signalled
  /\ Stop
  /\ signalled' = FALSE
  /\ UNCHANGED <<outputVars, main, serial_thread, ui, g_app, g_exit_requested,
                 quitting, caught, serial_error, ended>>

\* Mutant: the output is shut down without waiting for the thread.
MainDoesNotJoin ==
  /\ Running /\ main = "join"
  /\ main' = "close"
  /\ UNCHANGED <<hostVars, outputVars, serial_thread, ui, g_app,
                 g_exit_requested, quitting, caught, signalled, serial_error,
                 ended>>

\* serial_thread.join(), or run_serial has returned.
MainJoins ==
  /\ Running /\ main = "join" /\ serial_thread = "done"
  /\ main' = "close"
  /\ UNCHANGED <<hostVars, outputVars, serial_thread, ui, g_app,
                 g_exit_requested, quitting, caught, signalled, serial_error,
                 ended>>

\* foxglove_viz::shutdown, and the result.
MainReturns ==
  /\ Running /\ main = "close"
  /\ ShutdownViz
  /\ main' = "over"
  /\ ended' = IF serial_error THEN "error" ELSE "ok"
  /\ UNCHANGED <<hostVars, console, serial_thread, ui, g_app, g_exit_requested,
                 quitting, caught, signalled, serial_error>>

\* A frame of the device is shown, on the thread of the loop.
DeviceReports ==
  /\ Running /\ Dispatching
  /\ \E frame \in Reports : OnFrame(frame)
  /\ UNCHANGED <<hostVars, monitorVars, console>>

MainStep ==
  \/ MainOpens \/ MainStarts
  \/ UiBegins \/ UiLoops \/ LoopReturns \/ UiEnds
  \/ MainStops \/ MainJoins \/ MainReturns

Next ==
  \/ MainStep \/ OpenFails
  \/ SerialRuns \/ SerialFails \/ SerialThreadRequestsExit \/ LineTakes \/ HandleSignal
  \/ DeviceReports
  \/ UserCommands \/ UserQuits \/ Signal

\* Both threads run; nobody has to type anything and no port has to fail.
Spec ==
  /\ Init /\ [][Next]_allVars
  /\ WF_allVars(MainStep) /\ WF_allVars(SerialRuns)
  /\ WF_allVars(SerialThreadRequestsExit) /\ WF_allVars(HandleSignal)
  /\ WF_allVars(LineTakes)
-----------------------------------------------------------------------------
(***************************************************************************)
(* "Either side ending makes the other one exit" (main.cpp:133): when the  *)
(* serial loop is over or the interface is, the process ends, wherever the *)
(* other side happens to be, its start included.                           *)
(***************************************************************************)
OneEndsBoth == (loop = "over" \/ ui = "over") ~> ended # "no"

\* A signal ends the program, whoever's handler is installed when it comes.
SignalEnds == (caught \/ signalled) ~> ended # "no"

(***************************************************************************)
(* request_exit, pause and the log sink call the App through g_app from    *)
(* other threads: it is never set when there is no App.                    *)
(***************************************************************************)
AppAlive == g_app => ui \in {"ready", "looping", "unwinding"}

(***************************************************************************)
(* main's result is formed, and the recording closed, when nothing can     *)
(* change any more: run_serial is done, on whichever thread, the port      *)
(* released, no frame will be published, and a serial error is reported.   *)
(***************************************************************************)
ResultIsFinal ==
  main \in {"close", "over"} =>
    /\ serial_thread = "done" /\ loop = "over" /\ serial = "null"
    /\ main = "over" => /\ s_server # "open" /\ s_writer # "open"
                        /\ ended = "error" <=> serial_error

(***************************************************************************)
(* A recording that is not closed has no index (foxglove_viz.cpp:323), so  *)
(* no signal may kill the program while it is written: not before the loop *)
(* runs, not while FTXUI puts the handlers back, not by coming twice.  What*)
(* is left is the moment between Cleanup and foxglove_viz::shutdown.       *)
(***************************************************************************)
RecordingKept ==
  ended = "killed" /\ s_writer = "open" => loop = "over"
==============================================================================
