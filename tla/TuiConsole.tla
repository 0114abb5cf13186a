----------------------------- MODULE TuiConsole -----------------------------
(***************************************************************************)
(* The monitor's screen (app/monitor/tui_console.cpp): any thread logs     *)
(* into g_lines, the interface's thread draws them, and keys, wheel and    *)
(* button hold and scroll a copy of them.  Each action is what one lock of *)
(* g_mutex makes atomic.  FTXUI is external: an event, posted or from the  *)
(* user, is followed by a redraw; Exit() ends the loop.  The text of the   *)
(* input line is left out; the process's life is in Monitor.               *)
(***************************************************************************)
EXTENDS LogView

CONSTANTS
  LINES_MAX,
  Lengths,      \* length of the n-th line logged; as many as are logged (bound)
  Sizes,        \* terminal sizes: columns, and rows of the log area
  Steps,        \* rows a wheel notch or a page key scrolls
  MaxScroll     \* rows scrolled between two redraws (bound)

ASSUME ConsoleAssumption ==
  /\ LINES_MAX \in Nat \ {0} /\ MaxScroll \in Nat
  /\ Lengths \in Seq(Nat)
  /\ Sizes \subseteq [width : Nat \ {0}, area : Nat \ {0}]
  /\ Steps \subseteq Nat \ {0}

VARIABLES
  g_phase, g_exit_requested, g_app, g_lines,
  g_paused, g_frozen, g_scroll, g_paused_by_scroll,
  size,       \* of the terminal
  executing,  \* command on_input is working on, or "none"
  quitting,   \* the App has been told to Exit()
  redraw,     \* an event is posted or being handled: a redraw will follow
  shown,      \* rows on the screen
  stdout,     \* numbers of the lines printed
  logged,     \* number of lines logged
  due,        \* number of the first line stdout has to show, once run is over
  asked       \* how the user asked for the pause: "no", "scroll", "explicitly"

pauseVars == <<g_paused, g_frozen, g_scroll, g_paused_by_scroll, asked>>
lifeVars == <<g_phase, g_exit_requested, g_app, quitting>>
logVars == <<g_lines, stdout, logged, due>>
screenVars == <<size, redraw, shown>>
vars == <<lifeVars, logVars, pauseVars, screenVars, executing>>

Init ==
  /\ g_phase = "PENDING" /\ g_exit_requested = FALSE /\ g_app = FALSE
  /\ g_lines = <<>> /\ stdout = <<>> /\ logged = 0 /\ due = 0
  /\ g_paused = FALSE /\ g_frozen = <<>> /\ g_scroll = 0
  /\ g_paused_by_scroll = FALSE /\ asked = "no"
  /\ size \in Sizes /\ redraw = FALSE /\ shown = <<>>
  /\ executing = "none" /\ quitting = FALSE
-----------------------------------------------------------------------------
PostEvent == redraw' = (redraw \/ g_app)

NewLine == [number |-> logged + 1, length |-> Lengths[logged + 1]]

Newest(lines) == SubSeq(lines, AtLeast(1, Len(lines) + 1 - LINES_MAX), Len(lines))

\* TuiSink::sink_it_, on any thread.
Log ==
  /\ logged < Len(Lengths)
  /\ logged' = logged + 1
  /\ IF g_phase = "FINISHED"
     THEN stdout' = Append(stdout, logged + 1) /\ UNCHANGED <<g_lines, redraw>>
     ELSE /\ g_lines' = Newest(Append(g_lines, NewLine))
          /\ PostEvent /\ UNCHANGED stdout
  /\ UNCHANGED <<due, lifeVars, pauseVars, size, shown, executing>>

RunBegins ==
  /\ g_phase = "PENDING" /\ ~g_exit_requested
  /\ g_phase' = "RUNNING" /\ g_app' = TRUE
  /\ redraw' = TRUE
  /\ UNCHANGED <<g_exit_requested, quitting, logVars, pauseVars, size, shown, executing>>

FirstKept == AtLeast(1, logged + 1 - LINES_MAX)

\* Mutant: what has been logged is dropped unprinted.
RunSkippedSilent ==
  /\ g_phase = "PENDING" /\ g_exit_requested
  /\ g_lines' = <<>>
  /\ g_phase' = "FINISHED"
  /\ due' = FirstKept
  /\ UNCHANGED <<g_exit_requested, g_app, quitting, stdout, logged, pauseVars,
                 screenVars, executing>>

\* run is too late: what has been logged is printed instead.
RunSkipped ==
  /\ g_phase = "PENDING" /\ g_exit_requested
  /\ stdout' = [i \in DOMAIN g_lines |-> g_lines[i].number]
  /\ g_lines' = <<>>
  /\ g_phase' = "FINISHED"
  /\ due' = FirstKept
  /\ UNCHANGED <<g_exit_requested, g_app, quitting, logged, pauseVars, screenVars, executing>>

\* Mutant: the App is not told.
RequestExitUntold ==
  /\ g_exit_requested' = TRUE
  /\ UNCHANGED quitting

RequestExit ==
  /\ g_exit_requested' = TRUE
  /\ quitting' = (quitting \/ g_app)

\* The serial thread is over, at any time.
SerialRequestsExit ==
  /\ RequestExit
  /\ UNCHANGED <<g_phase, g_app, logVars, pauseVars, screenVars, executing>>

\* app.Loop returns; what is on the screen is not printed again.
RunEnds ==
  /\ g_phase = "RUNNING" /\ quitting /\ executing = "none"
  /\ g_phase' = "FINISHED" /\ g_app' = FALSE
  /\ due' = logged + 1
  /\ UNCHANGED <<g_exit_requested, quitting, g_lines, stdout, logged, pauseVars,
                 screenVars, executing>>
-----------------------------------------------------------------------------
pause_locked(by_scroll) ==
  IF g_paused THEN UNCHANGED <<g_paused, g_frozen, g_paused_by_scroll>>
  ELSE /\ g_paused' = TRUE /\ g_frozen' = g_lines
       /\ g_paused_by_scroll' = by_scroll

resume_locked ==
  /\ g_paused' = FALSE /\ g_frozen' = <<>> /\ g_scroll' = 0
  /\ asked' = "no"
  /\ UNCHANGED g_paused_by_scroll

\* An event of the user, between commands.
Event ==
  /\ g_phase = "RUNNING" /\ ~quitting /\ executing = "none"
  /\ redraw' = TRUE
  /\ UNCHANGED <<g_phase, g_exit_requested, g_app, logVars, shown>>

\* Wheel or page key up.
ScrollUp(rows) ==
  /\ Event /\ g_scroll + rows <= MaxScroll
  /\ pause_locked(TRUE)
  /\ g_scroll' = g_scroll + rows
  /\ asked' = IF asked = "no" THEN "scroll" ELSE asked
  /\ UNCHANGED <<size, executing, quitting>>

ScrollDown(rows) ==
  /\ Event
  /\ LET left == g_scroll - AtMost(g_scroll, rows)
     IN  IF left = 0 /\ g_paused_by_scroll THEN resume_locked
         ELSE /\ g_scroll' = left
              /\ UNCHANGED <<g_paused, g_frozen, g_paused_by_scroll, asked>>
  /\ UNCHANGED <<size, executing, quitting>>

\* [ pause ] or [ resume ].
Button ==
  /\ Event
  /\ IF g_paused THEN resume_locked
     ELSE pause_locked(FALSE) /\ asked' = "explicitly" /\ UNCHANGED g_scroll
  /\ UNCHANGED <<size, executing, quitting>>

Escape == Event /\ resume_locked /\ UNCHANGED <<size, executing, quitting>>

\* Mutant: Enter only submits.
EnterKeepsPause(command) ==
  /\ Event
  /\ UNCHANGED pauseVars
  /\ executing' = command
  /\ UNCHANGED <<size, quitting>>

\* on_enter: the screen goes on, then the line is submitted if it has a text.
Enter(command) ==
  /\ Event
  /\ resume_locked
  /\ executing' = command
  /\ UNCHANGED <<size, quitting>>

\* on_input: help holds the screen, quit ends it, others log and return.
CommandDone ==
  /\ executing # "none"
  /\ executing' = "none"
  /\ IF executing = "quit"
     THEN RequestExit /\ UNCHANGED <<redraw, pauseVars>>
     ELSE /\ UNCHANGED <<g_exit_requested, quitting>>
          /\ IF executing = "help"
             THEN /\ pause_locked(FALSE) /\ PostEvent
                  /\ asked' = "explicitly" /\ UNCHANGED g_scroll
             ELSE UNCHANGED <<redraw, pauseVars>>
  /\ UNCHANGED <<g_phase, g_app, logVars, size, shown>>

CtrlC ==
  /\ Event
  /\ quitting' = TRUE
  /\ UNCHANGED <<pauseVars, size, executing>>

Resize ==
  /\ Event
  /\ size' \in Sizes
  /\ UNCHANGED <<pauseVars, executing, quitting>>

Lines == IF g_paused THEN g_frozen ELSE g_lines

\* render_log_area; FTXUI draws between events.
Draw ==
  /\ g_phase = "RUNNING" /\ redraw /\ executing = "none"
  /\ LET scroll == IF g_paused THEN Clamped(g_scroll, Lines, size.width, size.area)
                   ELSE g_scroll
     IN  /\ g_scroll' = scroll
         /\ shown' = Rendered(Lines, size.width, size.area,
                              IF g_paused THEN scroll ELSE 0)
  /\ redraw' = FALSE
  /\ UNCHANGED <<lifeVars, logVars, g_paused, g_frozen, g_paused_by_scroll, asked,
                 size, executing>>

Commands == {"none", "help", "quit", "other"}

UserNext ==
  \/ \E rows \in Steps : ScrollUp(rows) \/ ScrollDown(rows)
  \/ Button \/ Escape \/ CtrlC \/ Resize
  \/ \E command \in Commands : Enter(command)

UiStep == CommandDone \/ RunEnds

Next ==
  \/ Log \/ SerialRequestsExit
  \/ RunBegins \/ RunSkipped
  \/ UserNext \/ UiStep \/ Draw

\* The interface's thread runs; user and log need not do anything.
Spec == Init /\ [][Next]_vars /\ WF_vars(UiStep)
-----------------------------------------------------------------------------
(***************************************************************************)
(* A pause that came from scrolling ends at the bottom; one asked for by   *)
(* help or the button ends only when asked (tui_console.cpp:49).  So the   *)
(* state has to know which of the two it is, whatever came before and in   *)
(* between.                                                                *)
(***************************************************************************)
PauseAsAsked ==
  /\ g_paused <=> asked # "no"
  /\ g_paused => (g_paused_by_scroll <=> asked = "scroll")

(***************************************************************************)
(* Once nothing is left to redraw, the screen shows the window of rows     *)
(* that the scroll position names: of the log as it is, or of the copy     *)
(* made when the pause began, and a full window if there is enough.        *)
(***************************************************************************)
ScreenIsCurrent ==
  g_phase = "RUNNING" /\ ~redraw =>
    LET rows == AllRows(Lines, size.width)
    IN  /\ shown = WindowOf(rows, size.area, g_scroll)
        /\ Len(shown) = AtMost(size.area, Len(rows))

NumbersFrom(n) == [i \in 1 .. logged + 1 - n |-> n + i - 1]

(***************************************************************************)
(* "Before run() ends a line goes to the scroll area, afterwards straight  *)
(* to stdout" (tui_console.hpp): paused or not, the newest LINES_MAX lines *)
(* are kept.  From the end of run() on stdout gets every line, in order and *)
(* without a gap; run() skipped, it begins with the lines kept till then,  *)
(* and none of them is lost.                                               *)
(***************************************************************************)
LogKept ==
  IF g_phase = "FINISHED"
  THEN stdout = NumbersFrom(due)
  ELSE /\ stdout = <<>>
       /\ [i \in DOMAIN g_lines |-> g_lines[i].number] = NumbersFrom(FirstKept)

\* Asked to exit, the interface ends, whatever command it is at; one asked
\* before run() never begins (tui_console.hpp).
ExitEnds == (g_exit_requested /\ g_phase # "PENDING") ~> g_phase = "FINISHED"
==============================================================================
