---------------------------- MODULE ConsoleProofs ----------------------------
(***************************************************************************)
(* Proofs about the monitor's console.  First TuiConsole, for any number   *)
(* of lines logged, of any length, any LINES_MAX, terminal and user: why   *)
(* the screen is held is known, the log has no gap, and the screen shows   *)
(* what the scroll position names.                                         *)
(* Then ConsoleCommands, for any messages, fields, values and rounding,    *)
(* any number of commands and of changes, and whatever is lost: a state of *)
(* the device that was reported is either its present state or an earlier  *)
(* one, which its number tells apart; that holds of a reply on the line,   *)
(* of the cached copy, of the base of a command and of what a write leaves *)
(* as it was.                                                              *)
(***************************************************************************)
EXTENDS TuiConsole, ConsoleCommands, InductionFacts, SequenceTheorems

USE ConsoleAssumption

LogLine == [number : Nat, length : Nat]

\* The scroll position is typed in ScreenInv, with what the screen shows.
ConsoleTypeOK ==
  /\ g_phase \in {"PENDING", "RUNNING", "FINISHED"}
  /\ g_exit_requested \in BOOLEAN /\ g_app \in BOOLEAN /\ quitting \in BOOLEAN
  /\ g_lines \in Seq(LogLine) /\ stdout \in Seq(Nat)
  /\ logged \in 0 .. Len(Lengths) /\ due \in Nat
  /\ g_paused \in BOOLEAN /\ g_paused_by_scroll \in BOOLEAN
  /\ g_frozen \in Seq(LogLine)
  /\ asked \in {"no", "scroll", "explicitly"}
  /\ executing \in Commands
  /\ size \in Sizes /\ redraw \in BOOLEAN

\* A command begins with the screen going on, and no event comes between.
CommandUnpaused == executing # "none" => ~g_paused

PauseInv == PauseAsAsked /\ CommandUnpaused

\* The lines kept are the newest, by their numbers.
LinesAreNewest ==
  /\ Len(g_lines) = AtMost(LINES_MAX, logged)
  /\ \A i \in 1 .. Len(g_lines) : g_lines[i].number = logged - Len(g_lines) + i

\* Numbers on stdout run from the first line due up to the last line logged.
StdoutHasNoGap ==
  /\ due + Len(stdout) = logged + 1
  /\ \A i \in 1 .. Len(stdout) : stdout[i] = logged - Len(stdout) + i

LogInv ==
  IF g_phase = "FINISHED" THEN StdoutHasNoGap
  ELSE stdout = <<>> /\ LinesAreNewest

ConsoleInv == ConsoleTypeOK /\ PauseInv /\ LogInv
-----------------------------------------------------------------------------
\* sink_it_ drops the oldest lines beyond LINES_MAX and keeps the order.
LEMMA KeepsNewest ==
  ASSUME NEW lines \in Seq(LogLine)
  PROVE  /\ Newest(lines) \in Seq(LogLine)
         /\ Len(Newest(lines)) = AtMost(LINES_MAX, Len(lines))
         /\ \A i \in 1 .. Len(Newest(lines)) :
              Newest(lines)[i] = lines[Len(lines) - Len(Newest(lines)) + i]
<1> DEFINE n == Len(lines)
           first == AtLeast(1, n + 1 - LINES_MAX)
           kept == SubSeq(lines, first, n)
<1>1. n \in Nat /\ \A i \in 1 .. n : lines[i] \in LogLine
  OBVIOUS
<1>2. first \in 1 .. n + 1 /\ n + 1 - first = AtMost(LINES_MAX, n)
  <2> HIDE DEF n
  <2> QED BY <1>1 DEF AtLeast, AtMost
<1> HIDE DEF first
<1>3. /\ kept \in Seq(LogLine) /\ Len(kept) = n + 1 - first
      /\ \A i \in 1 .. n + 1 - first : kept[i] = lines[first + i - 1]
  <2>1. first \in 1 .. Len(lines) + 1 /\ n \in first - 1 .. Len(lines)
    BY <1>1, <1>2
  <2> QED BY SMTT(30), <1>1, <1>2, <2>1, SubSeqProperties
<1>4. Newest(lines) = kept
  BY DEF Newest, first
<1> HIDE DEF n, kept
<1>5. \A i \in 1 .. n + 1 - first : first + i - 1 = n - (n + 1 - first) + i
  BY <1>1, <1>2
<1> QED BY <1>2, <1>3, <1>4, <1>5 DEF n

\* The invariant says what LogKept says.
LEMMA LogInvKept == ConsoleTypeOK /\ LogInv => LogKept
<1> SUFFICES ASSUME ConsoleTypeOK, LogInv PROVE LogKept
  OBVIOUS
<1>1. logged \in Nat /\ stdout \in Seq(Nat) /\ g_lines \in Seq(LogLine)
  BY DEF ConsoleTypeOK
<1>2. CASE g_phase = "FINISHED"
  <2> DEFINE n == Len(stdout)
  <2>1. /\ n \in Nat /\ due \in Nat /\ due + n = logged + 1
        /\ \A i \in 1 .. n : stdout[i] = logged - n + i
        /\ stdout = [i \in 1 .. n |-> stdout[i]]
    <3>1. n \in Nat /\ stdout = [i \in 1 .. n |-> stdout[i]]
      BY <1>1
    <3> QED BY <1>2, <3>1 DEF LogInv, StdoutHasNoGap, ConsoleTypeOK
  <2> HIDE DEF n
  <2>2. logged + 1 - due = n
    BY <1>1, <2>1
  <2>3. ASSUME NEW i \in 1 .. n PROVE stdout[i] = due + i - 1
    <3>1. stdout[i] = logged - n + i
      BY <2>1
    <3>2. logged \in Int /\ due \in Int /\ n \in Int /\ i \in Int
          /\ due + n = logged + 1
      BY <1>1, <2>1
    <3>3. logged - n + i = due + i - 1
      BY <3>2
    <3> QED BY <3>1, <3>3
  <2> QED BY <1>2, <2>1, <2>2, <2>3 DEF NumbersFrom, LogKept
<1>3. CASE g_phase # "FINISHED"
  <2> DEFINE n == Len(g_lines)
             first == AtLeast(1, logged + 1 - LINES_MAX)
  <2>1. /\ stdout = <<>> /\ n \in Nat /\ DOMAIN g_lines = 1 .. n
        /\ n = AtMost(LINES_MAX, logged)
        /\ \A i \in 1 .. n : g_lines[i].number = logged - n + i
    BY <1>1, <1>3 DEF LogInv, LinesAreNewest
  <2>2. logged + 1 - first = n /\ first \in Int
    BY <1>1, <2>1 DEF AtLeast, AtMost
  <2> HIDE DEF n, first
  <2>3. \A i \in 1 .. n : g_lines[i].number = first + i - 1
    BY <1>1, <2>1, <2>2
  <2>4. [i \in DOMAIN g_lines |-> g_lines[i].number] = NumbersFrom(first)
    BY <2>1, <2>2, <2>3 DEF NumbersFrom
  <2> QED BY <1>3, <2>1, <2>4 DEF LogKept, FirstKept, first
<1> QED BY <1>2, <1>3
-----------------------------------------------------------------------------
LEMMA ConsoleInit == Init => ConsoleInv
<1> SUFFICES ASSUME Init PROVE ConsoleInv
  OBVIOUS
<1>1. /\ <<>> \in Seq(LogLine) /\ <<>> \in Seq(Nat) /\ Len(<<>>) = 0
      /\ Len(Lengths) \in Nat
  OBVIOUS
<1>2. ConsoleTypeOK
  <2>1. g_lines \in Seq(LogLine) /\ g_frozen \in Seq(LogLine) /\ stdout \in Seq(Nat)
    BY <1>1 DEF Init
  <2>2. logged \in 0 .. Len(Lengths)
    BY <1>1 DEF Init
  <2> QED BY <2>1, <2>2 DEF Init, ConsoleTypeOK, Commands
<1>3. PauseInv
  BY DEF Init, PauseInv, PauseAsAsked, CommandUnpaused
<1>4. LogInv
  BY <1>1 DEF Init, LogInv, LinesAreNewest, AtMost
<1> QED BY <1>2, <1>3, <1>4 DEF ConsoleInv

\* What an event does before its handler: nothing to the log and the phase.
LEMMA EventKeeps ==
  ASSUME Event
  PROVE  /\ g_phase = "RUNNING" /\ executing = "none"
         /\ redraw' = TRUE
         /\ UNCHANGED <<g_phase, g_exit_requested, g_app, logVars>>
BY DEF Event, logVars

\* Why the screen is held, through every action.
LEMMA PauseNext ==
  ASSUME ConsoleTypeOK, PauseInv, [Next]_vars
  PROVE  PauseInv'
<1> USE DEF PauseInv, PauseAsAsked, CommandUnpaused, ConsoleTypeOK
<1>1. CASE Log \/ SerialRequestsExit \/ RunBegins \/ RunSkipped \/ RunEnds \/ UNCHANGED vars
  BY <1>1 DEF Log, SerialRequestsExit, RunBegins, RunSkipped, RunEnds, vars, pauseVars
<1>2. ASSUME NEW rows \in Steps, ScrollUp(rows) PROVE PauseInv'
  BY <1>2 DEF ScrollUp, Event, pause_locked
<1>3. ASSUME NEW rows \in Steps, ScrollDown(rows) PROVE PauseInv'
  BY <1>3 DEF ScrollDown, Event, resume_locked
<1>4. CASE Button
  BY <1>4 DEF Button, Event, resume_locked, pause_locked
<1>5. CASE Escape
  BY <1>5 DEF Escape, Event, resume_locked
<1>6. CASE CtrlC \/ Resize
  BY <1>6 DEF CtrlC, Resize, Event, pauseVars
<1>7. ASSUME NEW name \in Commands, Enter(name) PROVE PauseInv'
  BY <1>7 DEF Enter, Event, resume_locked
<1>8. CASE CommandDone
  BY <1>8 DEF CommandDone, pause_locked, pauseVars
<1>9. CASE Draw
  BY <1>9 DEF Draw
<1> QED BY <1>1, <1>2, <1>3, <1>4, <1>5, <1>6, <1>7, <1>8, <1>9
        DEF Next, UserNext, UiStep

\* What a line logged while the interface lives makes of the lines kept.
LEMMA LogKeepsNewest ==
  ASSUME ConsoleTypeOK, LinesAreNewest, logged < Len(Lengths),
         logged' = logged + 1, g_lines' = Newest(Append(g_lines, NewLine))
  PROVE  g_lines' \in Seq(LogLine) /\ LinesAreNewest'
<1> DEFINE lines == Append(g_lines, NewLine)
           n == Len(g_lines)
<1>1. /\ g_lines \in Seq(LogLine) /\ logged \in Nat /\ n \in Nat
      /\ n = AtMost(LINES_MAX, logged)
      /\ \A i \in 1 .. n : g_lines[i].number = logged - n + i
  BY SMTT(30) DEF ConsoleTypeOK, LinesAreNewest
<1>2. NewLine \in LogLine /\ NewLine.number = logged + 1
  <2>1. Lengths[logged + 1] \in Nat
    BY <1>1
  <2> QED BY <1>1, <2>1 DEF NewLine, LogLine
<1>3. /\ lines \in Seq(LogLine) /\ Len(lines) = n + 1
      /\ \A i \in 1 .. n : lines[i] = g_lines[i]
      /\ lines[n + 1] = NewLine
  BY <1>1, <1>2
<1> HIDE DEF lines, n
<1>4. \A i \in 1 .. n + 1 : lines[i].number = logged - n + i
  <2> SUFFICES ASSUME NEW i \in 1 .. n + 1 PROVE lines[i].number = logged - n + i
    OBVIOUS
  <2>1. CASE i = n + 1
    <3>1. logged - n + (n + 1) = logged + 1
      BY <1>1
    <3> QED BY <1>2, <1>3, <2>1, <3>1
  <2>2. CASE i \in 1 .. n
    BY <1>1, <1>3, <2>2
  <2> QED BY SMTT(30), <1>1, <2>1, <2>2
<1>5. /\ g_lines' \in Seq(LogLine) /\ Len(g_lines') \in Nat
      /\ Len(g_lines') = AtMost(LINES_MAX, Len(lines))
      /\ \A i \in 1 .. Len(g_lines') :
           g_lines'[i] = lines[Len(lines) - Len(g_lines') + i]
  <2>1. g_lines' = Newest(lines)
    BY DEF lines
  <2>2. /\ Newest(lines) \in Seq(LogLine)
        /\ Len(Newest(lines)) = AtMost(LINES_MAX, Len(lines))
        /\ \A i \in 1 .. Len(Newest(lines)) :
             Newest(lines)[i] = lines[Len(lines) - Len(Newest(lines)) + i]
    BY <1>3, KeepsNewest
  <2>3. Len(Newest(lines)) \in Nat
    BY <2>2
  <2> QED BY <2>1, <2>2, <2>3, Zenon
<1> DEFINE k == Len(g_lines')
<1>6. k \in Nat /\ k = AtMost(LINES_MAX, n + 1)
  BY <1>3, <1>5
<1>7. ASSUME NEW i \in 1 .. k PROVE g_lines'[i].number = logged + 1 - k + i
  <2>1. g_lines'[i] = lines[Len(lines) - k + i]
    BY <1>5
  <2> HIDE DEF k
  <2>2. k <= n + 1
    BY <1>1, <1>6 DEF AtMost
  <2>3. n + 1 - k + i \in 1 .. n + 1
    BY SMTT(30), <1>1, <1>6, <2>2
  <2>4. g_lines'[i].number = logged - n + (n + 1 - k + i)
    <3>1. PICK j \in 1 .. n + 1 : j = n + 1 - k + i
      BY <2>3
    <3>2. lines[j].number = logged - n + j
      BY <1>4
    <3>3. Len(lines) - k + i = j
      BY <1>1, <1>3, <1>6, <3>1
    <3>4. g_lines'[i] = lines[j]
      BY <2>1, <3>3
    <3> QED BY <3>1, <3>2, <3>4
  <2>5. logged - n + (n + 1 - k + i) = logged + 1 - k + i
    BY SMTT(30), <1>1, <1>6
  <2> QED BY <2>4, <2>5
<1>8. k = AtMost(LINES_MAX, logged + 1)
  <2> HIDE DEF k
  <2> QED BY <1>1, <1>6 DEF AtMost
<1>9. LinesAreNewest'
  <2>1. Len(g_lines') = AtMost(LINES_MAX, logged')
    BY <1>8
  <2>2. ASSUME NEW i \in 1 .. Len(g_lines')
        PROVE  g_lines'[i].number = logged' - Len(g_lines') + i
    BY <1>1, <1>6, <1>7
  <2> QED BY <2>1, <2>2 DEF LinesAreNewest
<1> QED BY <1>5, <1>9

\* The log, through every action that touches it or ends the interface.
LEMMA LogStep ==
  ASSUME ConsoleTypeOK, LogInv, Log
  PROVE  /\ LogInv'
         /\ g_lines' \in Seq(LogLine) /\ stdout' \in Seq(Nat)
         /\ logged' \in 0 .. Len(Lengths) /\ due' \in Nat
<1>1. /\ logged < Len(Lengths) /\ logged' = logged + 1 /\ g_phase' = g_phase
      /\ due' = due /\ due \in Nat
      /\ g_lines \in Seq(LogLine) /\ stdout \in Seq(Nat)
      /\ logged \in Nat /\ Len(Lengths) \in Nat /\ logged' \in 0 .. Len(Lengths)
  BY DEF Log, lifeVars, ConsoleTypeOK
<1>2. CASE g_phase = "FINISHED"
  <2> DEFINE n == Len(stdout)
  <2>1. /\ stdout' = Append(stdout, logged + 1) /\ g_lines' = g_lines
        /\ n \in Nat /\ due + n = logged + 1
        /\ \A i \in 1 .. n : stdout[i] = logged - n + i
    BY <1>1, <1>2 DEF Log, LogInv, StdoutHasNoGap
  <2>2. /\ stdout' \in Seq(Nat) /\ Len(stdout') = n + 1
        /\ \A i \in 1 .. n : stdout'[i] = stdout[i]
        /\ stdout'[n + 1] = logged + 1
    BY <1>1, <2>1
  <2> HIDE DEF n
  <2>3. \A i \in 1 .. n + 1 : stdout'[i] = (logged + 1) - (n + 1) + i
    <3> SUFFICES ASSUME NEW i \in 1 .. n + 1
                 PROVE  stdout'[i] = (logged + 1) - (n + 1) + i
      OBVIOUS
    <3>1. CASE i = n + 1
      <4>1. (logged + 1) - (n + 1) + (n + 1) = logged + 1
        BY <1>1, <2>1
      <4> QED BY <2>2, <3>1, <4>1
    <3>2. CASE i \in 1 .. n
      <4>1. (logged + 1) - (n + 1) + i = logged - n + i
        BY <1>1, <2>1
      <4> QED BY <1>1, <2>1, <2>2, <3>2, <4>1
    <3>3. i = n + 1 \/ i \in 1 .. n
      BY <2>1
    <3> QED BY <3>1, <3>2, <3>3, Zenon
  <2>4. due' + Len(stdout') = logged' + 1
    BY <1>1, <2>1, <2>2
  <2>5. StdoutHasNoGap'
    BY <1>1, <2>2, <2>3, <2>4 DEF StdoutHasNoGap
  <2> QED BY <1>1, <1>2, <2>1, <2>2, <2>5 DEF LogInv
<1>3. CASE g_phase # "FINISHED"
  <2>1. /\ stdout' = stdout /\ stdout = <<>> /\ LinesAreNewest
        /\ g_lines' = Newest(Append(g_lines, NewLine))
    BY <1>3 DEF Log, LogInv
  <2>2. g_lines' \in Seq(LogLine) /\ LinesAreNewest'
    BY <1>1, <2>1, LogKeepsNewest
  <2> QED BY <1>1, <1>3, <2>1, <2>2 DEF LogInv
<1> QED BY <1>2, <1>3

LEMMA RunSkippedStep ==
  ASSUME ConsoleTypeOK, LogInv, RunSkipped
  PROVE  /\ LogInv'
         /\ g_lines' \in Seq(LogLine) /\ stdout' \in Seq(Nat) /\ due' \in Nat
<1> DEFINE n == Len(g_lines)
<1>7. /\ g_phase' = "FINISHED" /\ logged' = logged /\ g_lines' = <<>>
      /\ stdout' = [i \in DOMAIN g_lines |-> g_lines[i].number]
      /\ g_lines \in Seq(LogLine) /\ logged \in Nat
      /\ LinesAreNewest
  BY DEF RunSkipped, LogInv, ConsoleTypeOK
<1>8. /\ n \in Nat /\ DOMAIN g_lines = 1 .. n
      /\ \A i \in 1 .. n : g_lines[i].number \in Nat
  <2>1. n \in Nat /\ DOMAIN g_lines = 1 .. n
    BY <1>7
  <2>2. \A i \in 1 .. n : g_lines[i] \in LogLine
    BY <1>7
  <2> QED BY <2>1, <2>2 DEF LogLine
<1>1. /\ g_phase' = "FINISHED" /\ logged' = logged /\ g_lines' = <<>>
      /\ stdout' = [i \in DOMAIN g_lines |-> g_lines[i].number]
      /\ logged \in Nat /\ n \in Nat /\ DOMAIN g_lines = 1 .. n
      /\ n = AtMost(LINES_MAX, logged)
      /\ \A i \in 1 .. n : g_lines[i].number = logged - n + i /\ g_lines[i].number \in Nat
  BY <1>7, <1>8 DEF LinesAreNewest
<1> HIDE DEF n
<1>2. stdout' = [i \in 1 .. n |-> g_lines[i].number]
  BY <1>1
<1>3. stdout' \in Seq(Nat) /\ Len(stdout') = n
  <2>1. stdout' \in [1 .. n -> Nat]
    BY <1>1, <1>2
  <2>2. ASSUME NEW k \in Nat, NEW s \in [1 .. k -> Nat]
        PROVE  s \in Seq(Nat) /\ Len(s) = k
    OBVIOUS
  <2> QED BY <1>1, <2>1, <2>2
<1>4. \A i \in 1 .. n : stdout'[i] = logged - n + i
  BY <1>1, <1>2
<1>5. due' \in Nat /\ due' + n = logged + 1
  <2>1. due' = AtLeast(1, logged + 1 - LINES_MAX)
    BY DEF RunSkipped, FirstKept
  <2> QED BY <1>1, <2>1 DEF AtMost, AtLeast
<1>6. g_lines' \in Seq(LogLine)
  BY <1>1
<1> QED BY <1>1, <1>3, <1>4, <1>5, <1>6 DEF LogInv, StdoutHasNoGap

LEMMA LogNext ==
  ASSUME ConsoleTypeOK, LogInv, [Next]_vars
  PROVE  /\ LogInv'
         /\ g_lines' \in Seq(LogLine) /\ stdout' \in Seq(Nat)
         /\ logged' \in 0 .. Len(Lengths) /\ due' \in Nat
<1>1. CASE Log
  BY <1>1, LogStep
<1>2. CASE RunSkipped
  <2>1. logged' = logged
    BY <1>2 DEF RunSkipped
  <2> QED BY <1>2, <2>1, RunSkippedStep DEF ConsoleTypeOK
<1>3. CASE RunEnds
  <2>1. /\ g_phase = "RUNNING" /\ g_phase' = "FINISHED"
        /\ due' = logged + 1 /\ UNCHANGED <<g_lines, stdout, logged>>
    BY <1>3 DEF RunEnds
  <2>2. stdout = <<>> /\ Len(stdout) = 0
    BY <2>1 DEF LogInv
  <2> QED BY <2>1, <2>2 DEF LogInv, StdoutHasNoGap, ConsoleTypeOK
<1>4. ASSUME UNCHANGED logVars,
             g_phase' = g_phase \/ (g_phase = "PENDING" /\ g_phase' = "RUNNING")
      PROVE  /\ LogInv'
             /\ g_lines' \in Seq(LogLine) /\ stdout' \in Seq(Nat)
             /\ logged' \in 0 .. Len(Lengths) /\ due' \in Nat
  BY <1>4 DEF logVars, LogInv, LinesAreNewest, StdoutHasNoGap, ConsoleTypeOK
<1>5. CASE RunBegins
  BY <1>4, <1>5 DEF RunBegins, logVars
<1>6. CASE SerialRequestsExit
  BY <1>4, <1>6 DEF SerialRequestsExit, logVars
<1>7. CASE UserNext
  <2>1. Event
    BY <1>7 DEF UserNext, ScrollUp, ScrollDown, Button, Escape, CtrlC, Resize, Enter
  <2> QED BY <1>4, <2>1, EventKeeps
<1>8. CASE CommandDone
  BY <1>4, <1>8 DEF CommandDone, logVars
<1>9. CASE Draw
  BY <1>4, <1>9 DEF Draw, lifeVars, logVars
<1>10. CASE UNCHANGED vars
  BY <1>4, <1>10 DEF vars, lifeVars, logVars
<1> QED BY <1>1, <1>2, <1>3, <1>5, <1>6, <1>7, <1>8, <1>9, <1>10 DEF Next, UiStep

LEMMA TypeNext ==
  ASSUME ConsoleTypeOK, LogInv, [Next]_vars
  PROVE  ConsoleTypeOK'
<1>1. /\ g_lines' \in Seq(LogLine) /\ stdout' \in Seq(Nat)
      /\ logged' \in 0 .. Len(Lengths) /\ due' \in Nat
  BY LogNext
<1>2. <<>> \in Seq(LogLine)
  OBVIOUS
<1> USE <1>1, <1>2 DEF ConsoleTypeOK
<1>3. CASE Log
  BY <1>3 DEF Log, PostEvent, lifeVars, pauseVars
<1>4. CASE SerialRequestsExit
  BY <1>4 DEF SerialRequestsExit, RequestExit, pauseVars, screenVars
<1>5. CASE RunBegins
  BY <1>5 DEF RunBegins, pauseVars
<1>6. CASE RunSkipped
  BY <1>6 DEF RunSkipped, pauseVars, screenVars
<1>7. CASE RunEnds
  BY <1>7 DEF RunEnds, pauseVars, screenVars
<1>8. ASSUME NEW rows \in Steps, ScrollUp(rows) PROVE ConsoleTypeOK'
  BY <1>8 DEF ScrollUp, Event, pause_locked
<1>9. ASSUME NEW rows \in Steps, ScrollDown(rows) PROVE ConsoleTypeOK'
  BY <1>9 DEF ScrollDown, Event, resume_locked
<1>10. CASE Button
  BY <1>10 DEF Button, Event, resume_locked, pause_locked
<1>11. CASE Escape
  BY <1>11 DEF Escape, Event, resume_locked
<1>12. CASE CtrlC
  BY <1>12 DEF CtrlC, Event, pauseVars
<1>13. CASE Resize
  BY <1>13 DEF Resize, Event, pauseVars
<1>14. ASSUME NEW name \in Commands, Enter(name) PROVE ConsoleTypeOK'
  BY <1>14 DEF Enter, Event, resume_locked
<1>15. CASE CommandDone
  <2>1. /\ executing' \in Commands
        /\ UNCHANGED <<g_phase, g_app, g_lines, size>>
    BY <1>15 DEF CommandDone, logVars, Commands
  <2>2. CASE executing = "quit"
    <3>1. RequestExit /\ UNCHANGED <<redraw, pauseVars>>
      BY <1>15, <2>2 DEF CommandDone
    <3> QED BY <2>1, <3>1 DEF RequestExit, pauseVars
  <2>3. CASE executing = "help"
    <3>1. /\ pause_locked(FALSE) /\ PostEvent /\ asked' = "explicitly"
          /\ UNCHANGED <<g_exit_requested, quitting>>
      BY <1>15, <2>3 DEF CommandDone
    <3> QED BY <2>1, <3>1 DEF pause_locked, PostEvent
  <2>4. CASE executing # "quit" /\ executing # "help"
    <3>1. UNCHANGED <<g_exit_requested, quitting, redraw, pauseVars>>
      BY <1>15, <2>4 DEF CommandDone
    <3> QED BY <2>1, <3>1 DEF pauseVars
  <2> QED BY <2>2, <2>3, <2>4
<1>16. CASE Draw
  BY <1>16 DEF Draw, lifeVars
<1>17. CASE UNCHANGED vars
  BY <1>17 DEF vars, lifeVars, pauseVars, screenVars
<1> QED BY <1>3, <1>4, <1>5, <1>6, <1>7, <1>8, <1>9, <1>10, <1>11, <1>12, <1>13,
           <1>14, <1>15, <1>16, <1>17 DEF Next, UserNext, UiStep
-----------------------------------------------------------------------------
(***************************************************************************)
(* The console's inductive invariant: the types, the pause with what a     *)
(* command may rely on, the log with its numbers.                          *)
(***************************************************************************)
THEOREM ConsoleInvariant == Spec => []ConsoleInv
<1>1. Init => ConsoleInv
  BY ConsoleInit
<1>2. ConsoleInv /\ [Next]_vars => ConsoleInv'
  BY TypeNext, PauseNext, LogNext DEF ConsoleInv
<1> QED BY <1>1, <1>2, PTL DEF Spec

(***************************************************************************)
(* Whatever the user does, in whatever order, the state knows whether the  *)
(* screen is held and whether it was scrolling or a request that held it.  *)
(***************************************************************************)
THEOREM PausesAsAsked == Spec => []PauseAsAsked
<1>1. ConsoleInv => PauseAsAsked
  BY DEF ConsoleInv, PauseInv
<1> QED BY <1>1, ConsoleInvariant, PTL

(***************************************************************************)
(* However many lines are logged by whichever threads, before, during and  *)
(* after run(), the newest are kept for the screen, and on stdout none is  *)
(* missing: neither one logged after run() nor, run() skipped, one kept    *)
(* till then.                                                              *)
(***************************************************************************)
THEOREM LogIsKept == Spec => []LogKept
<1>1. ConsoleInv => LogKept
  BY LogInvKept DEF ConsoleInv
<1> QED BY <1>1, ConsoleInvariant, PTL
-----------------------------------------------------------------------------
(* The rows on the screen. *)

ScreenRow == [line : Nat, from : Nat, upto : Nat]

LEMMA RowTypes ==
  ASSUME NEW line \in LogLine, NEW width \in Nat \ {0}
  PROVE  /\ row_count(line, width) \in Nat /\ row_count(line, width) >= 1
         /\ \A i \in Nat : Row(line, i, width) \in ScreenRow
         /\ RowsOf(line, width) \in Seq(ScreenRow)
         /\ Len(RowsOf(line, width)) = row_count(line, width)
<1> DEFINE n == row_count(line, width)
           l == line.length
<1>1. l \in Nat /\ line.number \in Nat
  BY DEF LogLine
<1>2. n \in Nat /\ n >= 1
  <2> HIDE DEF l
  <2>1. (l + width - 1) \div width \in Nat
    BY <1>1
  <2> DEFINE q == (l + width - 1) \div width
  <2>2. n = AtLeast(1, q)
    BY DEF row_count, l
  <2> HIDE DEF q, n
  <2> QED BY <2>1, <2>2 DEF AtLeast, q
<1>3. ASSUME NEW i \in Nat PROVE Row(line, i, width) \in ScreenRow
  <2>1. i * width \in Nat /\ (i + 1) * width \in Nat
    OBVIOUS
  <2>2. AtMost(l, (i + 1) * width) \in Nat
    <3> DEFINE q == (i + 1) * width
    <3>1. q \in Nat
      BY <2>1
    <3> HIDE DEF q, l
    <3> QED BY <1>1, <3>1 DEF AtMost, q
  <2> QED BY <1>1, <2>1, <2>2 DEF Row, ScreenRow
<1> HIDE DEF n
<1>4. RowsOf(line, width) = [i \in 1 .. n |-> Row(line, i - 1, width)]
  BY DEF RowsOf, n
<1>5. RowsOf(line, width) \in [1 .. n -> ScreenRow]
  <2>1. ASSUME NEW i \in 1 .. n PROVE Row(line, i - 1, width) \in ScreenRow
    <3>1. i - 1 \in Nat
      BY <1>2
    <3> QED BY <1>3, <3>1
  <2> QED BY <1>4, <2>1
<1>6. RowsOf(line, width) \in Seq(ScreenRow) /\ Len(RowsOf(line, width)) = n
  BY <1>2, <1>5, SeqDef, LenProperties
<1> QED BY <1>2, <1>3, <1>6 DEF n

\* The rows of the lines up to each.
LEMMA RowsUpTo ==
  ASSUME NEW lines \in Seq(LogLine), NEW width \in Nat \ {0}
  PROVE  \E upto : /\ \A m \in 0 .. Len(lines) : upto[m] \in Seq(ScreenRow)
                   /\ upto[0] = <<>>
                   /\ \A m \in 1 .. Len(lines) :
                        upto[m] = upto[m - 1] \o RowsOf(lines[m], width)
                   /\ AllRows(lines, width) = upto[Len(lines)]
<1> DEFINE n == Len(lines)
           S == Seq(ScreenRow)
           next == [c \in S \X (1 .. n) |-> c[1] \o RowsOf(lines[c[2]], width)]
           Step(f, m) == IF m = 0 THEN <<>> ELSE f[m - 1] \o RowsOf(lines[m], width)
           Is(f) == f = [m \in 0 .. n |-> Step(f, m)]
           upto == CHOOSE f : Is(f)
<1>1. n \in Nat /\ \A m \in 1 .. n : lines[m] \in LogLine
  OBVIOUS
<1>2. ASSUME NEW x \in S, NEW m \in 1 .. n
      PROVE  x \o RowsOf(lines[m], width) \in S
  <2>1. RowsOf(lines[m], width) \in Seq(ScreenRow)
    BY <1>1, RowTypes
  <2> QED BY <2>1, ConcatProperties
<1> HIDE DEF n
<1>3. \E f : Is(f)
  <2> DEFINE a == 0
             none == <<>>
  <2>1. a \in Int /\ n \in Int /\ a <= n /\ none \in S
    BY <1>1
  <2>2. next \in [S \X (1 .. n) -> S]
    BY <1>2
  <2>3. \A x \in S, m \in 1 .. n : next[<<x, m>>] = x \o RowsOf(lines[m], width)
    OBVIOUS
  <2> HIDE DEF next, S, none
  <2>4. next \in [S \X (a + 1 .. n) -> S]
    BY <2>2
  <2> HIDE DEF a
  <2>5. PICK f \in [a .. n -> S] : Follows(f, a, n, none, next)
    BY <2>1, <2>4, FiniteRecursion
  <2> USE DEF a, none
  <2>6. ASSUME NEW m \in 0 .. n PROVE f[m] = Step(f, m)
    <3>1. CASE m = 0
      BY <2>5, <3>1 DEF Follows
    <3>2. CASE m # 0
      <4>1. m \in 1 .. n /\ m - 1 \in 0 .. n
        BY <1>1, <3>2
      <4>2. f[m - 1] \in S /\ f[m] = next[<<f[m - 1], m>>]
        BY <2>5, <3>2, <4>1 DEF Follows
      <4> QED BY <2>3, <3>2, <4>1, <4>2
    <3> QED BY <3>1, <3>2
  <2>7. Is(f)
    BY <2>5, <2>6
  <2> QED BY <2>7
<1>4. Is(upto)
  <2> HIDE DEF Is
  <2> QED BY <1>3
<1>5. AllRows(lines, width) = upto[n]
  BY DEF AllRows, n
<1> HIDE DEF upto
<1>6. /\ upto[0] = <<>>
      /\ \A m \in 1 .. n : upto[m] = upto[m - 1] \o RowsOf(lines[m], width)
  BY <1>1, <1>4
<1> DEFINE Q == {m \in Nat : m <= n => upto[m] \in S}
<1>7. 0 \in Q
  <2>1. <<>> \in S
    OBVIOUS
  <2> HIDE DEF S
  <2> QED BY <1>6, <2>1
<1>8. ASSUME NEW m \in Q PROVE m + 1 \in Q
  <2> SUFFICES ASSUME m + 1 <= n PROVE upto[m + 1] \in S
    OBVIOUS
  <2>1. m + 1 \in 1 .. n /\ m + 1 - 1 = m /\ m <= n
    BY <1>1
  <2>2. upto[m] \in S
    BY <2>1
  <2>3. upto[m + 1] = upto[m] \o RowsOf(lines[m + 1], width)
    <3> DEFINE j == m + 1
    <3>1. j \in 1 .. n /\ j - 1 = m
      BY <2>1
    <3> HIDE DEF j
    <3>2. upto[j] = upto[j - 1] \o RowsOf(lines[j], width)
      BY <1>6, <3>1
    <3> QED BY <3>1, <3>2 DEF j
  <2> HIDE DEF S
  <2> QED BY <1>2, <2>1, <2>2, <2>3
<1>9. Q = Nat
  <2>1. Q \subseteq Nat
    OBVIOUS
  <2> HIDE DEF Q
  <2> QED BY <1>7, <1>8, <2>1, SetInduction
<1>10. \A m \in 0 .. n : upto[m] \in S
  BY <1>1, <1>9
<1> QED BY <1>5, <1>6, <1>10 DEF n

\* Where the rows of each line are among all of them.
RowsAt(lines, width, at) ==
  LET n    == Len(lines)
      rows == AllRows(lines, width)
  IN  /\ rows \in Seq(ScreenRow)
      /\ at[0] = 0 /\ at[n] = Len(rows)
      /\ \A m \in 0 .. n : at[m] \in Nat /\ at[m] <= at[n]
      /\ \A m \in 1 .. n :
           /\ at[m] = at[m - 1] + row_count(lines[m], width)
           /\ \A i \in 1 .. row_count(lines[m], width) :
                rows[at[m - 1] + i] = Row(lines[m], i - 1, width)

LEMMA LinesHaveRows ==
  ASSUME NEW lines \in Seq(LogLine), NEW width \in Nat \ {0}
  PROVE  \E at : RowsAt(lines, width, at)
<1> DEFINE n == Len(lines)
           Count(m) == row_count(lines[m], width)
<1>1. PICK upto : /\ \A m \in 0 .. n : upto[m] \in Seq(ScreenRow)
                  /\ upto[0] = <<>>
                  /\ \A m \in 1 .. n :
                       upto[m] = upto[m - 1] \o RowsOf(lines[m], width)
                  /\ AllRows(lines, width) = upto[n]
  BY RowsUpTo
<1> DEFINE at == [m \in 0 .. n |-> Len(upto[m])]
<1>2. n \in Nat /\ \A m \in 1 .. n : lines[m] \in LogLine
  OBVIOUS
<1> HIDE DEF n
<1>3. \A m \in 0 .. n : at[m] = Len(upto[m]) /\ at[m] \in Nat
  BY <1>1
<1>4. ASSUME NEW m \in 1 .. n
      PROVE  /\ at[m] = at[m - 1] + Count(m) /\ Count(m) \in Nat
             /\ \A i \in 1 .. at[m - 1] : upto[m][i] = upto[m - 1][i]
             /\ \A i \in 1 .. Count(m) : upto[m][at[m - 1] + i] = Row(lines[m], i - 1, width)
  <2> DEFINE x == upto[m - 1]
             y == RowsOf(lines[m], width)
             c == Count(m)
             a == at[m - 1]
  <2>1. m - 1 \in 0 .. n /\ m \in 0 .. n
    BY <1>2
  <2>2. x \in Seq(ScreenRow) /\ y \in Seq(ScreenRow) /\ Len(y) = c /\ c \in Nat
    BY <1>1, <1>2, <2>1, RowTypes
  <2>3. upto[m] = x \o y /\ a = Len(x) /\ at[m] = Len(upto[m]) /\ a \in Nat
    BY <1>1, <1>3, <2>1
  <2>4. \A i \in 1 .. c : y[i] = Row(lines[m], i - 1, width)
    BY DEF RowsOf
  <2> HIDE DEF x, y, c, a, at
  <2>5. /\ Len(x \o y) = a + c
        /\ \A i \in 1 .. a + c : (x \o y)[i] = IF i <= a THEN x[i] ELSE y[i - a]
    <3>1. /\ Len(x \o y) = Len(x) + Len(y)
          /\ \A i \in 1 .. Len(x) + Len(y) :
               (x \o y)[i] = IF i <= Len(x) THEN x[i] ELSE y[i - Len(x)]
      BY <2>2, ConcatProperties
    <3> QED BY <2>2, <2>3, <3>1
  <2>6. \A i \in 1 .. a : (x \o y)[i] = x[i]
    BY <2>2, <2>3, <2>5
  <2>7. ASSUME NEW i \in 1 .. c PROVE (x \o y)[a + i] = y[i]
    <3> DEFINE j == a + i
    <3>1. j \in 1 .. a + c /\ ~(j <= a) /\ j - a = i
      BY <2>2, <2>3
    <3> HIDE DEF j
    <3>2. (x \o y)[j] = y[j - a]
      BY <2>5, <3>1
    <3> QED BY <3>1, <3>2 DEF j
  <2>8. at[m] = a + c
    BY <2>3, <2>5
  <2> QED BY <2>2, <2>3, <2>4, <2>6, <2>7, <2>8 DEF x, c, a
<1> HIDE DEF at
<1> DEFINE Q == {k \in Nat : k <= n =>
                   \A m \in 0 .. k :
                     /\ at[m] <= at[k]
                     /\ m # 0 => \A i \in 1 .. Count(m) :
                          upto[k][at[m - 1] + i] = Row(lines[m], i - 1, width)}
<1>5. 0 \in Q
  BY <1>2, <1>3
<1>6. ASSUME NEW k \in Q PROVE k + 1 \in Q
  <2> SUFFICES ASSUME k + 1 <= n, NEW m \in 0 .. k + 1
               PROVE  /\ at[m] <= at[k + 1]
                      /\ m # 0 => \A i \in 1 .. Count(m) :
                           upto[k + 1][at[m - 1] + i] = Row(lines[m], i - 1, width)
    OBVIOUS
  <2>1. k \in 0 .. n /\ k + 1 \in 0 .. n /\ k + 1 \in 1 .. n /\ k + 1 - 1 = k /\ k <= n
    BY <1>2
  <2>2. at[k] \in Nat /\ at[k + 1] = at[k] + Count(k + 1) /\ Count(k + 1) \in Nat
    BY <1>3, <1>4, <2>1
  <2>3. CASE m = k + 1
    BY <1>3, <1>4, <2>1, <2>3
  <2>4. CASE m # k + 1
    <3>1. m \in 0 .. k /\ m \in 0 .. n
      BY <1>2, <2>4
    <3>2. /\ at[m] <= at[k]
          /\ m # 0 => \A i \in 1 .. Count(m) :
               upto[k][at[m - 1] + i] = Row(lines[m], i - 1, width)
      BY <2>1, <3>1
    <3> HIDE DEF Q
    <3>3. at[m] \in Nat /\ at[m] <= at[k + 1]
      <4>1. at[m] \in Nat
        BY <1>3, <3>1
      <4> HIDE DEF Count
      <4> QED BY <2>2, <3>2, <4>1
    <3>4. ASSUME m # 0, NEW i \in 1 .. Count(m)
          PROVE  upto[k + 1][at[m - 1] + i] = Row(lines[m], i - 1, width)
      <4> DEFINE j == at[m - 1] + i
      <4>1. m \in 1 .. n /\ m - 1 \in 0 .. n
        BY <1>2, <3>1, <3>4
      <4>2. at[m] = at[m - 1] + Count(m) /\ at[m - 1] \in Nat /\ Count(m) \in Nat
        BY <1>3, <1>4, <4>1
      <4>3. j \in 1 .. at[k]
        <5> DEFINE a == at[m - 1]
                   c == Count(m)
                   d == at[k]
        <5>1. a \in Nat /\ c \in Nat /\ d \in Nat /\ a + c <= d /\ i \in 1 .. c
          BY <2>2, <3>2, <4>2
        <5> HIDE DEF a, c, d
        <5>2. a + i \in 1 .. d
          BY <5>1
        <5> QED BY <5>2 DEF a, d
      <4>4. upto[k + 1][j] = upto[k][j]
        <5> HIDE DEF j
        <5>1. \A l \in 1 .. at[k + 1 - 1] : upto[k + 1][l] = upto[k + 1 - 1][l]
          BY <1>4, <2>1
        <5> QED BY <2>1, <4>3, <5>1
      <4> QED BY <3>2, <3>4, <4>4
    <3> QED BY <3>3, <3>4
  <2> QED BY <2>3, <2>4
<1>7. Q = Nat
  <2>1. Q \subseteq Nat
    OBVIOUS
  <2> HIDE DEF Q
  <2> QED BY <1>5, <1>6, <2>1, SetInduction
<1>8. n \in Q
  BY <1>2, <1>7
<1>9. \A m \in 0 .. n : at[m] <= at[n]
  BY <1>2, <1>8
<1>10. ASSUME NEW m \in 1 .. n, NEW i \in 1 .. Count(m)
       PROVE  upto[n][at[m - 1] + i] = Row(lines[m], i - 1, width)
  <2>1. m \in 0 .. n /\ m # 0
    BY <1>2
  <2> QED BY <1>2, <1>8, <2>1
<1>11. at[0] = 0 /\ at[n] = Len(upto[n])
  BY <1>1, <1>2, <1>3
<1> HIDE DEF Q
<1>12. RowsAt(lines, width, at)
  <2>1. n \in 0 .. n
    BY <1>2
  <2> QED BY <1>1, <1>3, <1>4, <1>9, <1>10, <1>11, <2>1 DEF RowsAt, n
<1> QED BY <1>12

LEMMA TotalIsAll ==
  ASSUME NEW lines \in Seq(LogLine), NEW width \in Nat \ {0},
         NEW at, RowsAt(lines, width, at)
  PROVE  total(lines, width) = Len(AllRows(lines, width))
<1> DEFINE n == Len(lines)
           Step(f, m) == IF m = 0 THEN 0 ELSE f[m - 1] + row_count(lines[m], width)
           Is(f) == f = [m \in 0 .. n |-> Step(f, m)]
           sum == CHOOSE f : Is(f)
           g == [m \in 0 .. n |-> at[m]]
<1>1. /\ n \in Nat /\ at[0] = 0 /\ at[n] = Len(AllRows(lines, width))
      /\ \A m \in 1 .. n : at[m] = at[m - 1] + row_count(lines[m], width)
  BY DEF RowsAt
<1>2. total(lines, width) = sum[n]
  BY DEF total
<1> HIDE DEF n
<1>3. Is(g)
  <2>1. ASSUME NEW m \in 0 .. n PROVE at[m] = Step(g, m)
    <3>1. CASE m = 0
      BY <1>1, <3>1
    <3>2. CASE m # 0
      <4>1. m \in 1 .. n /\ m - 1 \in 0 .. n
        BY <1>1, <3>2
      <4>2. g[m - 1] = at[m - 1]
        BY <4>1
      <4> HIDE DEF g
      <4> QED BY <1>1, <3>2, <4>1, <4>2
    <3> QED BY <3>1, <3>2
  <2> QED BY <2>1
<1>4. Is(sum)
  <2> HIDE DEF Is, g
  <2> QED BY <1>3
<1> HIDE DEF sum
<1> DEFINE Q == {m \in Nat : m <= n => sum[m] = at[m]}
<1>5. 0 \in Q
  BY <1>1, <1>4
<1>6. ASSUME NEW m \in Q PROVE m + 1 \in Q
  <2> SUFFICES ASSUME m + 1 <= n PROVE sum[m + 1] = at[m + 1]
    OBVIOUS
  <2> DEFINE j == m + 1
  <2>1. j \in 1 .. n /\ j \in 0 .. n /\ j # 0 /\ j - 1 = m /\ sum[m] = at[m]
    BY <1>1
  <2> HIDE DEF j
  <2>2. \A i \in 0 .. n : sum[i] = Step(sum, i)
    BY <1>4
  <2>3. sum[j] = sum[j - 1] + row_count(lines[j], width)
    BY <2>1, <2>2
  <2> QED BY <1>1, <2>1, <2>3 DEF j
<1>7. Q = Nat
  <2>1. Q \subseteq Nat
    OBVIOUS
  <2> HIDE DEF Q
  <2> QED BY <1>5, <1>6, <2>1, SetInduction
<1>8. sum[n] = at[n]
  <2>1. n \in Q
    BY <1>1, <1>7
  <2> QED BY <2>1
<1> QED BY <1>1, <1>2, <1>8
-----------------------------------------------------------------------------
(* The double loop: after k rows from the newest, skip of them are skipped *)
(* and those above are taken until the area is full.                       *)

Taken(area, skip, k) == IF k <= skip THEN 0 ELSE AtMost(area, k - skip)

PickedAfter(rows, area, skip, k) ==
  [skip |-> IF k < skip THEN skip - k ELSE 0,
   rows |-> [j \in 1 .. Taken(area, skip, k) |->
               rows[Len(rows) - skip - Taken(area, skip, k) + j]]]

LEMMA Prepend ==
  ASSUME NEW V, NEW s \in Seq(V), NEW x \in V
  PROVE  LET t == <<x>> \o s
         IN  /\ t \in Seq(V) /\ Len(t) = Len(s) + 1 /\ t[1] = x
             /\ \A j \in 1 .. Len(s) : t[j + 1] = s[j]
<1> DEFINE n == Len(s)
<1>1. <<x>> \in Seq(V) /\ Len(<<x>>) = 1 /\ n \in Nat
  OBVIOUS
<1>2. /\ <<x>> \o s \in Seq(V) /\ Len(<<x>> \o s) = 1 + n
      /\ \A j \in 1 .. 1 + n : (<<x>> \o s)[j] = IF j <= 1 THEN <<x>>[j] ELSE s[j - 1]
  BY <1>1, ConcatProperties
<1> HIDE DEF n
<1>3. ASSUME NEW j \in 1 .. n PROVE (<<x>> \o s)[j + 1] = s[j]
  <2> DEFINE i == j + 1
  <2>1. i \in 1 .. 1 + n /\ ~(i <= 1) /\ i - 1 = j
    BY <1>1
  <2> HIDE DEF i
  <2>2. (<<x>> \o s)[i] = s[i - 1]
    BY <1>2, <2>1
  <2> QED BY <2>1, <2>2 DEF i
<1> QED BY <1>1, <1>2, <1>3 DEF n

LEMMA SkippedOne ==
  ASSUME NEW p, NEW skip, NEW rows, p = [skip |-> skip, rows |-> rows]
  PROVE  [p EXCEPT !.skip = @ - 1] = [skip |-> skip - 1, rows |-> rows]
  OBVIOUS

LEMMA PickTakes ==
  ASSUME NEW rows \in Seq(ScreenRow), NEW area \in Nat \ {0}, NEW skip \in Nat,
         NEW k \in Nat, k < Len(rows), NEW line \in LogLine, NEW width \in Nat \ {0},
         NEW i \in Nat,
         Row(line, row_count(line, width) - i, width) = rows[Len(rows) - k]
  PROVE  Pick(line, width, area, PickedAfter(rows, area, skip, k), i)
           = PickedAfter(rows, area, skip, k + 1)
<1> DEFINE n == Len(rows)
           c == Taken(area, skip, k)
           d == Taken(area, skip, k + 1)
           s == [j \in 1 .. c |-> rows[n - skip - c + j]]
           t == [j \in 1 .. d |-> rows[n - skip - d + j]]
           p == PickedAfter(rows, area, skip, k)
           x == rows[n - k]
<1>1. n \in Nat /\ n - k \in 1 .. n /\ x \in ScreenRow
  OBVIOUS
<1>2. c \in Nat /\ c <= area /\ (k <= skip => c = 0) /\ (k > skip => c <= k - skip)
  BY DEF Taken, AtMost
<1>3. p.rows = s /\ p.skip = IF k < skip THEN skip - k ELSE 0
  BY DEF PickedAfter
<1>4. s \in Seq(ScreenRow) /\ Len(s) = c
  <2>1. ASSUME NEW j \in 1 .. c PROVE rows[n - skip - c + j] \in ScreenRow
    <3> HIDE DEF n, c
    <3>1. n - skip - c + j \in 1 .. n
      BY <1>1, <1>2
    <3> QED BY <3>1 DEF n
  <2> HIDE DEF c, n
  <2>2. s \in [1 .. c -> ScreenRow]
    BY <2>1
  <2> QED BY <1>2, <2>2, SeqDef, LenProperties
<1>5. PickedAfter(rows, area, skip, k + 1)
        = [skip |-> IF k + 1 < skip THEN skip - (k + 1) ELSE 0, rows |-> t]
  BY DEF PickedAfter
<1>6. p = [skip |-> p.skip, rows |-> p.rows]
  BY DEF PickedAfter
<1>7. Pick(line, width, area, p, i) =
        IF Len(s) >= area THEN p
        ELSE IF p.skip > 0 THEN [p EXCEPT !.skip = @ - 1]
        ELSE [p EXCEPT !.rows = <<x>> \o @]
  BY <1>3 DEF Pick
<1> HIDE DEF p
<1>8. CASE c >= area
  <2>1. c = area /\ k > skip /\ d = area /\ p.skip = 0 /\ ~(k + 1 < skip)
    BY <1>2, <1>3, <1>8 DEF Taken, AtMost
  <2>2. s = t
    <3> HIDE DEF c, d, n
    <3> QED BY <2>1
  <2> HIDE DEF c, d, s, t
  <2> QED BY <1>3, <1>4, <1>5, <1>6, <1>7, <1>8, <2>1, <2>2 DEF p
<1>9. CASE ~(c >= area) /\ k < skip
  <2>1. c = 0 /\ d = 0 /\ p.skip = skip - k /\ skip - k > 0
    BY <1>3, <1>9 DEF Taken
  <2>2. s = t
    <3> HIDE DEF c, d, n
    <3> QED BY <2>1
  <2>3. (IF k + 1 < skip THEN skip - (k + 1) ELSE 0) = (skip - k) - 1
    BY <1>9
  <2> HIDE DEF c, d, s, t
  <2>4. Pick(line, width, area, p, i) = [p EXCEPT !.skip = @ - 1]
    BY <1>4, <1>7, <1>9, <2>1
  <2>5. [p EXCEPT !.skip = @ - 1] = [skip |-> p.skip - 1, rows |-> p.rows]
    <3> HIDE DEF p
    <3> QED BY <1>6, SkippedOne
  <2> QED BY <1>3, <1>5, <2>1, <2>2, <2>3, <2>4, <2>5 DEF p
<1>10. CASE ~(c >= area) /\ ~(k < skip)
  <2>1. p.skip = 0 /\ c = k - skip /\ d = c + 1 /\ ~(k + 1 < skip)
    BY <1>3, <1>10 DEF Taken, AtMost
  <2>2. <<x>> \o s = t
    <3>1. /\ <<x>> \o s \in Seq(ScreenRow) /\ Len(<<x>> \o s) = c + 1
          /\ (<<x>> \o s)[1] = x
          /\ \A j \in 1 .. c : (<<x>> \o s)[j + 1] = s[j]
      <4> HIDE DEF c, s, x
      <4> QED BY <1>1, <1>4, Prepend
    <3> DEFINE u == <<x>> \o s
    <3>2. ASSUME NEW j \in 1 .. d PROVE u[j] = rows[n - skip - d + j]
      <4>1. CASE j = 1
        <5> HIDE DEF n, c, d, s
        <5>1. n - skip - d + j = n - k
          BY <1>1, <2>1, <4>1
        <5> QED BY <3>1, <4>1, <5>1
      <4>2. CASE j # 1
        <5> DEFINE l == j - 1
        <5>1. l \in 1 .. c /\ l + 1 = j /\ n - skip - c + l = n - skip - d + j
          <6> HIDE DEF n, c, d
          <6> QED BY <1>1, <1>2, <2>1, <4>2
        <5>2. s[l] = rows[n - skip - c + l]
          <6> HIDE DEF n, c, l
          <6> QED BY <5>1
        <5> HIDE DEF l, u, s, x
        <5>3. u[l + 1] = s[l]
          BY <3>1, <5>1 DEF u
        <5> QED BY <5>1, <5>2, <5>3
      <4> QED BY <4>1, <4>2
    <3>3. u = [j \in 1 .. d |-> u[j]]
      <4> HIDE DEF c, d, s
      <4>1. u \in Seq(ScreenRow) /\ Len(u) = d
        BY <2>1, <3>1
      <4> HIDE DEF u
      <4> QED BY <4>1, LenProperties
    <3> HIDE DEF u
    <3>4. u = t
      BY <3>2, <3>3
    <3> QED BY <3>4 DEF u
  <2> HIDE DEF c, d, s, t, x
  <2>3. Pick(line, width, area, p, i) = [p EXCEPT !.rows = <<x>> \o @]
    BY <1>4, <1>7, <1>10, <2>1
  <2>4. [p EXCEPT !.rows = <<x>> \o @] = [skip |-> p.skip, rows |-> <<x>> \o p.rows]
    <3>1. \A q : [p EXCEPT !.rows = q] = [skip |-> p.skip, rows |-> q]
      BY <1>6
    <3> QED BY <3>1
  <2> QED BY <1>3, <1>5, <2>1, <2>2, <2>3, <2>4 DEF p
<1> QED BY <1>8, <1>9, <1>10 DEF p

\* The k newest rows are of other lines; the line's own come right above them.
OwnRows(rows, k, line, width) ==
  LET n == row_count(line, width)
  IN  /\ k + n <= Len(rows)
      /\ \A i \in 1 .. n : rows[Len(rows) - k - n + i] = Row(line, i - 1, width)

\* The rows of one line, after k rows of the newer ones.
LEMMA PickLineTakes ==
  ASSUME NEW rows \in Seq(ScreenRow), NEW area \in Nat \ {0}, NEW skip \in Nat,
         NEW line \in LogLine, NEW width \in Nat \ {0}, NEW k \in Nat,
         OwnRows(rows, k, line, width)
  PROVE  PickLine(line, width, area, PickedAfter(rows, area, skip, k))
           = PickedAfter(rows, area, skip, k + row_count(line, width))
<1> DEFINE n == row_count(line, width)
           l == Len(rows)
           P(j) == PickedAfter(rows, area, skip, j)
           Step(f, i) == IF i = 0 THEN P(k) ELSE Pick(line, width, area, f[i - 1], i)
           Is(f) == f = [i \in 0 .. n |-> Step(f, i)]
           after == CHOOSE f : Is(f)
           g == [i \in 0 .. n |-> P(k + i)]
<1>1. /\ n \in Nat /\ l \in Nat /\ k + n <= l
      /\ \A i \in 1 .. n : rows[l - k - n + i] = Row(line, i - 1, width)
  BY RowTypes DEF OwnRows
<1>2. PickLine(line, width, area, P(k)) = after[n]
  BY DEF PickLine
<1>3. ASSUME NEW i \in 1 .. n
      PROVE  Pick(line, width, area, P(k + (i - 1)), i) = P(k + i)
  <2> DEFINE m == k + (i - 1)
             h == n - i + 1
  <2>1. /\ m \in Nat /\ m < l /\ m + 1 = k + i /\ h \in 1 .. n /\ h - 1 = n - i
        /\ l - k - n + h = l - m /\ i \in Nat
    <3> HIDE DEF n, l
    <3> QED BY <1>1
  <2>2. rows[l - k - n + h] = Row(line, h - 1, width)
    <3> HIDE DEF h, n, l
    <3> QED BY <1>1, <2>1
  <2>3. Row(line, n - i, width) = rows[l - m]
    BY <2>1, <2>2
  <2> HIDE DEF m, h
  <2>4. Pick(line, width, area, P(m), i) = P(m + 1)
    BY <2>1, <2>3, PickTakes
  <2> QED BY <2>1, <2>4 DEF m
<1> HIDE DEF n, l, P
<1>4. Is(g)
  <2>1. ASSUME NEW i \in 0 .. n PROVE P(k + i) = Step(g, i)
    <3>1. CASE i = 0
      BY <3>1
    <3>2. CASE i # 0
      <4>1. i \in 1 .. n /\ i - 1 \in 0 .. n
        BY <1>1, <3>2
      <4>2. g[i - 1] = P(k + (i - 1))
        BY <4>1
      <4> HIDE DEF g
      <4> QED BY <1>3, <3>2, <4>1, <4>2
    <3> QED BY <3>1, <3>2
  <2> QED BY <2>1
<1>5. Is(after)
  <2> HIDE DEF Is, g
  <2> QED BY <1>4
<1> HIDE DEF after
<1> DEFINE Q == {i \in Nat : i <= n => after[i] = P(k + i)}
<1>6. 0 \in Q
  <2>1. k + 0 = k /\ 0 \in 0 .. n
    BY <1>1
  <2> QED BY <1>5, <2>1
<1>7. ASSUME NEW i \in Q PROVE i + 1 \in Q
  <2> SUFFICES ASSUME i + 1 <= n PROVE after[i + 1] = P(k + (i + 1))
    OBVIOUS
  <2> DEFINE j == i + 1
  <2>1. j \in 1 .. n /\ j \in 0 .. n /\ j # 0 /\ j - 1 = i /\ after[i] = P(k + i)
    BY <1>1
  <2> HIDE DEF j, Q
  <2>2. \A m \in 0 .. n : after[m] = Step(after, m)
    BY <1>5
  <2>3. after[j] = Pick(line, width, area, after[j - 1], j)
    BY <2>1, <2>2
  <2>4. Pick(line, width, area, P(k + (j - 1)), j) = P(k + j)
    BY <1>3, <2>1
  <2>5. after[j] = P(k + j)
    BY <2>1, <2>3, <2>4
  <2> QED BY <2>5 DEF j
<1>8. Q = Nat
  <2>1. Q \subseteq Nat
    OBVIOUS
  <2> HIDE DEF Q
  <2> QED BY <1>6, <1>7, <2>1, SetInduction
<1>9. after[n] = P(k + n)
  <2>1. n \in Q
    <3> HIDE DEF Q
    <3> QED BY <1>1, <1>8
  <2> QED BY <1>1, <2>1
<1> QED BY <1>2, <1>9 DEF P, n

LEMMA RenderedTakes ==
  ASSUME NEW lines \in Seq(LogLine), NEW width \in Nat \ {0},
         NEW area \in Nat \ {0}, NEW skip \in Nat
  PROVE  LET rows == AllRows(lines, width)
         IN  Rendered(lines, width, area, skip)
               = PickedAfter(rows, area, skip, Len(rows)).rows
<1> DEFINE n == Len(lines)
           rows == AllRows(lines, width)
           l == Len(rows)
           Count(m) == row_count(lines[m], width)
           P(j) == PickedAfter(rows, area, skip, j)
           start == [skip |-> skip, rows |-> <<>>]
           Step(f, k) == IF k = 0 THEN start
                         ELSE PickLine(lines[n + 1 - k], width, area, f[k - 1])
           Is(f) == f = [k \in 0 .. n |-> Step(f, k)]
           after == CHOOSE f : Is(f)
<1>1. PICK at : RowsAt(lines, width, at)
  BY LinesHaveRows
<1> DEFINE g == [k \in 0 .. n |-> P(l - at[n - k])]
<1>2. /\ rows \in Seq(ScreenRow) /\ l \in Nat /\ n \in Nat
      /\ at[0] = 0 /\ at[n] = l
      /\ \A m \in 0 .. n : at[m] \in Nat /\ at[m] <= l
      /\ \A m \in 1 .. n : /\ at[m] = at[m - 1] + Count(m)
                           /\ \A i \in 1 .. Count(m) :
                                rows[at[m - 1] + i] = Row(lines[m], i - 1, width)
                           /\ lines[m] \in LogLine
  BY <1>1 DEF RowsAt
<1>3. Rendered(lines, width, area, skip) = after[n].rows
  BY DEF Rendered
<1>4. P(0) = start
  <2>1. Taken(area, skip, 0) = 0 /\ (IF 0 < skip THEN skip - 0 ELSE 0) = skip
    BY DEF Taken
  <2>2. \A f : [j \in 1 .. 0 |-> f[j]] = <<>>
    OBVIOUS
  <2>3. [j \in 1 .. Taken(area, skip, 0) |->
           rows[Len(rows) - skip - Taken(area, skip, 0) + j]] = <<>>
    <3> HIDE DEF rows
    <3> QED BY <2>1
  <2> HIDE DEF rows
  <2> QED BY <2>1, <2>3 DEF PickedAfter
<1> HIDE DEF n, rows, l, start
<1>5. ASSUME NEW k \in 1 .. n
      PROVE  PickLine(lines[n + 1 - k], width, area, P(l - at[n - (k - 1)]))
               = P(l - at[n - k])
  <2> DEFINE m == n + 1 - k
             a == at[m]
             b == at[m - 1]
             c == Count(m)
             h == l - a
  <2>1. m \in 1 .. n /\ m \in 0 .. n /\ m - 1 \in 0 .. n /\ n - (k - 1) = m /\ n - k = m - 1
    BY <1>2
  <2>2. /\ a \in Nat /\ a <= l /\ b \in Nat /\ a = b + c /\ lines[m] \in LogLine
        /\ \A i \in 1 .. c : rows[b + i] = Row(lines[m], i - 1, width)
    <3> HIDE DEF m
    <3> QED BY <1>2, <2>1
  <2>3. c \in Nat
    BY <2>2, RowTypes
  <2> HIDE DEF a, b, c
  <2>4. h \in Nat /\ h + c <= l /\ l - h - c = b /\ h + c = l - b
    BY <1>2, <2>2, <2>3
  <2> HIDE DEF h
  <2>5. \A i \in 1 .. c : rows[l - h - c + i] = Row(lines[m], i - 1, width)
    BY <2>2, <2>4
  <2>6. PickLine(lines[m], width, area, P(h)) = P(h + c)
    <3> DEFINE line == lines[m]
    <3>1. rows \in Seq(ScreenRow) /\ h \in Nat /\ line \in LogLine
      BY <1>2, <2>2, <2>4
    <3>2. OwnRows(rows, h, line, width)
      BY <2>4, <2>5 DEF OwnRows, c, l
    <3>3. c = row_count(line, width)
      BY DEF c
    <3> HIDE DEF line
    <3> QED BY <3>1, <3>2, <3>3, PickLineTakes DEF line
  <2> HIDE DEF m
  <2>7. lines[n + 1 - k] = lines[m] /\ at[n - (k - 1)] = a /\ at[n - k] = b
    BY <2>1 DEF a, b, m
  <2> QED BY <2>4, <2>6, <2>7 DEF h
<1> HIDE DEF P
<1>6. P(l - at[n - 0]) = start
  <2>1. n - 0 = n /\ l - l = 0
    BY <1>2
  <2> QED BY <1>2, <1>4, <2>1
<1>7. Is(g)
  <2>1. ASSUME NEW k \in 0 .. n PROVE P(l - at[n - k]) = Step(g, k)
    <3>1. CASE k = 0
      BY <1>6, <3>1
    <3>2. CASE k # 0
      <4>1. k \in 1 .. n /\ k - 1 \in 0 .. n
        BY <1>2, <3>2
      <4>2. g[k - 1] = P(l - at[n - (k - 1)])
        BY <4>1
      <4> HIDE DEF g
      <4> QED BY <1>5, <3>2, <4>1, <4>2
    <3> QED BY <3>1, <3>2
  <2> QED BY <2>1
<1>8. Is(after)
  <2> HIDE DEF Is, g
  <2> QED BY <1>7
<1> HIDE DEF after
<1> DEFINE Q == {k \in Nat : k <= n => after[k] = P(l - at[n - k])}
<1>9. 0 \in Q
  <2>1. 0 \in 0 .. n
    BY <1>2
  <2>2. after[0] = start
    BY <1>8, <2>1
  <2> QED BY <1>6, <2>2
<1>10. ASSUME NEW k \in Q PROVE k + 1 \in Q
  <2> SUFFICES ASSUME k + 1 <= n PROVE after[k + 1] = P(l - at[n - (k + 1)])
    OBVIOUS
  <2> DEFINE j == k + 1
  <2>1. /\ j \in 1 .. n /\ j \in 0 .. n /\ j # 0 /\ j - 1 = k
        /\ after[k] = P(l - at[n - k])
    BY <1>2
  <2> HIDE DEF j, Q
  <2>2. \A i \in 0 .. n : after[i] = Step(after, i)
    BY <1>8
  <2>3. after[j] = PickLine(lines[n + 1 - j], width, area, after[j - 1])
    BY <2>1, <2>2
  <2>4. PickLine(lines[n + 1 - j], width, area, P(l - at[n - (j - 1)]))
          = P(l - at[n - j])
    BY <1>5, <2>1
  <2>5. after[j] = P(l - at[n - j])
    BY <2>1, <2>3, <2>4
  <2> QED BY <2>5 DEF j
<1>11. Q = Nat
  <2>1. Q \subseteq Nat
    OBVIOUS
  <2> HIDE DEF Q
  <2> QED BY <1>9, <1>10, <2>1, SetInduction
<1>12. after[n] = P(l - at[n - n])
  <2>1. n \in Q
    <3> HIDE DEF Q
    <3> QED BY <1>2, <1>11
  <2> QED BY <1>2, <2>1
<1>13. l - at[n - n] = l
  BY <1>2
<1> QED BY <1>3, <1>12, <1>13 DEF P, l, rows
-----------------------------------------------------------------------------
(* What the screen shows is the window that the scroll position names. *)

\* The rows picked from all of them are the window above those skipped.
LEMMA PickedIsWindow ==
  ASSUME NEW rows \in Seq(ScreenRow), NEW area \in Nat \ {0},
         NEW above \in Nat, above <= Len(rows)
  PROVE  LET picked == PickedAfter(rows, area, above, Len(rows)).rows
         IN  /\ picked = WindowOf(rows, area, above)
             /\ Len(picked) = AtMost(area, Len(rows) - above)
<1> DEFINE l == Len(rows)
           last == l - above
           t == Taken(area, above, l)
           first == AtLeast(1, last + 1 - AtMost(area, last))
           picked == [j \in 1 .. t |-> rows[l - above - t + j]]
           window == SubSeq(rows, first, last)
<1>1. l \in Nat /\ last \in Nat /\ \A i \in 1 .. l : rows[i] \in ScreenRow
  OBVIOUS
<1>2. t = AtMost(area, last) /\ t \in Nat /\ t <= last /\ first = last + 1 - t
  <2> HIDE DEF l
  <2> QED BY <1>1 DEF Taken, AtMost, AtLeast
<1>3. PickedAfter(rows, area, above, l).rows = picked
  BY DEF PickedAfter
<1>4. WindowOf(rows, area, above) = window
  BY DEF WindowOf
<1> HIDE DEF l, last, t, first
<1>5. first \in Int /\ last \in Int /\ \A i \in first .. last : rows[i] \in ScreenRow
  <2>1. last <= l
    BY <1>1 DEF last
  <2> QED BY <1>1, <1>2, <2>1
<1>6. /\ window \in Seq(ScreenRow) /\ Len(window) = t
      /\ \A i \in 1 .. t : window[i] = rows[first + i - 1]
  <2>1. last - first + 1 = t /\ (first <= last <=> t > 0)
    BY <1>1, <1>2
  <2> HIDE DEF window
  <2>2. /\ window \in Seq(ScreenRow)
        /\ Len(window) = IF first <= last THEN last - first + 1 ELSE 0
        /\ \A i \in 1 .. last - first + 1 : window[i] = rows[first + i - 1]
    BY <1>5, SubSeqProperties DEF window
  <2> QED BY <1>2, <2>1, <2>2
<1>7. window = picked
  <2>1. ASSUME NEW i \in 1 .. t PROVE first + i - 1 = l - above - t + i
    BY <1>1, <1>2 DEF last
  <2> HIDE DEF window
  <2>2. window = [i \in 1 .. t |-> window[i]]
    BY <1>6, LenProperties
  <2> QED BY <1>6, <2>1, <2>2
<1> HIDE DEF window, picked
<1> QED BY <1>2, <1>3, <1>4, <1>6, <1>7 DEF l, last

\* Drawn at the bottom or at the clamped scroll position, the area is full if
\* there are rows enough.
LEMMA DrawnWindow ==
  ASSUME NEW lines \in Seq(LogLine), NEW width \in Nat \ {0}, NEW area \in Nat \ {0},
         NEW scroll \in Nat, NEW above,
         above \in {0, Clamped(scroll, lines, width, area)}
  PROVE  LET rows  == AllRows(lines, width)
             drawn == Rendered(lines, width, area, above)
         IN  /\ above \in Nat
             /\ drawn = WindowOf(rows, area, above)
             /\ Len(drawn) = AtMost(area, Len(rows))
<1> DEFINE rows == AllRows(lines, width)
           l == Len(rows)
           drawn == Rendered(lines, width, area, above)
<1>1. PICK at : RowsAt(lines, width, at)
  BY LinesHaveRows
<1>2. rows \in Seq(ScreenRow) /\ l \in Nat
  BY <1>1 DEF RowsAt
<1>3. total(lines, width) = l
  BY <1>1, TotalIsAll
<1> HIDE DEF rows, l
<1>4. /\ above \in Nat /\ above <= l
      /\ AtMost(area, l - above) = AtMost(area, l)
  BY <1>2, <1>3 DEF Clamped, AtMost
<1>5. drawn = PickedAfter(rows, area, above, l).rows
  BY <1>4, RenderedTakes DEF rows, l
<1>6. /\ PickedAfter(rows, area, above, l).rows = WindowOf(rows, area, above)
      /\ Len(PickedAfter(rows, area, above, l).rows) = AtMost(area, l - above)
  BY <1>2, <1>4, PickedIsWindow DEF l
<1> HIDE DEF drawn
<1> QED BY <1>4, <1>5, <1>6 DEF rows, l, drawn

\* Beside the screen: unpaused it is at the bottom, and as long as the
\* interface runs, what is posted is seen.
ScreenInv ==
  /\ g_scroll \in Nat
  /\ g_phase = "RUNNING" => g_app
  /\ ~g_paused => g_scroll = 0
  /\ ScreenIsCurrent

LEMMA DrawShows ==
  ASSUME ConsoleTypeOK, ScreenInv, Draw
  PROVE  ScreenInv'
<1> DEFINE width == size.width
           area == size.area
           lines == Lines
           scroll == IF g_paused THEN Clamped(g_scroll, Lines, width, area) ELSE g_scroll
           above == IF g_paused THEN scroll ELSE 0
           rows == AllRows(lines, width)
<1>1. /\ g_scroll' = scroll
      /\ shown' = Rendered(lines, width, area, above)
      /\ UNCHANGED <<g_phase, g_app, g_lines, g_paused, g_frozen, size>>
  BY DEF Draw, lifeVars, logVars
<1>2. /\ g_scroll \in Nat /\ (~g_paused => g_scroll = 0)
      /\ (g_phase = "RUNNING" => g_app)
      /\ lines \in Seq(LogLine) /\ width \in Nat \ {0} /\ area \in Nat \ {0}
  BY DEF ScreenInv, ConsoleTypeOK, Lines
<1>3. above \in {0, Clamped(g_scroll, lines, width, area)} /\ scroll = above
  BY <1>2
<1>4. Lines' = lines /\ size'.width = width /\ size'.area = area
  BY <1>1 DEF Lines
<1> HIDE DEF width, area, lines, scroll, above
<1>5. /\ above \in Nat
      /\ shown' = WindowOf(rows, area, above)
      /\ Len(shown') = AtMost(area, Len(rows))
  BY <1>1, <1>2, <1>3, DrawnWindow
<1>6. g_scroll' = above /\ (~g_paused' => g_scroll' = 0)
  BY <1>1, <1>3 DEF above
<1>7. ScreenIsCurrent'
  BY <1>4, <1>5, <1>6 DEF ScreenIsCurrent
<1> QED BY <1>1, <1>2, <1>5, <1>6, <1>7 DEF ScreenInv

LEMMA ScreenNext ==
  ASSUME ConsoleTypeOK, PauseInv, ScreenInv, [Next]_vars
  PROVE  ScreenInv'
<1>1. /\ g_scroll \in Nat /\ (g_phase = "RUNNING" => g_app)
      /\ (~g_paused => g_scroll = 0) /\ ScreenIsCurrent
  BY DEF ScreenInv
<1>2. ASSUME g_scroll' \in Nat, g_phase' = "RUNNING" => g_app',
             ~g_paused' => g_scroll' = 0,
             g_phase' # "RUNNING" \/ redraw'
      PROVE  ScreenInv'
  BY <1>2 DEF ScreenInv, ScreenIsCurrent
<1>3. ASSUME UNCHANGED <<g_phase, g_app, g_lines, g_paused, g_frozen, g_scroll,
                         size, redraw, shown>>
      PROVE  ScreenInv'
  <2>1. Lines' = Lines
    BY <1>3 DEF Lines
  <2>2. ScreenIsCurrent'
    BY <1>1, <1>3, <2>1 DEF ScreenIsCurrent
  <2> QED BY <1>1, <1>3, <2>2 DEF ScreenInv
<1>4. CASE Log
  <2>1. UNCHANGED <<g_phase, g_app, g_paused, g_scroll>>
    BY <1>4 DEF Log, lifeVars, pauseVars
  <2>2. g_phase # "RUNNING" \/ redraw'
    BY <1>1, <1>4 DEF Log, PostEvent
  <2> QED BY <1>1, <1>2, <2>1, <2>2
<1>5. CASE SerialRequestsExit
  BY <1>3, <1>5 DEF SerialRequestsExit, RequestExit, logVars, pauseVars, screenVars
<1>6. CASE RunBegins
  BY <1>1, <1>2, <1>6 DEF RunBegins, pauseVars
<1>7. CASE RunSkipped
  <2>1. g_phase' = "FINISHED" /\ UNCHANGED <<g_paused, g_scroll>>
    BY <1>7 DEF RunSkipped, pauseVars
  <2> QED BY <1>1, <1>2, <2>1
<1>8. CASE RunEnds
  <2>1. g_phase' = "FINISHED" /\ UNCHANGED <<g_paused, g_scroll>>
    BY <1>8 DEF RunEnds, pauseVars
  <2> QED BY <1>1, <1>2, <2>1
<1>9. ASSUME Event, g_scroll' \in Nat, ~g_paused' => g_scroll' = 0 PROVE ScreenInv'
  <2>1. redraw' = TRUE /\ UNCHANGED <<g_phase, g_app>>
    BY <1>9 DEF Event
  <2> QED BY <1>1, <1>2, <1>9, <2>1
<1>10. ASSUME NEW rows \in Steps, ScrollUp(rows) PROVE ScreenInv'
  <2>1. Event /\ g_scroll' = g_scroll + rows /\ rows \in Nat
    BY <1>10 DEF ScrollUp
  <2>2. g_paused'
    BY <1>10 DEF ScrollUp, pause_locked
  <2> QED BY <1>1, <1>9, <2>1, <2>2
<1>11. ASSUME NEW rows \in Steps, ScrollDown(rows) PROVE ScreenInv'
  <2> DEFINE left == g_scroll - AtMost(g_scroll, rows)
  <2>1. left \in Nat /\ (g_scroll = 0 => left = 0)
    BY <1>1 DEF AtMost
  <2> HIDE DEF left
  <2>2. /\ Event
        /\ IF left = 0 /\ g_paused_by_scroll THEN resume_locked
           ELSE g_scroll' = left /\ UNCHANGED g_paused
    BY <1>11 DEF ScrollDown, left
  <2> QED BY <1>1, <1>9, <2>1, <2>2 DEF resume_locked
<1>12. CASE Button
  BY <1>1, <1>9, <1>12 DEF Button, resume_locked, pause_locked
<1>13. CASE Escape
  BY <1>1, <1>9, <1>13 DEF Escape, resume_locked
<1>14. CASE CtrlC
  BY <1>1, <1>9, <1>14 DEF CtrlC, pauseVars
<1>15. CASE Resize
  BY <1>1, <1>9, <1>15 DEF Resize, pauseVars
<1>16. ASSUME NEW name \in Commands, Enter(name) PROVE ScreenInv'
  BY <1>1, <1>9, <1>16 DEF Enter, resume_locked
<1>17. CASE CommandDone
  <2>1. CASE executing = "help"
    <3>1. /\ pause_locked(FALSE) /\ PostEvent /\ UNCHANGED <<g_scroll, g_phase, g_app>>
      BY <1>17, <2>1 DEF CommandDone
    <3>2. g_paused'
      BY <3>1 DEF pause_locked
    <3>3. g_phase' # "RUNNING" \/ redraw'
      BY <1>1, <3>1 DEF PostEvent
    <3> QED BY <1>1, <1>2, <3>1, <3>2, <3>3
  <2>2. CASE executing # "help"
    <3>1. UNCHANGED <<redraw, pauseVars, g_phase, g_app, logVars, size, shown>>
      BY <1>17, <2>2 DEF CommandDone
    <3> QED BY <1>3, <3>1 DEF pauseVars, logVars
  <2> QED BY <2>1, <2>2
<1>18. CASE Draw
  BY <1>18, DrawShows
<1>19. CASE UNCHANGED vars
  BY <1>3, <1>19 DEF vars, lifeVars, logVars, pauseVars, screenVars
<1> QED BY <1>4, <1>5, <1>6, <1>7, <1>8, <1>10, <1>11, <1>12, <1>13, <1>14, <1>15,
           <1>16, <1>17, <1>18, <1>19 DEF Next, UserNext, UiStep

(***************************************************************************)
(* Whoever logs, scrolls, holds, resizes and types: once no redraw is      *)
(* pending, the screen is the window that the scroll position names, of    *)
(* the log or of the copy held, and it is full if there are rows enough.   *)
(***************************************************************************)
THEOREM ScreenStaysCurrent == Spec => []ScreenIsCurrent
<1>1. Init => ScreenInv
  BY DEF Init, ScreenInv, ScreenIsCurrent
<1>2. ConsoleInv /\ ScreenInv /\ [Next]_vars => ScreenInv'
  BY ScreenNext DEF ConsoleInv
<1>3. ScreenInv => ScreenIsCurrent
  BY DEF ScreenInv
<1> QED BY <1>1, <1>2, <1>3, ConsoleInvariant, PTL DEF Spec

-----------------------------------------------------------------------------
(* The commands. *)

HIDE ConsoleAssumption
USE CommandsAssumption

\* What a field may hold once the device has taken it.
Kept == {Rounded[v] : v \in Values}

DeviceState == [at : Nat \ {0}, data : [Fields -> Kept]]

Base == DeviceState \cup {Nothing}

ReadFrame == [kind : {"read"}, msg : Messages]

WriteFrame == [kind : {"write"}, msg : Messages, data : [Fields -> Values],
               given : Arguments, known : Nat]

ReplyFrame == [msg : Messages,
               copy : [at : Nat, data : [Fields -> Kept \cup {Misread}]]]

CommandRecord == [msg : Messages, base : Base, known : Nat]

CommandsTypeOK ==
  /\ device \in [Messages -> DeviceState]
  /\ to_dev \in Seq(ReadFrame \cup WriteFrame)
  /\ from_dev \in Seq(ReplyFrame)
  /\ g_cache \in [Messages -> Base]
  /\ received \in [Messages -> Nat]
  /\ command \in Seq(CommandRecord) /\ Len(command) <= 1

\* A state of m: an earlier one than the device's, or the same.
Agrees(state, m) ==
  /\ state.at <= device[m].at
  /\ state.at = device[m].at => state.data = device[m].data

\* The cache and the base of a command are what the device had then.
BasesAgree ==
  /\ \A m \in Messages : received[m] = g_cache[m].at /\ Agrees(g_cache[m], m)
  /\ \A i \in DOMAIN command :
       /\ command[i].known = command[i].base.at
       /\ Agrees(command[i].base, command[i].msg)

\* So is a reply on the line, if its struct is the one that is written.
ReplyAgrees(reply) ==
  reply.msg \in SameStruct => reply.copy \in DeviceState /\ Agrees(reply.copy, reply.msg)

\* A write on the line leaves a field it was not given as it was when the
\* device had the state the command knew.
WriteAgrees(frame) ==
  frame.kind = "write" =>
    /\ frame.known <= device[frame.msg].at
    /\ frame.known = device[frame.msg].at =>
         \A f \in Fields \ DOMAIN frame.given :
           frame.data[f] = device[frame.msg].data[f]

\* NothingSilentlyWritten of one frame.
WriteGiven(frame) ==
  frame.kind = "write" =>
    \A f \in Fields :
      IF f \in DOMAIN frame.given THEN frame.data[f] = frame.given[f]
      ELSE frame.data[f] \in Kept

LineAgrees ==
  /\ \A i \in DOMAIN from_dev : ReplyAgrees(from_dev[i])
  /\ \A i \in DOMAIN to_dev : WriteAgrees(to_dev[i]) /\ WriteGiven(to_dev[i])

CommandsInv == CommandsTypeOK /\ BasesAgree /\ LineAgrees
-----------------------------------------------------------------------------
(* Queues, by their elements. *)

LEMMA Tails ==
  ASSUME NEW S, NEW s \in Seq(S), s # <<>>
  PROVE  /\ Tail(s) \in Seq(S) /\ Head(s) \in S
         /\ 1 \in DOMAIN s /\ Head(s) = s[1]
         /\ \A i \in DOMAIN Tail(s) : i + 1 \in DOMAIN s /\ Tail(s)[i] = s[i + 1]
OBVIOUS

LEMMA Appends ==
  ASSUME NEW S, NEW s \in Seq(S), NEW e \in S
  PROVE  /\ Append(s, e) \in Seq(S)
         /\ \A i \in DOMAIN Append(s, e) :
              Append(s, e)[i] = e \/ (i \in DOMAIN s /\ Append(s, e)[i] = s[i])
OBVIOUS

LEMMA RoundedKept ==
  /\ Kept \subseteq Values
  /\ \A v \in Values : Rounded[v] \in Kept
  /\ \A v \in Kept : Rounded[v] = v
BY DEF Kept

\* There is a write command between its base and its end, or there is none.
LEMMA OneCommand ==
  ASSUME CommandsTypeOK
  PROVE  /\ command = <<>> => DOMAIN command = {}
         /\ command # <<>> => DOMAIN command = {1} /\ command[1] \in CommandRecord
         /\ \A c \in CommandRecord : <<c>> \in Seq(CommandRecord) /\ Len(<<c>>) = 1
                                     /\ DOMAIN <<c>> = {1} /\ <<c>>[1] = c
         /\ <<>> \in Seq(CommandRecord) /\ Len(<<>>) = 0 /\ DOMAIN <<>> = {}
<1>1. command \in Seq(CommandRecord) /\ Len(command) <= 1
  BY DEF CommandsTypeOK
<1>2. command = <<>> => DOMAIN command = {}
  OBVIOUS
<1>3. command # <<>> => DOMAIN command = {1} /\ command[1] \in CommandRecord
  <2> SUFFICES ASSUME command # <<>>
               PROVE  DOMAIN command = {1} /\ command[1] \in CommandRecord
    OBVIOUS
  <2>1. 1 \in DOMAIN command
    BY <1>1, Tails
  <2>2. DOMAIN command = 1 .. Len(command) /\ Len(command) \in Nat
    BY <1>1
  <2>3. Len(command) = 1
    BY <1>1, <2>1, <2>2
  <2> QED BY <1>1, <2>1, <2>2, <2>3
<1>4. \A c \in CommandRecord : <<c>> \in Seq(CommandRecord) /\ Len(<<c>>) = 1
                               /\ DOMAIN <<c>> = {1} /\ <<c>>[1] = c
  OBVIOUS
<1>5. <<>> \in Seq(CommandRecord) /\ Len(<<>>) = 0 /\ DOMAIN <<>> = {}
  OBVIOUS
<1> QED BY <1>2, <1>3, <1>4, <1>5
-----------------------------------------------------------------------------
(* What the device's steps keep. *)

\* A message's state stays as it is, or is replaced by a later one.
Moves == \A m \in Messages : device'[m] = device[m] \/ device'[m].at > device[m].at

LEMMA MovesKeep ==
  ASSUME CommandsTypeOK, device' \in [Messages -> DeviceState], Moves
  PROVE  /\ \A m \in Messages : \A state :
              state.at \in Nat /\ Agrees(state, m) => Agrees(state, m)'
         /\ \A reply \in ReplyFrame : ReplyAgrees(reply) => ReplyAgrees(reply)'
         /\ \A frame \in ReadFrame \cup WriteFrame :
              WriteAgrees(frame) => WriteAgrees(frame)'
<1>1. ASSUME NEW m \in Messages
      PROVE  /\ device[m].at \in Nat /\ device'[m].at \in Nat
             /\ device'[m] = device[m] \/ device'[m].at > device[m].at
  BY DEF CommandsTypeOK, DeviceState, Moves
<1>2. ASSUME NEW m \in Messages, NEW state, state.at \in Nat, Agrees(state, m)
      PROVE  Agrees(state, m)'
  BY <1>1, <1>2 DEF Agrees
<1>3. ASSUME NEW reply \in ReplyFrame, ReplyAgrees(reply)
      PROVE  ReplyAgrees(reply)'
  BY <1>2, <1>3 DEF ReplyAgrees, ReplyFrame, DeviceState
<1>4. ASSUME NEW frame \in ReadFrame \cup WriteFrame, WriteAgrees(frame)
      PROVE  WriteAgrees(frame)'
  <2> SUFFICES ASSUME frame.kind = "write"
               PROVE  /\ frame.known <= device'[frame.msg].at
                      /\ frame.known = device'[frame.msg].at =>
                           \A f \in Fields \ DOMAIN frame.given :
                             frame.data[f] = device'[frame.msg].data[f]
    BY DEF WriteAgrees
  <2>1. frame.msg \in Messages /\ frame.known \in Nat
    BY DEF ReadFrame, WriteFrame
  <2> QED BY <1>1, <1>4, <2>1 DEF WriteAgrees
<1> QED BY <1>2, <1>3, <1>4

\* So what is not the line's keeps agreeing while the device moves.
LEMMA MovesBases ==
  ASSUME CommandsInv, device' \in [Messages -> DeviceState], Moves,
         UNCHANGED <<g_cache, received, command>>
  PROVE  BasesAgree'
<1>1. \A m \in Messages : g_cache[m].at \in Nat
  BY DEF CommandsInv, CommandsTypeOK, Base, DeviceState, Nothing
<1>2. \A i \in DOMAIN command :
        command[i].msg \in Messages /\ command[i].base.at \in Nat
  <2>1. \A i \in DOMAIN command : command[i] \in CommandRecord
    BY DEF CommandsInv, CommandsTypeOK
  <2> QED BY <2>1 DEF CommandRecord, Base, DeviceState, Nothing
<1>3. \A m \in Messages : received'[m] = g_cache'[m].at /\ Agrees(g_cache[m], m)'
  BY <1>1, MovesKeep DEF CommandsInv, BasesAgree
<1>4. \A i \in DOMAIN command :
        /\ command[i].known = command[i].base.at
        /\ Agrees(command[i].base, command[i].msg)'
  BY <1>2, MovesKeep DEF CommandsInv, BasesAgree
<1> QED BY <1>3, <1>4 DEF BasesAgree, Agrees
-----------------------------------------------------------------------------
LEMMA InitCommandsInv == CommandsInit => CommandsInv
<1> SUFFICES ASSUME CommandsInit PROVE CommandsInv
  OBVIOUS
<1>1. /\ DOMAIN to_dev = {} /\ DOMAIN from_dev = {} /\ DOMAIN command = {}
      /\ command \in Seq(CommandRecord) /\ Len(command) = 0
      /\ to_dev \in Seq(ReadFrame \cup WriteFrame) /\ from_dev \in Seq(ReplyFrame)
  BY DEF CommandsInit
<1>2. device \in [Messages -> DeviceState] /\ \A m \in Messages : device[m].at = 1
  BY DEF CommandsInit, DeviceState, Kept
<1>3. /\ g_cache \in [Messages -> Base] /\ received \in [Messages -> Nat]
      /\ \A m \in Messages : g_cache[m] = Nothing /\ received[m] = 0
  BY DEF CommandsInit, Base
<1>4. CommandsTypeOK
  BY <1>1, <1>2, <1>3 DEF CommandsTypeOK
<1>5. BasesAgree
  BY <1>1, <1>2, <1>3 DEF BasesAgree, Agrees, Nothing
<1>6. LineAgrees
  BY <1>1 DEF LineAgrees
<1> QED BY <1>4, <1>5, <1>6 DEF CommandsInv

LEMMA ReadCommandInv ==
  ASSUME CommandsInv, NEW m \in Messages, ReadCommand(m)
  PROVE  CommandsInv'
<1> DEFINE r == [kind |-> "read", msg |-> m]
<1>1. /\ to_dev' = Append(to_dev, r)
      /\ UNCHANGED <<device, from_dev, g_cache, received, command>>
  BY DEF ReadCommand, deviceVars
<1>2. r \in ReadFrame \cup WriteFrame /\ r.kind # "write"
  BY DEF ReadFrame
<1> HIDE DEF r
<1>3. /\ to_dev' \in Seq(ReadFrame \cup WriteFrame)
      /\ \A i \in DOMAIN to_dev' :
           to_dev'[i] = r \/ (i \in DOMAIN to_dev /\ to_dev'[i] = to_dev[i])
  BY <1>1, <1>2, Appends DEF CommandsInv, CommandsTypeOK
<1>4. CommandsTypeOK'
  BY <1>1, <1>3 DEF CommandsInv, CommandsTypeOK
<1>5. BasesAgree'
  BY <1>1 DEF CommandsInv, BasesAgree, Agrees
<1>6. \A i \in DOMAIN to_dev' : WriteAgrees(to_dev'[i]) /\ WriteGiven(to_dev'[i])
  BY <1>2, <1>3 DEF CommandsInv, LineAgrees, WriteAgrees, WriteGiven
<1>7. LineAgrees'
  BY <1>1, <1>6
  DEF CommandsInv, LineAgrees, ReplyAgrees, Agrees, WriteAgrees, WriteGiven
<1> QED BY <1>4, <1>5, <1>7 DEF CommandsInv

LEMMA WriteCommandInv ==
  ASSUME CommandsInv, NEW m \in Messages, WriteCommand(m)
  PROVE  CommandsInv'
<1> DEFINE c == [msg |-> m, base |-> g_cache[m], known |-> received[m]]
<1>1. /\ command' = <<c>>
      /\ UNCHANGED <<device, to_dev, from_dev, g_cache, received>>
  BY DEF WriteCommand, deviceVars
<1>2. /\ c \in CommandRecord /\ c.known = c.base.at
      /\ c.base = g_cache[m] /\ c.msg = m /\ Agrees(g_cache[m], m)
  BY DEF CommandsInv, CommandsTypeOK, BasesAgree, CommandRecord
<1> HIDE DEF c
<1>3. /\ command' \in Seq(CommandRecord) /\ Len(command') = 1
      /\ DOMAIN command' = {1} /\ command'[1] = c
  BY <1>1, <1>2, OneCommand DEF CommandsInv
<1>4. CommandsTypeOK'
  BY <1>1, <1>3 DEF CommandsInv, CommandsTypeOK
<1>5. BasesAgree'
  BY <1>1, <1>2, <1>3 DEF CommandsInv, BasesAgree, Agrees
<1>6. LineAgrees'
  BY <1>1 DEF CommandsInv, LineAgrees, ReplyAgrees, Agrees, WriteAgrees, WriteGiven
<1> QED BY <1>4, <1>5, <1>6 DEF CommandsInv

\* A write carries what was given and, for the rest, its base: without one,
\* every field was given.
LEMMA WriteSendsInv ==
  ASSUME CommandsInv, NEW given \in Arguments, WriteSends(given)
  PROVE  CommandsInv'
<1> DEFINE c == command[1]
           w == [kind |-> "write", msg |-> c.msg, data |-> Overlaid(given),
                 given |-> given, known |-> c.known]
<1>1. /\ to_dev' = Append(to_dev, w) /\ command' = <<>> /\ command # <<>>
      /\ UNCHANGED <<device, from_dev, g_cache, received>>
      /\ c.base # Nothing \/ DOMAIN given = Fields
  BY DEF WriteSends, Accepts, deviceVars
<1>2. /\ c \in CommandRecord /\ c.known = c.base.at /\ Agrees(c.base, c.msg)
  BY <1>1, OneCommand DEF CommandsInv, BasesAgree
<1>3. /\ DOMAIN given \subseteq Fields
      /\ \A f \in DOMAIN given : given[f] \in Values
  BY DEF Arguments
<1>4. \A f \in Fields \ DOMAIN given : c.base \in DeviceState /\ c.base.data[f] \in Kept
  BY <1>1, <1>2 DEF CommandRecord, Base, DeviceState
<1>5. /\ Overlaid(given) \in [Fields -> Values]
      /\ \A f \in Fields : Overlaid(given)[f] =
           IF f \in DOMAIN given THEN given[f] ELSE c.base.data[f]
  BY <1>3, <1>4, RoundedKept DEF Overlaid
<1>6. w \in WriteFrame /\ w.kind = "write" /\ w.msg = c.msg /\ w.given = given
      /\ w.data = Overlaid(given) /\ w.known = c.known
  BY <1>2, <1>5 DEF WriteFrame, CommandRecord
<1>7. WriteAgrees(w)
  BY <1>2, <1>5, <1>6 DEF WriteAgrees, Agrees
<1>8. WriteGiven(w)
  BY <1>4, <1>5, <1>6 DEF WriteGiven
<1> HIDE DEF w, c
<1>9. /\ to_dev' \in Seq(ReadFrame \cup WriteFrame)
      /\ \A i \in DOMAIN to_dev' :
           to_dev'[i] = w \/ (i \in DOMAIN to_dev /\ to_dev'[i] = to_dev[i])
  BY <1>1, <1>6, Appends DEF CommandsInv, CommandsTypeOK
<1>10. /\ command' \in Seq(CommandRecord) /\ Len(command') <= 1
       /\ DOMAIN command' = {}
  BY <1>1, OneCommand DEF CommandsInv
<1>11. CommandsTypeOK'
  BY <1>1, <1>9, <1>10 DEF CommandsInv, CommandsTypeOK
<1>12. BasesAgree'
  BY <1>1, <1>10 DEF CommandsInv, BasesAgree, Agrees
<1>13. \A i \in DOMAIN to_dev' : WriteAgrees(to_dev'[i]) /\ WriteGiven(to_dev'[i])
  BY <1>7, <1>8, <1>9 DEF CommandsInv, LineAgrees
<1>14. LineAgrees'
  BY <1>1, <1>13
  DEF CommandsInv, LineAgrees, ReplyAgrees, Agrees, WriteAgrees, WriteGiven
<1> QED BY <1>11, <1>12, <1>14 DEF CommandsInv

LEMMA WriteRefusedInv ==
  ASSUME CommandsInv, WriteRefused
  PROVE  CommandsInv'
<1>1. /\ command' = <<>>
      /\ UNCHANGED <<device, to_dev, from_dev, g_cache, received>>
  BY DEF WriteRefused, deviceVars
<1>2. /\ command' \in Seq(CommandRecord) /\ Len(command') <= 1
      /\ DOMAIN command' = {}
  BY <1>1, OneCommand DEF CommandsInv
<1>3. CommandsTypeOK'
  BY <1>1, <1>2 DEF CommandsInv, CommandsTypeOK
<1>4. BasesAgree'
  BY <1>1, <1>2 DEF CommandsInv, BasesAgree, Agrees
<1>5. LineAgrees'
  BY <1>1 DEF CommandsInv, LineAgrees, ReplyAgrees, Agrees, WriteAgrees, WriteGiven
<1> QED BY <1>3, <1>4, <1>5 DEF CommandsInv

LEMMA RememberInv ==
  ASSUME CommandsInv, Remember
  PROVE  CommandsInv'
<1> DEFINE r == Head(from_dev)
<1>1. /\ from_dev # <<>> /\ from_dev' = Tail(from_dev)
      /\ UNCHANGED <<device, to_dev, command>>
      /\ IF r.msg \in SameStruct
         THEN /\ g_cache' = [g_cache EXCEPT ![r.msg] = r.copy]
              /\ received' = [received EXCEPT ![r.msg] = r.copy.at]
         ELSE UNCHANGED <<g_cache, received>>
  BY DEF Remember, deviceVars
<1>2. /\ from_dev' \in Seq(ReplyFrame) /\ r \in ReplyFrame
      /\ 1 \in DOMAIN from_dev /\ r = from_dev[1]
      /\ \A i \in DOMAIN from_dev' :
           i + 1 \in DOMAIN from_dev /\ from_dev'[i] = from_dev[i + 1]
  BY <1>1, Tails DEF CommandsInv, CommandsTypeOK
<1>3. ReplyAgrees(r)
  BY <1>2 DEF CommandsInv, LineAgrees
<1>4. r.msg \in SameStruct =>
        /\ r.msg \in Messages /\ r.copy \in DeviceState /\ r.copy.at \in Nat
        /\ Agrees(r.copy, r.msg)
  BY <1>3 DEF ReplyAgrees, DeviceState
<1> HIDE DEF r
<1>5. /\ g_cache' \in [Messages -> Base] /\ received' \in [Messages -> Nat]
      /\ \A m \in Messages : received'[m] = g_cache'[m].at /\ Agrees(g_cache'[m], m)
  <2>1. /\ g_cache \in [Messages -> Base] /\ received \in [Messages -> Nat]
        /\ \A m \in Messages : received[m] = g_cache[m].at /\ Agrees(g_cache[m], m)
    BY DEF CommandsInv, CommandsTypeOK, BasesAgree
  <2>2. CASE r.msg \in SameStruct
    <3>1. r.copy \in Base
      BY <1>4, <2>2 DEF Base
    <3>2. g_cache' \in [Messages -> Base] /\ received' \in [Messages -> Nat]
      BY <1>1, <1>4, <2>1, <2>2, <3>1
    <3>3. ASSUME NEW m \in Messages
          PROVE  received'[m] = g_cache'[m].at /\ Agrees(g_cache'[m], m)
      <4>1. CASE m = r.msg
        BY <1>1, <1>4, <2>1, <2>2, <4>1
      <4>2. CASE m # r.msg
        BY <1>1, <2>1, <2>2, <4>2
      <4> QED BY <4>1, <4>2
    <3> QED BY <3>2, <3>3
  <2>3. CASE r.msg \notin SameStruct
    BY <1>1, <2>1, <2>3
  <2> QED BY <2>2, <2>3
<1>6. CommandsTypeOK'
  BY <1>1, <1>2, <1>5 DEF CommandsInv, CommandsTypeOK
<1>7. BasesAgree'
  BY <1>1, <1>5 DEF CommandsInv, BasesAgree, Agrees
<1>8. \A i \in DOMAIN from_dev' : ReplyAgrees(from_dev'[i])
  BY <1>2 DEF CommandsInv, LineAgrees
<1>9. LineAgrees'
  BY <1>1, <1>8
  DEF CommandsInv, LineAgrees, ReplyAgrees, Agrees, WriteAgrees, WriteGiven
<1> QED BY <1>6, <1>7, <1>9 DEF CommandsInv

LEMMA LoseInv ==
  ASSUME CommandsInv, Lose
  PROVE  CommandsInv'
<1>1. /\ UNCHANGED <<device, g_cache, received, command>>
      /\ \/ to_dev # <<>> /\ to_dev' = Tail(to_dev) /\ UNCHANGED from_dev
         \/ from_dev # <<>> /\ from_dev' = Tail(from_dev) /\ UNCHANGED to_dev
  BY DEF Lose, deviceVars, consoleVars
<1>2. /\ to_dev' \in Seq(ReadFrame \cup WriteFrame) /\ from_dev' \in Seq(ReplyFrame)
      /\ \A i \in DOMAIN to_dev' : \E j \in DOMAIN to_dev : to_dev'[i] = to_dev[j]
      /\ \A i \in DOMAIN from_dev' :
           \E j \in DOMAIN from_dev : from_dev'[i] = from_dev[j]
  <2>1. CASE to_dev # <<>> /\ to_dev' = Tail(to_dev) /\ UNCHANGED from_dev
    BY <2>1, Tails DEF CommandsInv, CommandsTypeOK
  <2>2. CASE from_dev # <<>> /\ from_dev' = Tail(from_dev) /\ UNCHANGED to_dev
    BY <2>2, Tails DEF CommandsInv, CommandsTypeOK
  <2> QED BY <1>1, <2>1, <2>2
<1>3. CommandsTypeOK'
  BY <1>1, <1>2 DEF CommandsInv, CommandsTypeOK
<1>4. BasesAgree'
  BY <1>1 DEF CommandsInv, BasesAgree, Agrees
<1>5. /\ \A i \in DOMAIN to_dev' : WriteAgrees(to_dev'[i]) /\ WriteGiven(to_dev'[i])
      /\ \A i \in DOMAIN from_dev' : ReplyAgrees(from_dev'[i])
  BY <1>2 DEF CommandsInv, LineAgrees
<1>6. LineAgrees'
  BY <1>1, <1>5 DEF LineAgrees, ReplyAgrees, Agrees, WriteAgrees, WriteGiven
<1> QED BY <1>3, <1>4, <1>6 DEF CommandsInv

\* A step of the device: its states move on, what the host has stays, frames to
\* it are taken and replies tell its new state.
LEMMA DeviceInv ==
  ASSUME CommandsInv, device' \in [Messages -> DeviceState], Moves,
         UNCHANGED <<g_cache, received, command>>,
         to_dev' \in Seq(ReadFrame \cup WriteFrame),
         \A i \in DOMAIN to_dev' : \E j \in DOMAIN to_dev : to_dev'[i] = to_dev[j],
         from_dev' \in Seq(ReplyFrame),
         \A i \in DOMAIN from_dev' :
           \/ \E j \in DOMAIN from_dev : from_dev'[i] = from_dev[j]
           \/ \E m \in Messages : from_dev'[i] = Reply(m, device'[m])
  PROVE  CommandsInv'
<1>1. CommandsTypeOK'
  BY DEF CommandsInv, CommandsTypeOK
<1>2. BasesAgree'
  BY MovesBases
<1>3. ASSUME NEW i \in DOMAIN from_dev' PROVE ReplyAgrees(from_dev[i])'
  <2>1. CASE \E j \in DOMAIN from_dev : from_dev'[i] = from_dev[j]
    <3>1. PICK x : x = from_dev'[i]
      OBVIOUS
    <3>2. x \in ReplyFrame /\ ReplyAgrees(x)
      BY <2>1, <3>1 DEF CommandsInv, CommandsTypeOK, LineAgrees
    <3>3. ReplyAgrees(x)'
      BY <3>2, MovesKeep DEF CommandsInv
    <3> QED BY <3>1, <3>3 DEF ReplyAgrees, Agrees
  <2>2. CASE \E m \in Messages : from_dev'[i] = Reply(m, device'[m])
    <3>1. PICK m \in Messages : from_dev'[i] = Reply(m, device'[m])
      BY <2>2
    <3>2. device'[m] \in DeviceState /\ device'[m].at \in Nat
      BY DEF DeviceState
    <3>3. from_dev'[i].msg = m
          /\ (m \in SameStruct => from_dev'[i].copy = device'[m])
      BY <3>1 DEF Reply
    <3> QED BY <3>2, <3>3 DEF ReplyAgrees, Agrees
  <2> QED BY <2>1, <2>2
<1>4. ASSUME NEW i \in DOMAIN to_dev'
      PROVE  WriteAgrees(to_dev[i])' /\ WriteGiven(to_dev[i])'
  <2>1. PICK x : x = to_dev'[i]
    OBVIOUS
  <2>2. x \in ReadFrame \cup WriteFrame /\ WriteAgrees(x) /\ WriteGiven(x)
    BY <2>1 DEF CommandsInv, CommandsTypeOK, LineAgrees
  <2>3. WriteAgrees(x)'
    BY <2>2, MovesKeep DEF CommandsInv
  <2> QED BY <2>1, <2>2, <2>3 DEF WriteAgrees, WriteGiven
<1>5. LineAgrees'
  BY <1>3, <1>4 DEF LineAgrees
<1> QED BY <1>1, <1>2, <1>5 DEF CommandsInv

\* A reply is of the shape of one.
LEMMA ReplyShape ==
  ASSUME NEW m \in Messages, NEW state \in DeviceState
  PROVE  Reply(m, state) \in ReplyFrame
<1>1. state.at \in Nat /\ state.data \in [Fields -> Kept] /\ state = [at |-> state.at, data |-> state.data]
  BY DEF DeviceState
<1>2. CASE m \in SameStruct
  <2>1. state.data \in [Fields -> Kept \cup {Misread}]
    BY <1>1
  <2> QED BY <1>1, <1>2, <2>1 DEF Reply, ReplyFrame
<1>3. CASE m \notin SameStruct
  <2> DEFINE d == [f \in Fields |-> Misread]
  <2>1. d \in [Fields -> Kept \cup {Misread}]
    OBVIOUS
  <2> HIDE DEF d
  <2>2. [state EXCEPT !.data = d] = [at |-> state.at, data |-> d]
    BY <1>1
  <2>3. Reply(m, state) = [msg |-> m, copy |-> [at |-> state.at, data |-> d]]
    BY <1>3, <2>2 DEF Reply, d
  <2> QED BY <1>1, <2>1, <2>3 DEF ReplyFrame
<1> QED BY <1>2, <1>3

\* What the device makes of the frame that arrives.
LEMMA TakenState ==
  ASSUME CommandsTypeOK, DeviceTakes
  PROVE  LET frame == Head(to_dev)
             m == frame.msg
         IN  /\ to_dev # <<>> /\ frame \in ReadFrame \cup WriteFrame
             /\ frame = to_dev[1] /\ 1 \in DOMAIN to_dev
             /\ m \in Messages
             /\ device' \in [Messages -> DeviceState]
             /\ \A x \in Messages : x # m => device'[x] = device[x]
             /\ frame.kind = "read" => device'[m] = device[m]
             /\ frame.kind = "write" =>
                  /\ frame \in WriteFrame
                  /\ device'[m].at = device[m].at + 1
                  /\ \A f \in Fields : device'[m].data[f] = Rounded[frame.data[f]]
             /\ from_dev' = Append(from_dev, Reply(m, device'[m]))
             /\ to_dev' = Tail(to_dev)
             /\ UNCHANGED <<g_cache, received, command>>
<1> DEFINE frame == Head(to_dev)
           m == frame.msg
           data == [f \in Fields |->
                      IF frame.data[f] \in Values
                      THEN Rounded[frame.data[f]] ELSE frame.data[f]]
           state == IF frame.kind = "read" THEN device[m]
                    ELSE [at |-> device[m].at + 1, data |-> data]
<1>1. /\ to_dev # <<>> /\ to_dev' = Tail(to_dev)
      /\ device' = [device EXCEPT ![m] = state]
      /\ from_dev' = Append(from_dev, Reply(m, state))
      /\ UNCHANGED <<g_cache, received, command>>
  BY DEF DeviceTakes, consoleVars
<1>2. /\ frame \in ReadFrame \cup WriteFrame
      /\ frame = to_dev[1] /\ 1 \in DOMAIN to_dev
  BY <1>1, Tails DEF CommandsTypeOK
<1> HIDE DEF frame
<1>3. /\ m \in Messages /\ frame.kind \in {"read", "write"}
      /\ frame.kind = "write" => frame \in WriteFrame
  BY <1>2 DEF ReadFrame, WriteFrame
<1>4. frame.kind = "write" =>
        /\ \A f \in Fields : frame.data[f] \in Values
        /\ data \in [Fields -> Kept]
        /\ \A f \in Fields : data[f] = Rounded[frame.data[f]]
  BY <1>3, RoundedKept DEF WriteFrame
<1> HIDE DEF data
<1>5. device \in [Messages -> DeviceState] /\ device[m].at \in Nat
  BY <1>3 DEF CommandsTypeOK, DeviceState
<1>6. /\ state \in DeviceState
      /\ frame.kind = "read" => state = device[m]
      /\ frame.kind = "write" => state.at = device[m].at + 1 /\ state.data = data
  BY <1>3, <1>4, <1>5 DEF DeviceState
<1> HIDE DEF state
<1>7. /\ device' \in [Messages -> DeviceState] /\ device'[m] = state
      /\ \A x \in Messages : x # m => device'[x] = device[x]
  BY <1>1, <1>3, <1>5, <1>6
<1> QED BY <1>1, <1>2, <1>3, <1>4, <1>6, <1>7 DEF frame

LEMMA DeviceTakesInv ==
  ASSUME CommandsInv, DeviceTakes
  PROVE  CommandsInv'
<1> DEFINE frame == Head(to_dev)
           m == frame.msg
<1>1. /\ to_dev # <<>> /\ to_dev' = Tail(to_dev)
      /\ frame \in ReadFrame \cup WriteFrame
      /\ m \in Messages /\ device' \in [Messages -> DeviceState]
      /\ \A x \in Messages : x # m => device'[x] = device[x]
      /\ frame.kind = "read" => device'[m] = device[m]
      /\ frame.kind = "write" => device'[m].at = device[m].at + 1
      /\ from_dev' = Append(from_dev, Reply(m, device'[m]))
      /\ UNCHANGED <<g_cache, received, command>>
  BY TakenState DEF CommandsInv
<1> HIDE DEF frame
<1>2. frame.kind \in {"read", "write"}
  BY <1>1 DEF ReadFrame, WriteFrame
<1>3. device[m].at \in Nat
  BY <1>1 DEF CommandsInv, CommandsTypeOK, DeviceState
<1>4. Moves
  BY <1>1, <1>2, <1>3 DEF Moves
<1>5. /\ to_dev' \in Seq(ReadFrame \cup WriteFrame)
      /\ \A i \in DOMAIN to_dev' : \E j \in DOMAIN to_dev : to_dev'[i] = to_dev[j]
  BY <1>1, Tails DEF CommandsInv, CommandsTypeOK
<1>6. Reply(m, device'[m]) \in ReplyFrame
  BY <1>1, ReplyShape
<1>7. /\ from_dev' \in Seq(ReplyFrame)
      /\ \A i \in DOMAIN from_dev' :
           \/ \E j \in DOMAIN from_dev : from_dev'[i] = from_dev[j]
           \/ from_dev'[i] = Reply(m, device'[m])
  BY <1>1, <1>6, Appends DEF CommandsInv, CommandsTypeOK
<1> QED BY <1>1, <1>4, <1>5, <1>7, DeviceInv

LEMMA DeviceChangesInv ==
  ASSUME CommandsInv, NEW m \in Messages, DeviceChanges(m)
  PROVE  CommandsInv'
<1>1. PICK f \in Fields, v \in Kept :
        device' = [device EXCEPT ![m].at = @ + 1, ![m].data[f] = v]
  BY DEF DeviceChanges, Kept
<1>2. /\ from_dev' = from_dev \/ from_dev' = Append(from_dev, Reply(m, device'[m]))
      /\ UNCHANGED <<g_cache, received, command, to_dev>>
  BY DEF DeviceChanges, consoleVars
<1>3. /\ device \in [Messages -> DeviceState] /\ device[m].at \in Nat
      /\ device[m].data \in [Fields -> Kept]
  BY DEF CommandsInv, CommandsTypeOK, DeviceState
<1>4. /\ device' \in [Messages -> DeviceState] /\ device'[m].at = device[m].at + 1
      /\ \A x \in Messages : x # m => device'[x] = device[x]
  <2> DEFINE state == [at |-> device[m].at + 1, data |-> [device[m].data EXCEPT ![f] = v]]
  <2>1. state \in DeviceState
    BY <1>3 DEF DeviceState
  <2>2. device[m] = [at |-> device[m].at, data |-> device[m].data]
    BY <1>3 DEF DeviceState
  <2>3. device'[m] = state /\ \A x \in Messages : x # m => device'[x] = device[x]
    BY <1>1, <1>3, <2>2
  <2>4. device' = [x \in Messages |-> device'[x]]
    <3> DEFINE counted == [device EXCEPT ![m].at = @ + 1]
    <3>1. device' = [counted EXCEPT ![m].data[f] = v]
      BY <1>1
    <3>2. DOMAIN counted = Messages
      BY <1>3
    <3> HIDE DEF counted
    <3>3. device' = [x \in DOMAIN counted |-> device'[x]]
      BY <3>1
    <3> QED BY <3>2, <3>3
  <2> HIDE DEF state
  <2>5. \A x \in Messages : device'[x] \in DeviceState
    BY <1>3, <2>1, <2>3
  <2> QED BY <2>3, <2>4, <2>5 DEF state
<1>5. Moves
  BY <1>3, <1>4 DEF Moves
<1>6. Reply(m, device'[m]) \in ReplyFrame
  BY <1>4, ReplyShape
<1>7. /\ from_dev' \in Seq(ReplyFrame)
      /\ \A i \in DOMAIN from_dev' :
           \/ \E j \in DOMAIN from_dev : from_dev'[i] = from_dev[j]
           \/ from_dev'[i] = Reply(m, device'[m])
  <2>1. from_dev \in Seq(ReplyFrame)
    BY DEF CommandsInv, CommandsTypeOK
  <2>2. CASE from_dev' = from_dev
    BY <2>1, <2>2
  <2>3. CASE from_dev' = Append(from_dev, Reply(m, device'[m]))
    BY <1>6, <2>1, <2>3, Appends
  <2> QED BY <1>2, <2>2, <2>3
<1>8. to_dev' \in Seq(ReadFrame \cup WriteFrame) /\ to_dev' = to_dev
  BY <1>2 DEF CommandsInv, CommandsTypeOK
<1> QED BY <1>2, <1>4, <1>5, <1>7, <1>8, DeviceInv

LEMMA StutterInv ==
  ASSUME CommandsInv, UNCHANGED commandsVars
  PROVE  CommandsInv'
BY DEF CommandsInv, CommandsTypeOK, BasesAgree, LineAgrees, ReplyAgrees, Agrees,
       WriteAgrees, WriteGiven, commandsVars, deviceVars, consoleVars
-----------------------------------------------------------------------------
(***************************************************************************)
(* Replies, cache, bases and writes on the line all hold states the device *)
(* has had, numbered as it numbers them.                                   *)
(***************************************************************************)
THEOREM CommandsInvariant == CommandsSpec => []CommandsInv
<1>1. CommandsInit => CommandsInv
  BY InitCommandsInv
<1>2. ASSUME CommandsInv, [CommandsNext]_commandsVars PROVE CommandsInv'
  <2>1. ASSUME NEW m \in Messages, ReadCommand(m) PROVE CommandsInv'
    BY <1>2, <2>1, ReadCommandInv
  <2>2. ASSUME NEW m \in Messages, WriteCommand(m) PROVE CommandsInv'
    BY <1>2, <2>2, WriteCommandInv
  <2>3. ASSUME NEW m \in Messages, DeviceChanges(m) PROVE CommandsInv'
    BY <1>2, <2>3, DeviceChangesInv
  <2>4. ASSUME NEW given \in Arguments, WriteSends(given) PROVE CommandsInv'
    BY <1>2, <2>4, WriteSendsInv
  <2>5. CASE WriteRefused
    BY <1>2, <2>5, WriteRefusedInv
  <2>6. CASE Remember
    BY <1>2, <2>6, RememberInv
  <2>7. CASE DeviceTakes
    BY <1>2, <2>7, DeviceTakesInv
  <2>8. CASE Lose
    BY <1>2, <2>8, LoseInv
  <2>9. CASE UNCHANGED commandsVars
    BY <1>2, <2>9, StutterInv
  <2> QED BY <1>2, <2>1, <2>2, <2>3, <2>4, <2>5, <2>6, <2>7, <2>8, <2>9 DEF CommandsNext
<1> QED BY <1>1, <1>2, PTL DEF CommandsSpec

(***************************************************************************)
(* Whatever is sent, lost or changed, no write carries a 0 or another      *)
(* struct's bytes in a field that was not given.                           *)
(***************************************************************************)
THEOREM NothingIsSilentlyWritten == CommandsSpec => []NothingSilentlyWritten
<1>1. CommandsInv => NothingSilentlyWritten
  BY DEF CommandsInv, LineAgrees, WriteGiven, NothingSilentlyWritten, Kept
<1> QED BY <1>1, CommandsInvariant, PTL

(***************************************************************************)
(* A write that arrives while the device still has the state its command   *)
(* knew changes the fields it names and no other: what it sends of the     *)
(* rest is what the device had, which rounding leaves as it is.            *)
(***************************************************************************)
THEOREM UpToDateWritesAreExact == CommandsSpec => UpToDateWriteExact
<1>1. ASSUME CommandsInv, WriteApplied,
             Head(to_dev).known = device[Head(to_dev).msg].at
      PROVE  ChangesOnlyGiven
  <2> DEFINE frame == Head(to_dev)
             m == frame.msg
  <2>1. /\ frame = to_dev[1] /\ 1 \in DOMAIN to_dev /\ m \in Messages
        /\ \A f \in Fields : device'[m].data[f] = Rounded[frame.data[f]]
    BY <1>1, TakenState DEF WriteApplied, CommandsInv
  <2>2. WriteAgrees(frame) /\ frame.kind = "write"
    BY <1>1, <2>1 DEF CommandsInv, LineAgrees, WriteApplied
  <2>3. \A f \in Fields \ DOMAIN frame.given : frame.data[f] = device[m].data[f]
    BY <1>1, <2>2 DEF WriteAgrees
  <2>4. \A f \in Fields : device[m].data[f] \in Kept
    BY <1>1, <2>1 DEF CommandsInv, CommandsTypeOK, DeviceState
  <2> HIDE DEF frame
  <2>5. \A f \in Fields \ DOMAIN frame.given : device'[m].data[f] = device[m].data[f]
    BY <2>1, <2>3, <2>4, RoundedKept
  <2> QED BY <2>5 DEF ChangesOnlyGiven, frame
<1>2. CommandsInv /\ [CommandsNext]_commandsVars =>
        [WriteApplied /\ Head(to_dev).known = device[Head(to_dev).msg].at
           => ChangesOnlyGiven]_commandsVars
  BY <1>1
<1> QED BY <1>2, CommandsInvariant, PTL DEF CommandsSpec, UpToDateWriteExact
==============================================================================
