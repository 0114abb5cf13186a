---------------------------- MODULE MonitorProofs ----------------------------
(***************************************************************************)
(* Proofs about the monitor, for any frames of the device and any number   *)
(* of commands.  First its life cycle: what main, the serial thread and    *)
(* the interface may be doing restrict each other, the loop's phase says   *)
(* what became of the port, and from g_signals' installation to Cleanup no *)
(* signal takes its default action.  Then the scene foxglove_viz draws:    *)
(* what is kept of the anchors is what the reports so far said of them.    *)
(* That the monitor is a program of the serial host is in HostProofs.      *)
(***************************************************************************)
EXTENDS Monitor, InductionFacts, SequenceTheorems, FiniteSetTheorems

MonitorTypeOK ==
  /\ serial \in {"null", "open", "closed"}
  /\ loop \in {"before", "running", "failed", "returned", "over"}
  /\ main \in {"open", "ui", "stop", "join", "close", "over"}
  /\ serial_thread \in {"none", "running", "leaving", "done"}
  /\ ui \in {"before", "ready", "looping", "unwinding", "over"}
  /\ g_app \in BOOLEAN /\ serial_error \in BOOLEAN /\ signals \in BOOLEAN
  /\ s_server \in {"none", "open", "closed"}
  /\ s_writer \in {"none", "open", "closed"}
  /\ ended \in {"no", "ok", "error", "killed"}

\* The loop's phase, the port's and the serial thread's.
LoopInv ==
  /\ serial_thread = "none" => loop = "before"
  /\ serial_thread = "running" => loop # "over"
  /\ serial_thread \in {"leaving", "done"} => loop = "over"
  /\ loop = "over" => serial = "null"

\* Main's way, and what has begun and ended along it.
MainInv ==
  /\ main = "open" <=> serial_thread = "none"
  /\ ui \in {"ready", "looping", "unwinding"} => main = "ui"
  /\ main = "open" => s_server = "none" /\ s_writer = "none"
  /\ main \in {"close", "over"} => serial_thread = "done"
  /\ main = "over" => /\ s_server # "open" /\ s_writer # "open"
                      /\ ended \in {"ok", "error"}
                      /\ ended = "error" <=> serial_error

\* The handlers are in place from before the recording until Cleanup.
HandlerInv ==
  /\ main # "open" /\ loop # "over" => signals
  /\ RecordingKept

MonitorInv == MonitorTypeOK /\ LoopInv /\ MainInv /\ HandlerInv /\ AppAlive
-----------------------------------------------------------------------------
LEMMA MonitorInvInit == Init => MonitorInv
BY DEF Init, HostInit, VizInit, MonitorInv, MonitorTypeOK, LoopInv, MainInv,
       HandlerInv, RecordingKept, AppAlive

\* The steps of main and of the interface.
LEMMA MainKeepsInv ==
  ASSUME MonitorInv, MainStep \/ OpenFails
  PROVE  MonitorInv'
<1> USE DEF MonitorInv, MonitorTypeOK, LoopInv, MainInv, HandlerInv, RecordingKept,
            AppAlive, Running
<1>1. CASE MainOpens
  BY <1>1 DEF MainOpens, OpenPort, InstallSignals, monitorVars, outputVars, vizVars, portVars
<1>2. CASE OpenFails
  BY <1>2 DEF OpenFails, hostVars, outputVars, vizVars, portVars
<1>3. CASE MainStarts
  BY <1>3 DEF MainStarts, StartViz, hostVars, portVars
<1>4. CASE UiBegins
  <2>1. UNCHANGED <<serial, signals, loop, s_server, s_writer, serial_thread,
                    serial_error, ended>>
    BY <1>4 DEF UiBegins, hostVars, outputVars, vizVars
  <2>2. CASE g_exit_requested
    BY <1>4, <2>1, <2>2 DEF UiBegins
  <2>3. CASE ~g_exit_requested
    BY <1>4, <2>1, <2>3 DEF UiBegins
  <2> QED BY <2>2, <2>3
<1>10. CASE UiLoops
  BY <1>10 DEF UiLoops, hostVars, portVars, outputVars, vizVars
<1>5. CASE LoopReturns
  BY <1>5 DEF LoopReturns, Raise, hostVars, portVars, outputVars, vizVars
<1>6. CASE UiEnds
  <2>1. /\ ended = "no" /\ ui = "unwinding" /\ main = "ui"
        /\ ui' = "over" /\ main' = "stop" /\ g_app' = FALSE
    BY <1>6 DEF UiEnds
  <2>2. UNCHANGED <<serial, signals, loop, s_server, s_writer, serial_thread,
                    serial_error, ended>>
    BY <1>6 DEF UiEnds, hostVars, portVars, outputVars, vizVars
  <2>3. MonitorTypeOK'
    BY <2>1, <2>2
  <2>4. LoopInv'
    BY <2>2
  <2>5. MainInv'
    BY <2>1, <2>2
  <2>6. HandlerInv' /\ AppAlive'
    BY <2>1, <2>2
  <2> QED BY <2>3, <2>4, <2>5, <2>6
<1>7. CASE MainStops
  BY <1>7 DEF MainStops, Stop, portVars, outputVars, vizVars
<1>8. CASE MainJoins
  BY <1>8 DEF MainJoins, hostVars, portVars, outputVars, vizVars
<1>9. CASE MainReturns
  BY <1>9 DEF MainReturns, ShutdownViz, hostVars, portVars
<1> QED BY <1>1, <1>2, <1>3, <1>4, <1>5, <1>6, <1>7, <1>8, <1>9, <1>10 DEF MainStep

\* The steps of the loop, wherever it runs, and of the line.
LEMMA LoopKeepsInv ==
  ASSUME MonitorInv,
         \/ SerialRuns \/ SerialFails \/ SerialThreadRequestsExit
         \/ LineTakes \/ HandleSignal \/ DeviceReports
  PROVE  MonitorInv'
<1> USE DEF MonitorInv, MonitorTypeOK, LoopInv, MainInv, HandlerInv, RecordingKept,
            AppAlive, Running
<1>1. CASE SerialRuns
  <2>1. /\ ended = "no" /\ serial_thread = "running"
        /\ UNCHANGED <<main, ui, g_app, s_server, s_writer, serial_error, ended>>
        /\ serial_thread' = IF loop' # "over" THEN "running"
                             ELSE IF console THEN "leaving" ELSE "done"
    BY <1>1 DEF SerialRuns, outputVars, vizVars
  <2>2. CASE Run \/ RunReturns \/ RunWriteTask \/ WriteDone
    <3>1. /\ UNCHANGED <<serial, signals>> /\ loop' # "over"
          /\ loop' \in {"before", "running", "failed", "returned", "over"}
      BY <2>1, <2>2 DEF Run, RunReturns, RunWriteTask, WriteDone
    <3> QED BY <2>1, <3>1
  <2>3. CASE Cleanup
    <3>1. serial' = "null" /\ loop' = "over" /\ signals' = FALSE
      BY <2>3 DEF Cleanup
    <3>2. MonitorTypeOK'
      BY <2>1, <3>1
    <3>3. LoopInv'
      BY <2>1, <3>1
    <3>4. MainInv'
      BY <2>1, <3>1
    <3>5. HandlerInv' /\ AppAlive'
      BY <2>1, <3>1
    <3> QED BY <3>2, <3>3, <3>4, <3>5
  <2> QED BY <1>1, <2>2, <2>3 DEF SerialRuns, LoopStep
<1>2. CASE SerialFails
  BY <1>2 DEF SerialFails, PortError, Dispatching, outputVars, vizVars
<1>3. CASE SerialThreadRequestsExit
  BY <1>3 DEF SerialThreadRequestsExit, RequestExit, hostVars, outputVars, vizVars
<1>4. CASE LineTakes
  BY <1>4 DEF LineTakes, Flush, monitorVars, outputVars, vizVars
<1>5. CASE HandleSignal
  BY <1>5 DEF HandleSignal, Stop, outputVars, vizVars
<1>6. CASE DeviceReports
  BY <1>6 DEF DeviceReports, OnFrame, hostVars, monitorVars
<1> QED BY <1>1, <1>2, <1>3, <1>4, <1>5, <1>6

\* What comes from outside.
LEMMA UserKeepsInv ==
  ASSUME MonitorInv, UserCommands \/ UserQuits \/ Signal
  PROVE  MonitorInv'
<1> USE DEF MonitorInv, MonitorTypeOK, LoopInv, MainInv, HandlerInv, RecordingKept,
            AppAlive, Running
<1>1. CASE UserCommands
  BY <1>1 DEF UserCommands, Send, monitorVars, outputVars, vizVars
<1>2. CASE UserQuits
  BY <1>2 DEF UserQuits, RequestExit, hostVars, outputVars, vizVars
<1>3. CASE Signal
  BY <1>3 DEF Signal, Raise, hostVars, outputVars, vizVars
<1> QED BY <1>1, <1>2, <1>3

LEMMA MonitorInvStep == MonitorInv /\ [Next]_allVars => MonitorInv'
<1> SUFFICES ASSUME MonitorInv, [Next]_allVars PROVE MonitorInv'
  OBVIOUS
<1>1. CASE UNCHANGED allVars
  BY <1>1 DEF allVars, hostVars, monitorVars, outputVars, vizVars, MonitorInv,
              MonitorTypeOK, LoopInv, MainInv, HandlerInv, RecordingKept, AppAlive
<1> QED BY <1>1, MainKeepsInv, LoopKeepsInv, UserKeepsInv DEF Next

(***************************************************************************)
(* The monitor's inductive invariant: how the phases of main, of the       *)
(* serial thread, of the loop and of the interface restrict each other,    *)
(* and which of the handlers, server and recording exist in them.          *)
(***************************************************************************)
THEOREM MonitorInvariant == Spec => []MonitorInv
BY MonitorInvInit, MonitorInvStep, PTL DEF Spec

(***************************************************************************)
(* The other threads reach the App through g_app only while there is one:  *)
(* request_exit, on_log and pause never call an App that is gone.          *)
(***************************************************************************)
THEOREM AppIsAlive == Spec => []AppAlive
<1>1. MonitorInv => AppAlive
  BY DEF MonitorInv
<1> QED BY <1>1, MonitorInvariant, PTL

(***************************************************************************)
(* Whoever ends first, and with or without console: when main forms its    *)
(* result (monitor/main.cpp) the serial side is done and the port released,*)
(* and a serial error is in the result.                                    *)
(***************************************************************************)
THEOREM ResultFinal == Spec => []ResultIsFinal
<1>1. MonitorInv => ResultIsFinal
  BY DEF MonitorInv, MonitorTypeOK, LoopInv, MainInv, ResultIsFinal
<1> QED BY <1>1, MonitorInvariant, PTL

(***************************************************************************)
(* No signal, however many come and whoever's handlers are installed,      *)
(* kills the program between the start of the recording and Cleanup.       *)
(***************************************************************************)
THEOREM RecordingIsKept == Spec => []RecordingKept
<1>1. MonitorInv => RecordingKept
  BY DEF MonitorInv, HandlerInv
<1> QED BY <1>1, MonitorInvariant, PTL
-----------------------------------------------------------------------------
(* The scenes the monitor draws. *)

Messages == UNION {{frame[i] : i \in DOMAIN frame} : frame \in Reports}

LEMMA FramesOfMessages ==
  /\ \A frame \in Reports : frame \in Seq(Messages)
  /\ \A m \in Messages :
       m.msg \in {"anchor_pos", "anchor_signal", "location_result"}
<1>1. ASSUME NEW frame \in Reports PROVE frame \in Seq(Messages)
  <2> DEFINE S == {frame[i] : i \in DOMAIN frame}
  <2>1. frame \in Seq(S) /\ S \subseteq Messages
    BY VizAssumption DEF Messages
  <2> HIDE DEF S
  <2> QED BY <2>1
<1>2. ASSUME NEW m \in Messages
      PROVE  m.msg \in {"anchor_pos", "anchor_signal", "location_result"}
  <2>1. PICK frame \in Reports : \E i \in DOMAIN frame : m = frame[i]
    BY DEF Messages
  <2> QED BY <2>1, VizAssumption
<1> QED BY <1>1, <1>2

LEMMA MaxOfSome ==
  ASSUME NEW n \in Nat, NEW S \in SUBSET (1 .. n), S # {}
  PROVE  Max(S) \in S
<1> DEFINE T == {k \in Nat : n - k \in S}
<1>1. T \subseteq Nat /\ T # {}
  <2>1. PICK x \in S : TRUE
    OBVIOUS
  <2>2. x \in Nat /\ n - x \in Nat /\ n - (n - x) = x
    BY <2>1
  <2>3. n - x \in T
    BY <2>1, <2>2
  <2> QED BY <2>3
<1>2. PICK k \in T : \A j \in T : k <= j
  <2> HIDE DEF T
  <2> QED BY <1>1, LeastNat
<1>3. ASSUME NEW y \in S PROVE n - k >= y
  <2>1. y \in Nat /\ n - y \in Nat /\ n - (n - y) = y
    OBVIOUS
  <2>2. n - y \in T
    BY <2>1
  <2>3. k <= n - y /\ k \in Nat
    BY <1>1, <1>2, <2>2
  <2> QED BY <2>1, <2>3
<1>4. \E x \in S : \A y \in S : x >= y
  BY <1>2, <1>3
<1> QED BY <1>4 DEF Max

LEMMA MaxOfNext ==
  ASSUME NEW n \in Nat, NEW S \in SUBSET (1 .. n)
  PROVE  Max(S \cup {n + 1}) = n + 1
<1> DEFINE M == S \cup {n + 1}
<1>1. M \in SUBSET (1 .. n + 1) /\ M # {} /\ n + 1 \in Nat
  OBVIOUS
<1>2. \E x \in M : \A y \in M : x >= y
  <2>1. \A y \in M : n + 1 >= y
    BY <1>1
  <2> QED BY <2>1
<1>3. Max(M) \in M /\ \A y \in M : Max(M) >= y
  BY <1>2 DEF Max
<1>4. Max(M) >= n + 1 /\ Max(M) \in 1 .. n + 1
  BY <1>1, <1>3
<1> QED BY <1>4

\* One message more: what is among the first ones stays, and it may be added.
LEMMA AmongGrows ==
  ASSUME NEW msgs \in Seq(Messages), NEW m \in Messages
  PROVE  /\ Len(msgs) \in Nat /\ Len(Append(msgs, m)) = Len(msgs) + 1
         /\ Append(msgs, m) \in Seq(Messages)
         /\ \A i \in 1 .. Len(msgs) : Append(msgs, m)[i] = msgs[i]
         /\ Append(msgs, m)[Len(msgs) + 1] = m
         /\ \A k \in 0 .. Len(msgs) : \A kind :
              /\ Among(msgs, k, kind) \in SUBSET (1 .. k)
              /\ Among(Append(msgs, m), k, kind) = Among(msgs, k, kind)
<1> DEFINE n == Len(msgs)
           more == Append(msgs, m)
<1>1. /\ n \in Nat /\ Len(more) = n + 1 /\ more \in Seq(Messages)
      /\ \A i \in 1 .. n : more[i] = msgs[i]
      /\ more[n + 1] = m
  BY AppendProperties, LenProperties
<1> HIDE DEF n, more
<1>2. ASSUME NEW k \in 0 .. n, NEW kind
      PROVE  /\ Among(msgs, k, kind) \in SUBSET (1 .. k)
             /\ Among(more, k, kind) = Among(msgs, k, kind)
  <2>1. \A i \in 1 .. k : i \in 1 .. n
    BY <1>1
  <2> QED BY <1>1, <2>1 DEF Among
<1> QED BY <1>1, <1>2 DEF n, more

LEMMA AmongNext ==
  ASSUME NEW msgs \in Seq(Messages), NEW m \in Messages, NEW kind
  PROVE  Among(Append(msgs, m), Len(msgs) + 1, kind) =
           IF m.msg = kind THEN Among(msgs, Len(msgs), kind) \cup {Len(msgs) + 1}
           ELSE Among(msgs, Len(msgs), kind)
<1> DEFINE n == Len(msgs)
           more == Append(msgs, m)
<1>1. /\ n \in Nat /\ \A i \in 1 .. n : more[i] = msgs[i]
      /\ more[n + 1] = m
  BY AmongGrows
<1> HIDE DEF n, more
<1>2. \A i : i \in 1 .. n + 1 <=> i \in 1 .. n \/ i = n + 1
  BY <1>1
<1>3. n + 1 \notin 1 .. n
  BY <1>1
<1>4. Among(more, n + 1, kind) =
        IF m.msg = kind THEN Among(msgs, n, kind) \cup {n + 1}
        ELSE Among(msgs, n, kind)
  BY <1>1, <1>2, <1>3 DEF Among
<1> QED BY <1>4 DEF n, more

\* What the first messages say is not changed by one more.
LEMMA EarlierScenes ==
  ASSUME NEW msgs \in Seq(Messages), NEW m \in Messages,
         NEW k \in 0 .. Len(msgs)
  PROVE  /\ Listed(Append(msgs, m), k) = Listed(msgs, k)
         /\ Placed(Append(msgs, m), k) = Placed(msgs, k)
         /\ Scene(Append(msgs, m), k) = Scene(msgs, k)
<1> DEFINE n == Len(msgs)
           more == Append(msgs, m)
           lists == Among(msgs, k, "anchor_signal")
           placing == Among(msgs, k, "anchor_pos")
<1>1. /\ k \in Nat /\ \A i \in 1 .. k : more[i] = msgs[i]
      /\ lists \in SUBSET (1 .. k) /\ placing \in SUBSET (1 .. k)
      /\ Among(more, k, "anchor_signal") = lists
      /\ Among(more, k, "anchor_pos") = placing
  BY AmongGrows
<1> HIDE DEF n, more, lists, placing
<1>2. Listed(more, k) = Listed(msgs, k)
  <2>1. CASE lists = {}
    BY <1>1, <2>1 DEF Listed, lists
  <2>2. CASE lists # {}
    <3>1. Max(lists) \in 1 .. k
      BY <1>1, <2>2, MaxOfSome
    <3>2. more[Max(lists)] = msgs[Max(lists)]
      BY <1>1, <3>1
    <3> QED BY <1>1, <2>2, <3>2 DEF Listed, lists
  <2> QED BY <2>1, <2>2
<1>3. Placed(more, k) = Placed(msgs, k)
  <2> DEFINE Of(f, a) == {i \in placing : f[i].src = a}
             addrs(f) == {f[i].src : i \in placing}
  <2>1. \A i \in placing : more[i] = msgs[i]
    BY <1>1
  <2>2. addrs(more) = addrs(msgs)
    BY <2>1
  <2>3. \A a : Of(more, a) = Of(msgs, a)
    BY <2>1
  <2>4. \A a \in addrs(msgs) : Max(Of(msgs, a)) \in 1 .. k
    <3> TAKE a \in addrs(msgs)
    <3>1. Of(msgs, a) # {} /\ Of(msgs, a) \in SUBSET (1 .. k)
      BY <1>1
    <3> HIDE DEF Of
    <3> QED BY <1>1, <3>1, MaxOfSome
  <2>5. \A a \in addrs(msgs) : more[Max(Of(more, a))] = msgs[Max(Of(msgs, a))]
    <3> TAKE a \in addrs(msgs)
    <3>1. Of(more, a) = Of(msgs, a)
      BY <2>3
    <3>2. Max(Of(msgs, a)) \in 1 .. k
      BY <2>4
    <3> HIDE DEF Of
    <3> QED BY <1>1, <3>1, <3>2
  <2>6. /\ Placed(more, k) = [a \in addrs(more) |-> more[Max(Of(more, a))].pos]
        /\ Placed(msgs, k) = [a \in addrs(msgs) |-> msgs[Max(Of(msgs, a))].pos]
    BY <1>1 DEF Placed, placing
  <2> HIDE DEF Of, addrs
  <2> QED BY <2>2, <2>5, <2>6
<1>4. Scene(more, k) = Scene(msgs, k)
  BY <1>2, <1>3 DEF Scene
<1> QED BY <1>2, <1>3, <1>4 DEF more

\* What one message more says.
LEMMA LatestScene ==
  ASSUME NEW msgs \in Seq(Messages), NEW m \in Messages
  PROVE  LET n == Len(msgs)
             more == Append(msgs, m)
         IN  /\ Listed(more, n + 1) =
                  IF m.msg = "anchor_signal" THEN m.addrs ELSE Listed(msgs, n)
             /\ Placed(more, n + 1) =
                  IF m.msg = "anchor_pos" THEN With(Placed(msgs, n), m.src, m.pos)
                  ELSE Placed(msgs, n)
<1> DEFINE n == Len(msgs)
           more == Append(msgs, m)
           lists == Among(msgs, n, "anchor_signal")
           placing == Among(msgs, n, "anchor_pos")
<1>1. /\ n \in Nat /\ more[n + 1] = m
      /\ lists \in SUBSET (1 .. n) /\ placing \in SUBSET (1 .. n)
      /\ \A i \in 1 .. n : more[i] = msgs[i]
      /\ Among(more, n + 1, "anchor_signal") =
           IF m.msg = "anchor_signal" THEN lists \cup {n + 1} ELSE lists
      /\ Among(more, n + 1, "anchor_pos") =
           IF m.msg = "anchor_pos" THEN placing \cup {n + 1} ELSE placing
      /\ Among(more, n, "anchor_signal") = lists
      /\ Among(more, n, "anchor_pos") = placing
  <2>1. n \in 0 .. n
    BY LenProperties
  <2>2. /\ n \in Nat /\ more[n + 1] = m
        /\ \A i \in 1 .. n : more[i] = msgs[i]
        /\ \A k \in 0 .. n : \A kind :
             /\ Among(msgs, k, kind) \in SUBSET (1 .. k)
             /\ Among(more, k, kind) = Among(msgs, k, kind)
    BY AmongGrows
  <2>3. /\ Among(more, n + 1, "anchor_signal") =
             IF m.msg = "anchor_signal" THEN lists \cup {n + 1} ELSE lists
        /\ Among(more, n + 1, "anchor_pos") =
             IF m.msg = "anchor_pos" THEN placing \cup {n + 1} ELSE placing
    BY AmongNext
  <2> HIDE DEF n, more
  <2> QED BY <2>1, <2>2, <2>3 DEF lists, placing
<1>2. Listed(more, n) = Listed(msgs, n) /\ Placed(more, n) = Placed(msgs, n)
  <2>1. n \in 0 .. Len(msgs)
    BY LenProperties
  <2> QED BY <2>1, EarlierScenes
<1> HIDE DEF n, more, lists, placing
<1>3. Listed(more, n + 1) =
        IF m.msg = "anchor_signal" THEN m.addrs ELSE Listed(msgs, n)
  <2>1. CASE m.msg = "anchor_signal"
    <3>1. Max(lists \cup {n + 1}) = n + 1
      BY <1>1, MaxOfNext
    <3> QED BY <1>1, <2>1, <3>1 DEF Listed
  <2>2. CASE m.msg # "anchor_signal"
    BY <1>1, <1>2, <2>2 DEF Listed
  <2> QED BY <2>1, <2>2
<1>4. Placed(more, n + 1) =
        IF m.msg = "anchor_pos" THEN With(Placed(msgs, n), m.src, m.pos)
        ELSE Placed(msgs, n)
  <2>1. CASE m.msg = "anchor_pos"
    <3> DEFINE all == placing \cup {n + 1}
               Of(S, a) == {i \in S : more[i].src = a}
               addrs(S) == {more[i].src : i \in S}
               old == [a \in addrs(placing) |-> more[Max(Of(placing, a))].pos]
    <3>1. /\ Placed(more, n + 1) = [a \in addrs(all) |-> more[Max(Of(all, a))].pos]
          /\ Placed(msgs, n) = old
      BY <1>1, <1>2, <2>1 DEF Placed
    <3>2. addrs(all) = addrs(placing) \cup {m.src}
      BY <1>1
    <3>3. ASSUME NEW a, a # m.src PROVE Of(all, a) = Of(placing, a)
      BY <1>1, <3>3
    <3>4. Max(Of(all, m.src)) = n + 1
      <4>1. Of(all, m.src) = Of(placing, m.src) \cup {n + 1}
        BY <1>1
      <4>2. Of(placing, m.src) \in SUBSET (1 .. n)
        BY <1>1
      <4> HIDE DEF Of, all
      <4> QED BY <1>1, <4>1, <4>2, MaxOfNext
    <3> DEFINE f == [a \in addrs(all) |-> more[Max(Of(all, a))].pos]
               g == With(old, m.src, m.pos)
    <3>5. /\ DOMAIN g = {m.src} \cup addrs(placing)
          /\ g[m.src] = m.pos
          /\ \A a \in addrs(placing) : a # m.src => g[a] = old[a]
          /\ g = [a \in {m.src} \cup addrs(placing) |-> g[a]]
      <4> DEFINE D == addrs(placing)
      <4>1. DOMAIN old = D
        OBVIOUS
      <4> HIDE DEF D, old
      <4>2. g = [a \in D \cup {m.src} |-> IF a = m.src THEN m.pos ELSE old[a]]
        BY <4>1 DEF With
      <4> HIDE DEF g
      <4> QED BY <4>2 DEF D
    <3>6. \A a \in addrs(all) : f[a] = g[a]
      <4> TAKE a \in addrs(all)
      <4>1. CASE a = m.src
        <5>1. f[a] = m.pos
          BY <1>1, <3>4, <4>1
        <5> QED BY <3>5, <4>1, <5>1
      <4>2. CASE a # m.src
        <5>1. a \in addrs(placing) /\ Of(all, a) = Of(placing, a)
          BY <3>2, <3>3, <4>2
        <5> HIDE DEF Of, addrs, all, g
        <5>2. f[a] = more[Max(Of(placing, a))].pos
          BY <5>1
        <5> QED BY <3>5, <4>2, <5>1, <5>2
      <4> QED BY <4>1, <4>2
    <3>7. f = [a \in addrs(all) |-> f[a]]
      OBVIOUS
    <3> HIDE DEF addrs, f, g
    <3>8. f = g
      BY <3>2, <3>5, <3>6, <3>7
    <3> QED BY <2>1, <3>1, <3>8 DEF f, g
  <2>2. CASE m.msg # "anchor_pos"
    BY <1>1, <1>2, <2>2 DEF Placed
  <2> QED BY <2>1, <2>2
<1> QED BY <1>3, <1>4 DEF n, more

\* What publish works on is what the messages before say, and the scenes are
\* those of their locations.
Drawn == {Scene(msgs, n) : msgs \in Seq(Messages), n \in Nat}
Locations(msgs, n) == Among(msgs, n, "location_result")

VizOK(v, msgs) ==
  /\ v = [s_anchors |-> Placed(msgs, Len(msgs)),
          s_signal_anchors |-> Listed(msgs, Len(msgs)),
          scenes |-> v.scenes]
  /\ v.scenes \in Seq(Drawn)
  /\ Len(v.scenes) = Cardinality(Locations(msgs, Len(msgs)))
  /\ \A n \in Locations(msgs, Len(msgs)) :
       v.scenes[Cardinality(Locations(msgs, n))] = Scene(msgs, n)

\* One location more has the next number; those before keep theirs.
LEMMA LocationsCounted ==
  ASSUME NEW msgs \in Seq(Messages), NEW m \in Messages
  PROVE  LET n == Len(msgs)
             more == Append(msgs, m)
             total == Cardinality(Locations(msgs, n))
         IN  /\ total \in Nat
             /\ Cardinality(Locations(more, n + 1)) =
                  IF m.msg = "location_result" THEN total + 1 ELSE total
             /\ \A k \in Locations(msgs, n) :
                  /\ k \in 0 .. n
                  /\ Cardinality(Locations(more, k)) =
                       Cardinality(Locations(msgs, k))
                  /\ Cardinality(Locations(msgs, k)) \in 1 .. total
             /\ \A k \in Locations(more, n + 1) :
                  \/ k \in Locations(msgs, n)
                  \/ k = n + 1 /\ m.msg = "location_result"
<1> DEFINE n == Len(msgs)
           more == Append(msgs, m)
           total == Cardinality(Locations(msgs, n))
<1>1. /\ n \in Nat
      /\ \A k \in 0 .. n : /\ Locations(msgs, k) \in SUBSET (1 .. k)
                           /\ Locations(more, k) = Locations(msgs, k)
      /\ Locations(more, n + 1) =
           IF m.msg = "location_result" THEN Locations(msgs, n) \cup {n + 1}
           ELSE Locations(msgs, n)
  <2>1. /\ n \in Nat
        /\ \A k \in 0 .. n : \A kind :
             /\ Among(msgs, k, kind) \in SUBSET (1 .. k)
             /\ Among(more, k, kind) = Among(msgs, k, kind)
    BY AmongGrows
  <2>2. Among(more, n + 1, "location_result") =
          IF m.msg = "location_result" THEN Among(msgs, n, "location_result") \cup {n + 1}
          ELSE Among(msgs, n, "location_result")
    BY AmongNext
  <2> HIDE DEF n, more
  <2> QED BY <2>1, <2>2 DEF Locations
<1> HIDE DEF n, more
<1>2. n \in 0 .. n /\ n + 1 \notin Locations(msgs, n)
  BY <1>1
<1>3. IsFiniteSet(Locations(msgs, n))
  <2>1. IsFiniteSet(1 .. n)
    BY <1>1, FS_Interval
  <2> QED BY <1>1, <1>2, <2>1, FS_Subset
<1>4. total \in Nat
  BY <1>3, FS_CardinalityType
<1>5. Cardinality(Locations(more, n + 1)) =
        IF m.msg = "location_result" THEN total + 1 ELSE total
  <2>1. Cardinality(Locations(msgs, n) \cup {n + 1}) = total + 1
    BY <1>2, <1>3, FS_AddElement
  <2> HIDE DEF total
  <2>2. CASE m.msg = "location_result"
    BY <1>1, <2>1, <2>2
  <2>3. CASE m.msg # "location_result"
    BY <1>1, <2>3 DEF total
  <2> QED BY <2>2, <2>3
<1>6. ASSUME NEW k \in Locations(msgs, n)
      PROVE  /\ k \in 0 .. n
             /\ Cardinality(Locations(more, k)) = Cardinality(Locations(msgs, k))
             /\ Cardinality(Locations(msgs, k)) \in 1 .. total
  <2>1. k \in 0 .. n /\ k \in 1 .. k
    BY <1>1, <1>2
  <2>2. Locations(msgs, k) \subseteq Locations(msgs, n) /\ k \in Locations(msgs, k)
    BY <1>1, <2>1 DEF Locations, Among
  <2>3. IsFiniteSet(Locations(msgs, k)) /\ Cardinality(Locations(msgs, k)) <= total
    BY <1>3, <2>2, FS_Subset
  <2>4. Cardinality(Locations(msgs, k)) \in Nat
    BY <2>3, FS_CardinalityType
  <2>5. Cardinality(Locations(msgs, k)) # 0
    BY <2>2, <2>3, FS_EmptySet
  <2>6. Cardinality(Locations(more, k)) = Cardinality(Locations(msgs, k))
    BY <1>1, <2>1
  <2> HIDE DEF total
  <2> QED BY <1>4, <2>1, <2>3, <2>4, <2>5, <2>6
<1>7. ASSUME NEW k \in Locations(more, n + 1)
      PROVE  \/ k \in Locations(msgs, n)
             \/ k = n + 1 /\ m.msg = "location_result"
  BY <1>1
<1> QED BY <1>4, <1>5, <1>6, <1>7 DEF n, more

\* A message is published as what all messages up to it say.
LEMMA PublishKeeps ==
  ASSUME NEW v, NEW msgs \in Seq(Messages), NEW m \in Messages, VizOK(v, msgs)
  PROVE  VizOK(Publish(v, m), Append(msgs, m))
<1> DEFINE n == Len(msgs)
           more == Append(msgs, m)
           w == Publish(v, m)
           total == Cardinality(Locations(msgs, n))
<1>1. n \in Nat /\ n \in 0 .. n /\ Len(more) = n + 1 /\ more \in Seq(Messages)
  BY AmongGrows
<1>2. /\ Listed(more, n + 1) =
           IF m.msg = "anchor_signal" THEN m.addrs ELSE Listed(msgs, n)
      /\ Placed(more, n + 1) =
           IF m.msg = "anchor_pos" THEN With(Placed(msgs, n), m.src, m.pos)
           ELSE Placed(msgs, n)
  BY LatestScene
<1>3. /\ total \in Nat
      /\ Cardinality(Locations(more, n + 1)) =
           IF m.msg = "location_result" THEN total + 1 ELSE total
      /\ \A k \in Locations(msgs, n) :
           /\ k \in 0 .. n
           /\ Cardinality(Locations(more, k)) = Cardinality(Locations(msgs, k))
           /\ Cardinality(Locations(msgs, k)) \in 1 .. total
      /\ \A k \in Locations(more, n + 1) :
           \/ k \in Locations(msgs, n)
           \/ k = n + 1 /\ m.msg = "location_result"
  BY LocationsCounted
<1>4. \A k \in 0 .. n : Scene(more, k) = Scene(msgs, k)
  BY EarlierScenes
<1>5. /\ v = [s_anchors |-> Placed(msgs, n), s_signal_anchors |-> Listed(msgs, n),
              scenes |-> v.scenes]
      /\ v.scenes \in Seq(Drawn) /\ Len(v.scenes) = total
      /\ \A k \in Locations(msgs, n) :
           v.scenes[Cardinality(Locations(msgs, k))] = Scene(msgs, k)
  BY DEF VizOK
<1>6. m.msg \in {"anchor_pos", "anchor_signal", "location_result"}
  BY FramesOfMessages
<1>7. SUFFICES
        /\ w = [s_anchors |-> Placed(more, n + 1),
                s_signal_anchors |-> Listed(more, n + 1), scenes |-> w.scenes]
        /\ w.scenes \in Seq(Drawn)
        /\ Len(w.scenes) = Cardinality(Locations(more, n + 1))
        /\ \A k \in Locations(more, n + 1) :
             w.scenes[Cardinality(Locations(more, k))] = Scene(more, k)
  BY <1>1 DEF VizOK
<1> HIDE DEF n, more, total
<1>8. CASE m.msg # "location_result"
  <2>1. w = [s_anchors |-> Placed(more, n + 1),
             s_signal_anchors |-> Listed(more, n + 1), scenes |-> v.scenes]
    <3>1. CASE m.msg = "anchor_pos"
      BY <1>2, <1>5, <3>1 DEF Publish, PublishAnchorPos
    <3>2. CASE m.msg = "anchor_signal"
      BY <1>2, <1>5, <3>2 DEF Publish, PublishSignal
    <3> QED BY <1>6, <1>8, <3>1, <3>2
  <2> HIDE DEF w
  <2>2. w.scenes = v.scenes
    BY <2>1
  <2>3. ASSUME NEW k \in Locations(more, n + 1)
        PROVE  w.scenes[Cardinality(Locations(more, k))] = Scene(more, k)
    <3>1. k \in Locations(msgs, n)
      BY <1>3, <1>8
    <3> QED BY <1>3, <1>4, <1>5, <2>2, <3>1
  <2> QED BY <1>3, <1>5, <1>8, <2>1, <2>2, <2>3
<1>9. CASE m.msg = "location_result"
  <2> DEFINE drawn ==
        {[addr |-> a, pos |-> v.s_anchors[a], used |-> a \in v.s_signal_anchors] :
           a \in DOMAIN v.s_anchors}
  <2>1. w = [v EXCEPT !.scenes = Append(@, drawn)]
    BY <1>9 DEF Publish, PublishLocation
  <2>2. v.s_anchors = Placed(msgs, n) /\ v.s_signal_anchors = Listed(msgs, n)
    BY <1>5
  <2>3. drawn = Scene(msgs, n)
    BY <2>2 DEF Scene
  <2>4. Scene(more, n + 1) = Scene(msgs, n)
    BY <1>2, <1>9 DEF Scene
  <2> HIDE DEF drawn, w
  <2>5. /\ w.scenes = Append(v.scenes, drawn)
        /\ w = [s_anchors |-> Placed(more, n + 1),
                s_signal_anchors |-> Listed(more, n + 1), scenes |-> w.scenes]
    <3>1. /\ Placed(more, n + 1) = Placed(msgs, n)
          /\ Listed(more, n + 1) = Listed(msgs, n)
      BY <1>2, <1>9
    <3>2. w = [s_anchors |-> Placed(msgs, n), s_signal_anchors |-> Listed(msgs, n),
               scenes |-> Append(v.scenes, drawn)]
      <4> DEFINE placed == Placed(msgs, n)
                 listed == Listed(msgs, n)
                 old == v.scenes
                 new == Append(old, drawn)
      <4>1. /\ v = [s_anchors |-> placed, s_signal_anchors |-> listed,
                    scenes |-> old]
            /\ w = [v EXCEPT !.scenes = new]
        BY <1>5, <2>1
      <4> HIDE DEF placed, listed, old, new
      <4>2. w = [s_anchors |-> placed, s_signal_anchors |-> listed, scenes |-> new]
        BY <4>1
      <4> QED BY <4>2 DEF placed, listed, old, new
    <3> QED BY <3>1, <3>2
  <2>6. drawn \in Drawn
    BY <1>1, <2>3 DEF Drawn
  <2>7. /\ w.scenes \in Seq(Drawn) /\ Len(w.scenes) = total + 1
        /\ \A i \in 1 .. total : w.scenes[i] = v.scenes[i]
        /\ w.scenes[total + 1] = drawn
    BY <1>5, <2>5, <2>6, AppendProperties
  <2>8. ASSUME NEW k \in Locations(more, n + 1)
        PROVE  w.scenes[Cardinality(Locations(more, k))] = Scene(more, k)
    <3>1. CASE k \in Locations(msgs, n)
      <4>1. /\ Cardinality(Locations(more, k)) \in 1 .. total
            /\ Cardinality(Locations(more, k)) = Cardinality(Locations(msgs, k))
        BY <1>3, <3>1
      <4>2. Scene(more, k) = Scene(msgs, k)
        BY <1>3, <1>4, <3>1
      <4> QED BY <1>5, <2>7, <3>1, <4>1, <4>2
    <3>2. CASE k = n + 1
      BY <1>3, <1>9, <2>3, <2>4, <2>7, <3>2
    <3> QED BY <1>3, <3>1, <3>2
  <2> QED BY <1>3, <1>9, <2>5, <2>7, <2>8
<1> QED BY <1>8, <1>9

\* The function Published defines is there, for frames of any length.
LEMMA PublishedUnfolds ==
  ASSUME NEW v, NEW frame, Len(frame) \in Nat
  PROVE  \E after :
           /\ Published(v, frame) = after[Len(frame)]
           /\ after[0] = v
           /\ \A k \in 0 .. Len(frame) - 1 :
                after[k + 1] = Publish(after[k], frame[k + 1])
<1> DEFINE Step(f, k) == IF k = 0 THEN v ELSE Publish(f[k - 1], frame[k])
           IsAfter(f, n) == f = [k \in 0 .. n |-> Step(f, k)]
           Reached == {n \in Nat : \E f : IsAfter(f, n)}
<1>1. 0 \in Reached
  <2> DEFINE f == [k \in 0 .. 0 |-> v]
  <2>1. IsAfter(f, 0)
    OBVIOUS
  <2> QED BY <2>1
<1>2. ASSUME NEW n \in Reached PROVE n + 1 \in Reached
  <2>1. PICK f : IsAfter(f, n)
    OBVIOUS
  <2> DEFINE g == [k \in 0 .. n + 1 |->
                     IF k <= n THEN f[k] ELSE Publish(f[n], frame[n + 1])]
  <2>2. ASSUME NEW k \in 0 .. n + 1 PROVE g[k] = Step(g, k)
    <3>1. CASE k = 0
      BY <2>1, <3>1
    <3>2. CASE k # 0 /\ k <= n
      <4>1. f[k] = Publish(f[k - 1], frame[k])
        BY <2>1, <3>2
      <4>2. g[k] = f[k] /\ g[k - 1] = f[k - 1]
        BY <3>2
      <4> QED BY <3>2, <4>1, <4>2
    <3>3. CASE k = n + 1
      <4>1. g[k] = Publish(f[n], frame[n + 1]) /\ g[k - 1] = f[n] /\ k # 0
        BY <3>3
      <4> QED BY <3>3, <4>1
    <3> QED BY <3>1, <3>2, <3>3
  <2>3. g = [k \in 0 .. n + 1 |-> Step(g, k)]
    <3> DEFINE h == [k \in 0 .. n + 1 |-> Step(g, k)]
    <3>1. \A k \in 0 .. n + 1 : g[k] = h[k]
      BY <2>2
    <3>2. /\ DOMAIN g = 0 .. n + 1 /\ DOMAIN h = 0 .. n + 1
          /\ g = [k \in DOMAIN g |-> g[k]] /\ h = [k \in DOMAIN h |-> h[k]]
      OBVIOUS
    <3> HIDE DEF g, h
    <3>3. g = h
      BY <3>1, <3>2
    <3> QED BY <3>3 DEF h
  <2>4. IsAfter(g, n + 1)
    BY <2>3
  <2> HIDE DEF g, IsAfter
  <2> QED BY <2>4
<1>3. Len(frame) \in Reached
  <2> HIDE DEF Reached
  <2>1. Reached \subseteq Nat
    BY DEF Reached
  <2> QED BY <1>1, <1>2, <2>1, SetInduction
<1> DEFINE after == CHOOSE f : IsAfter(f, Len(frame))
<1>4. IsAfter(after, Len(frame))
  <2> HIDE DEF IsAfter
  <2>1. \E f : IsAfter(f, Len(frame))
    BY <1>3
  <2> QED BY <2>1
<1>5. Published(v, frame) = after[Len(frame)]
  BY DEF Published
<1> HIDE DEF after
<1>6. after[0] = v
  BY <1>4
<1>7. ASSUME NEW k \in 0 .. Len(frame) - 1
      PROVE  after[k + 1] = Publish(after[k], frame[k + 1])
  <2>1. k + 1 \in 0 .. Len(frame) /\ k + 1 # 0 /\ (k + 1) - 1 = k
    OBVIOUS
  <2>2. after[k + 1] = Step(after, k + 1)
    BY <1>4, <2>1
  <2> QED BY <2>1, <2>2
<1> QED BY <1>5, <1>6, <1>7

LEMMA PublishedKeeps ==
  ASSUME NEW v, NEW msgs \in Seq(Messages), NEW frame \in Seq(Messages),
         VizOK(v, msgs)
  PROVE  VizOK(Published(v, frame), msgs \o frame)
<1> DEFINE n == Len(msgs)
           all == msgs \o frame
           First(k) == SubSeq(all, 1, n + k)
<1>1. n \in Nat /\ Len(frame) \in Nat
  BY LenProperties
<1>2. /\ all \in Seq(Messages) /\ Len(all) = n + Len(frame)
      /\ \A i \in 1 .. n : all[i] = msgs[i]
      /\ \A i \in 1 .. Len(frame) : all[n + i] = frame[i]
  <2>1. /\ all \in Seq(Messages) /\ Len(all) = n + Len(frame)
        /\ \A i \in 1 .. n + Len(frame) :
             all[i] = IF i <= n THEN msgs[i] ELSE frame[i - n]
    BY ConcatProperties
  <2> HIDE DEF all, n
  <2>2. ASSUME NEW i \in 1 .. Len(frame) PROVE all[n + i] = frame[i]
    <3>1. n + i \in 1 .. n + Len(frame) /\ ~(n + i <= n) /\ (n + i) - n = i
      BY <1>1
    <3> QED BY <2>1, <3>1
  <2>3. ASSUME NEW i \in 1 .. n PROVE all[i] = msgs[i]
    BY <1>1, <2>1
  <2> QED BY <2>1, <2>2, <2>3
<1>3. PICK after :
        /\ Published(v, frame) = after[Len(frame)]
        /\ after[0] = v
        /\ \A k \in 0 .. Len(frame) - 1 :
             after[k + 1] = Publish(after[k], frame[k + 1])
  BY <1>1, PublishedUnfolds
<1> HIDE DEF all
<1>4. ASSUME NEW k \in 0 .. Len(frame)
      PROVE  /\ First(k) \in Seq(Messages) /\ Len(First(k)) = n + k
             /\ \A i \in 1 .. n + k : First(k)[i] = all[i]
  <2>1. \A i \in 1 .. n + k : all[i] \in Messages
    BY <1>1, <1>2, ElementOfSeq
  <2>2. n + k \in Nat
    BY <1>1
  <2>3. /\ First(k) \in Seq(Messages)
        /\ Len(First(k)) = IF 1 <= n + k THEN n + k - 1 + 1 ELSE 0
        /\ \A i \in 1 .. n + k - 1 + 1 : First(k)[i] = all[1 + i - 1]
    BY <2>1, <2>2, SubSeqProperties
  <2> HIDE DEF First, n
  <2>4. \A i \in 1 .. n + k : i \in 1 .. n + k - 1 + 1 /\ 1 + i - 1 = i
    BY <1>1, <2>2
  <2>5. n + k - 1 + 1 = n + k /\ (1 <= n + k \/ n + k = 0)
    BY <1>1, <2>2
  <2>6. \A i \in 1 .. n + k : First(k)[i] = all[i]
    BY <2>3, <2>4
  <2>7. Len(First(k)) = n + k
    BY <2>3, <2>5
  <2> QED BY <2>3, <2>6, <2>7
<1>5. First(0) = msgs /\ First(Len(frame)) = all
  <2>1. /\ First(0) \in Seq(Messages) /\ Len(First(0)) = n
        /\ \A i \in 1 .. n : First(0)[i] = msgs[i]
    BY <1>1, <1>2, <1>4
  <2>2. /\ First(Len(frame)) \in Seq(Messages) /\ Len(First(Len(frame))) = Len(all)
        /\ \A i \in 1 .. Len(all) : First(Len(frame))[i] = all[i]
    BY <1>1, <1>2, <1>4
  <2> HIDE DEF First
  <2> QED BY <1>2, <2>1, <2>2, SeqEqual
<1>6. ASSUME NEW k \in 0 .. Len(frame) - 1
      PROVE  First(k + 1) = Append(First(k), frame[k + 1])
  <2>1. k \in 0 .. Len(frame) /\ k + 1 \in 0 .. Len(frame) /\ k + 1 \in 1 .. Len(frame)
    BY <1>1
  <2>2. frame[k + 1] \in Messages
    BY <2>1, ElementOfSeq
  <2>3. /\ First(k) \in Seq(Messages) /\ Len(First(k)) = n + k
        /\ First(k + 1) \in Seq(Messages) /\ Len(First(k + 1)) = n + (k + 1)
        /\ \A i \in 1 .. n + k : First(k)[i] = all[i]
        /\ \A i \in 1 .. n + (k + 1) : First(k + 1)[i] = all[i]
    BY <1>4, <2>1
  <2> DEFINE next == Append(First(k), frame[k + 1])
  <2> HIDE DEF First
  <2>4. /\ next \in Seq(Messages) /\ Len(next) = n + k + 1
        /\ \A i \in 1 .. n + k : next[i] = all[i]
        /\ next[n + k + 1] = frame[k + 1]
    BY <2>2, <2>3, AppendProperties
  <2>5. all[n + (k + 1)] = frame[k + 1]
    BY <1>2, <2>1
  <2> HIDE DEF next, n
  <2>6. n + (k + 1) = n + k + 1 /\ n + k + 1 \in Nat
    BY <1>1, <2>1
  <2>7. ASSUME NEW i \in 1 .. n + k + 1 PROVE First(k + 1)[i] = next[i]
    <3>1. First(k + 1)[i] = all[i]
      BY <2>3, <2>6
    <3>2. CASE i = n + k + 1
      BY <2>4, <2>5, <2>6, <3>1, <3>2
    <3>3. CASE i # n + k + 1
      <4>1. i \in 1 .. n + k
        BY <1>1, <2>6, <3>3
      <4> QED BY <2>4, <3>1, <4>1
    <3> QED BY <3>2, <3>3
  <2>8. First(k + 1) = next
    BY <2>3, <2>4, <2>6, <2>7, SeqEqual
  <2> QED BY <2>8 DEF next
<1> DEFINE Good == {k \in Nat : k <= Len(frame) => VizOK(after[k], First(k))}
<1> HIDE DEF n, First
<1>7. 0 \in Good
  BY <1>3, <1>5
<1>8. ASSUME NEW k \in Good PROVE k + 1 \in Good
  <2> SUFFICES ASSUME k + 1 <= Len(frame)
               PROVE  VizOK(after[k + 1], First(k + 1))
    OBVIOUS
  <2>1. /\ k \in 0 .. Len(frame) - 1 /\ k \in 0 .. Len(frame)
        /\ k + 1 \in 1 .. Len(frame)
    BY <1>1
  <2>2. VizOK(after[k], First(k))
    BY <2>1
  <2>3. frame[k + 1] \in Messages /\ First(k) \in Seq(Messages)
    BY <1>4, <2>1, ElementOfSeq
  <2>4. VizOK(Publish(after[k], frame[k + 1]), Append(First(k), frame[k + 1]))
    BY <2>2, <2>3, PublishKeeps
  <2> QED BY <1>3, <1>6, <2>1, <2>4
<1>9. Len(frame) \in Good
  <2> HIDE DEF Good
  <2>1. Good \subseteq Nat
    BY DEF Good
  <2> QED BY <1>1, <1>7, <1>8, <2>1, SetInduction
<1>10. VizOK(after[Len(frame)], First(Len(frame)))
  BY <1>1, <1>9
<1> QED BY <1>3, <1>5, <1>10 DEF all

VizState == [s_anchors |-> s_anchors, s_signal_anchors |-> s_signal_anchors,
             scenes |-> scenes]
VizInv == reported \in Seq(Messages) /\ VizOK(VizState, reported)

LEMMA VizInvInit == Init => VizInv
<1> SUFFICES ASSUME Init PROVE VizInv
  OBVIOUS
<1>1. s_anchors = <<>> /\ s_signal_anchors = {} /\ scenes = <<>> /\ reported = <<>>
  BY DEF Init, VizInit
<1>2. /\ <<>> \in Seq(Messages) /\ Len(<<>>) = 0 /\ <<>> \in Seq(Drawn)
  BY EmptySeq
<1>3. \A kind : Among(<<>>, 0, kind) = {}
  BY DEF Among
<1>4. Listed(<<>>, 0) = {}
  BY <1>3 DEF Listed
<1>5. Placed(<<>>, 0) = <<>>
  BY <1>3 DEF Placed
<1>6. Locations(<<>>, 0) = {} /\ Cardinality({}) = 0
  BY <1>3, FS_EmptySet DEF Locations
<1> QED BY <1>1, <1>2, <1>4, <1>5, <1>6 DEF VizInv, VizOK, VizState

LEMMA OnFrameKeeps ==
  ASSUME VizInv, NEW frame \in Reports, OnFrame(frame)
  PROVE  VizInv'
<1> DEFINE w == Published(VizState, frame)
<1>1. frame \in Seq(Messages)
  BY FramesOfMessages
<1>2. /\ s_anchors' = w.s_anchors /\ s_signal_anchors' = w.s_signal_anchors
      /\ scenes' = w.scenes /\ reported' = reported \o frame
  BY DEF OnFrame, VizState
<1>3. reported \o frame \in Seq(Messages)
  BY <1>1, ConcatProperties DEF VizInv
<1>4. VizOK(w, reported \o frame)
  BY <1>1, PublishedKeeps DEF VizInv
<1> HIDE DEF w
<1>5. VizState' = w
  BY <1>2, <1>4 DEF VizState, VizOK
<1> QED BY <1>2, <1>3, <1>4, <1>5 DEF VizInv, VizOK

LEMMA OthersLeaveScenes ==
  [Next]_allVars => DeviceReports \/ UNCHANGED sceneVars
<1> SUFFICES ASSUME [Next]_allVars PROVE DeviceReports \/ UNCHANGED sceneVars
  OBVIOUS
<1>1. CASE MainStep \/ OpenFails
  <2>1. CASE MainOpens \/ MainStops \/ OpenFails \/ UiBegins \/ UiLoops
             \/ LoopReturns \/ UiEnds \/ MainJoins
    BY <2>1 DEF MainOpens, MainStops, OpenFails, UiBegins, UiLoops, LoopReturns,
                UiEnds, MainJoins, outputVars, vizVars, sceneVars
  <2>2. CASE MainStarts \/ MainReturns
    BY <2>2 DEF MainStarts, MainReturns, StartViz, ShutdownViz
  <2> QED BY <1>1, <2>1, <2>2 DEF MainStep
<1>2. CASE \/ SerialRuns \/ SerialFails \/ LineTakes \/ HandleSignal
           \/ SerialThreadRequestsExit \/ UserQuits \/ Signal \/ UserCommands
  BY <1>2 DEF SerialRuns, SerialFails, LineTakes, HandleSignal,
              SerialThreadRequestsExit, UserQuits, Signal, UserCommands,
              outputVars, vizVars, sceneVars
<1>3. CASE UNCHANGED allVars
  BY <1>3 DEF allVars, outputVars, vizVars, sceneVars
<1> QED BY <1>1, <1>2, <1>3 DEF Next

LEMMA VizInvStep == VizInv /\ [Next]_allVars => VizInv'
<1> SUFFICES ASSUME VizInv, [Next]_allVars PROVE VizInv'
  OBVIOUS
<1>1. CASE DeviceReports
  BY <1>1, OnFrameKeeps DEF DeviceReports
<1>2. CASE UNCHANGED sceneVars
  <2>1. VizState' = VizState /\ reported' = reported
    BY <1>2 DEF sceneVars, VizState
  <2> QED BY <2>1 DEF VizInv, VizOK
<1> QED BY <1>1, <1>2, OthersLeaveScenes

(***************************************************************************)
(* Whatever the device reports, in frames of whatever length, every scene  *)
(* drawn (foxglove_viz.cpp, publish) is what the messages before its       *)
(* location said.                                                          *)
(***************************************************************************)
THEOREM ScenesFollowReports == Spec => []SceneFollowsReports
<1>1. VizInv => SceneFollowsReports
  BY DEF VizInv, VizOK, VizState, SceneFollowsReports, Locations
<1> QED BY <1>1, VizInvInit, VizInvStep, PTL DEF Spec
==============================================================================
