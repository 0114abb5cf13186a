---------------------------- MODULE FoxgloveViz ----------------------------
(***************************************************************************)
(* The monitor's Foxglove output (app/monitor/foxglove_viz.cpp): a server  *)
(* and a recording, started and closed by main, and the 3D scene, drawn on *)
(* the thread of the serial loop with every location from what the anchor  *)
(* positions and the anchor signals before it have left.  The Foxglove SDK *)
(* is external: server and recording may fail to be created; channels are  *)
(* taken to be there.  A message that is only logged to a channel of its   *)
(* own, as a heartbeat, leaves nothing behind and does not appear.         *)
(***************************************************************************)
EXTENDS Naturals, Sequences, FiniteSetsExt

CONSTANTS
  Reports,      \* frames of the device: sequences of messages
  MaxReports    \* messages shown in a behaviour (bound)

AnchorPos(a, p)     == [msg |-> "anchor_pos", src |-> a, pos |-> p]
AnchorSignal(addrs) == [msg |-> "anchor_signal", addrs |-> addrs]
LocationResult      == [msg |-> "location_result"]

\* A frame is a sequence, of the messages that are published.
ASSUME VizAssumption ==
  /\ MaxReports \in Nat
  /\ \A frame \in Reports :
       /\ frame \in Seq({frame[i] : i \in DOMAIN frame})
       /\ \A i \in DOMAIN frame :
            frame[i].msg \in {"anchor_pos", "anchor_signal", "location_result"}

VARIABLES
  s_server,           \* "none", "open", "closed"
  s_writer,           \* the recording: "none", "open", "closed"
  s_anchors,          \* address -> position reported last
  s_signal_anchors,   \* the anchors of the last signal message
  scenes,             \* anchors of the scenes logged: sets of [addr, pos, used]
  reported            \* history: the messages of the device

vizVars == <<s_server, s_writer, s_anchors, s_signal_anchors, scenes, reported>>
sceneVars == <<s_anchors, s_signal_anchors, scenes, reported>>

VizInit ==
  /\ s_server = "none" /\ s_writer = "none"
  /\ s_anchors = <<>> /\ s_signal_anchors = {}
  /\ scenes = <<>> /\ reported = <<>>
-----------------------------------------------------------------------------
\* init and, with --record, record_start; main goes on if they fail.
StartViz ==
  /\ s_server' \in {"none", "open"}
  /\ s_writer' \in {"none", "open"}
  /\ UNCHANGED sceneVars

\* The map f with y at x, be it there or not.
With(f, x, y) == [a \in DOMAIN f \cup {x} |-> IF a = x THEN y ELSE f[a]]

\* What publish works on, and what it leaves: in v.

\* publish of an anchor's position: kept, nothing is drawn yet.
PublishAnchorPos(v, data) ==
  [v EXCEPT !.s_anchors = With(@, data.src, data.pos)]

\* Mutant: anchors stay marked.
PublishSignalAdds(v, data) ==
  [v EXCEPT !.s_signal_anchors = @ \cup data.addrs]

\* publish of the anchors a signal message lists, known or not.
PublishSignal(v, data) ==
  [v EXCEPT !.s_signal_anchors = data.addrs]

\* publish of a location: the scene is drawn anew, with every anchor known.
PublishLocation(v) ==
  [v EXCEPT !.scenes = Append(@,
     {[addr |-> a, pos |-> v.s_anchors[a], used |-> a \in v.s_signal_anchors] :
        a \in DOMAIN v.s_anchors})]

\* on_frame_msg, for a message that it also publishes.
Publish(v, data) ==
  CASE data.msg = "anchor_pos"      -> PublishAnchorPos(v, data)
    [] data.msg = "anchor_signal"   -> PublishSignal(v, data)
    [] data.msg = "location_result" -> PublishLocation(v)

\* The messages of a frame, one after the other in one handler of the loop.
Published(v, frame) ==
  LET after[n \in 0 .. Len(frame)] ==
        IF n = 0 THEN v ELSE Publish(after[n - 1], frame[n])
  IN  after[Len(frame)]

OnFrame(frame) ==
  LET v == Published([s_anchors |-> s_anchors, s_signal_anchors |-> s_signal_anchors,
                      scenes |-> scenes], frame)
  IN  /\ s_anchors' = v.s_anchors /\ s_signal_anchors' = v.s_signal_anchors
      /\ scenes' = v.scenes
      /\ Len(reported) + Len(frame) <= MaxReports
      /\ reported' = reported \o frame
      /\ UNCHANGED <<s_server, s_writer>>

\* shutdown: the server stops, the recording gets its index.
ShutdownViz ==
  /\ s_server' = IF s_server = "open" THEN "closed" ELSE s_server
  /\ s_writer' = IF s_writer = "open" THEN "closed" ELSE s_writer
  /\ UNCHANGED sceneVars
-----------------------------------------------------------------------------
\* By definition: what the first n messages say.
Among(msgs, n, kind) == {i \in 1 .. n : msgs[i].msg = kind}

Listed(msgs, n) ==
  LET lists == Among(msgs, n, "anchor_signal")
  IN  IF lists = {} THEN {} ELSE msgs[Max(lists)].addrs

Placed(msgs, n) ==
  LET placing == Among(msgs, n, "anchor_pos")
  IN  [a \in {msgs[i].src : i \in placing} |->
         msgs[Max({i \in placing : msgs[i].src = a})].pos]

Scene(msgs, n) ==
  {[addr |-> a, pos |-> Placed(msgs, n)[a], used |-> a \in Listed(msgs, n)] :
     a \in DOMAIN Placed(msgs, n)}

(***************************************************************************)
(* Each scene on the screen, and in the recording, is what the messages    *)
(* before its location said, in whatever order they came: a cube for each  *)
(* anchor that had reported a position, at the last one reported, green if *)
(* the last signal message lists it, be that before or after the anchor    *)
(* was known.                                                              *)
(***************************************************************************)
SceneFollowsReports ==
  LET Upto(n) == Among(reported, n, "location_result")
  IN  /\ Len(scenes) = Cardinality(Upto(Len(reported)))
      /\ \A n \in Upto(Len(reported)) :
           scenes[Cardinality(Upto(n))] = Scene(reported, n)
==============================================================================
