----------------------------- MODULE FrameStream -----------------------------
(***************************************************************************)
(* What the frame layer promises its caller, whatever the chunks in which  *)
(* the serial port hands the bytes over: the stream is cut into frames at  *)
(* its first valid frame after each delivered one, and a byte is thrown    *)
(* away only when no valid frame can begin at it (ubeacon_frame.h:31-32).  *)
(* There is no buffer here; FrameBuffer implements this specification with *)
(* one of FrameSizeMax bytes.                                              *)
(***************************************************************************)
EXTENDS FrameFormat, Sequences

CONSTANT WireLen   \* bytes the peer sends in a behaviour (bound)

VARIABLES
  wire,      \* the bytes the peer sends; never changes
  arrived,   \* how many of them the caller has handed over
  pos,       \* offset of the first byte not yet consumed
  frames     \* frames delivered, in order: wire offset and payload

streamVars == <<wire, arrived, pos, frames>>

Available == arrived - pos

\* No frame can begin at the byte at pos: not an SOF, or an impossible size.
HeaderRefuted ==
  \/ wire[pos] # FrameSOF
  \/ PayloadSize(wire, pos) > FramePayloadSizeMax

\* The candidate frame at pos has arrived to its last byte.
CandidateArrived ==
  /\ ~HeaderRefuted
  /\ FrameSize(wire, pos) <= Available

CandidateValid ==
  LET size == FrameSize(wire, pos)
  IN  ChecksumVerify(Slice(wire, pos, size), size)

Init ==
  /\ wire \in [0 .. WireLen - 1 -> Byte]
  /\ arrived = 0
  /\ pos = 0
  /\ frames = <<>>

Arrive ==
  /\ \E n \in 1 .. WireLen - arrived : arrived' = arrived + n
  /\ UNCHANGED <<wire, pos, frames>>

Resync ==
  /\ Available >= FrameSizeMin
  /\ HeaderRefuted \/ (CandidateArrived /\ ~CandidateValid)
  /\ pos' = pos + 1
  /\ UNCHANGED <<wire, arrived, frames>>

Deliver ==
  /\ Available >= FrameSizeMin
  /\ CandidateArrived /\ CandidateValid
  /\ frames' = Append(frames, [at |-> pos,
                               payload |-> Slice(wire, pos + FramePayloadOffset,
                                                 PayloadSize(wire, pos))])
  /\ pos' = pos + FrameSize(wire, pos)
  /\ UNCHANGED <<wire, arrived>>

Next == Arrive \/ Resync \/ Deliver

Spec == Init /\ [][Next]_streamVars

\* Bytes that have arrived are examined in the end, without waiting for more.
FairSpec == Spec /\ WF_streamVars(Resync \/ Deliver)
==============================================================================
