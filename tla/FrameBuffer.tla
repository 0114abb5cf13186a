----------------------------- MODULE FrameBuffer -----------------------------
(***************************************************************************)
(* The receive side of src/src/ubeacon_frame.c: ub_frame_buffer_feed cuts  *)
(* the caller's chunk to the space left, frame_buffer_append copies it     *)
(* behind the unconsumed bytes, extracts the frames it can, and moves what *)
(* is left to the front of the buffer.  One action is one iteration of the *)
(* feed loop or of the scan loop, or the compaction at the end of an       *)
(* append.  The indices, the stale bytes behind index_end and the memmove  *)
(* are those of the code.                                                  *)
(***************************************************************************)
EXTENDS FrameFormat, Sequences

CONSTANT WireLen   \* bytes fed in a behaviour (bound)

ASSUME WireLenAssumption == WireLen \in Nat

VARIABLES
  buffer,        \* UBFrameBuffer.buffer
  index_begin,   \* first byte not consumed
  index_end,     \* one past the last byte received
  pc,            \* "idle": no call; "feed", "scan": head of that loop
  wire,          \* all the bytes the caller ever feeds, in order
  fed,           \* end, in wire, of the data of the latest feed call
  copied,        \* end, in wire, of what memcpy has put in the buffer
  delivered      \* payloads handed to the callback, with their wire offset

bufferVars == <<buffer, index_begin, index_end>>
inputVars == <<wire, fed, copied>>
vars == <<bufferVars, pc, inputVars, delivered>>

\* Content of a cell no memcpy has written: no byte the code may depend on.
Uninit == ByteBase

Min2(a, b) == IF a <= b THEN a ELSE b

Size == index_end - index_begin

\* Wire offset of the byte at index_begin (the code has no such variable).
Position == copied - Size

\* Mutant of BadHeader: no limit on the announced payload.
BadHeaderNoLimit == buffer[index_begin] # FrameSOF

BadHeader ==
  \/ buffer[index_begin] # FrameSOF
  \/ PayloadSize(buffer, index_begin) > FramePayloadSizeMax

\* Mutant of FrameComplete: waits for one byte more than the frame has.
FrameCompleteLate == Size > FrameSize(buffer, index_begin)

FrameComplete == Size >= FrameSize(buffer, index_begin)

ChecksumGood ==
  LET size == FrameSize(buffer, index_begin)
  IN  ChecksumVerify(Slice(buffer, index_begin, size), size)
-----------------------------------------------------------------------------
Init ==
  /\ buffer = [i \in 0 .. FrameSizeMax - 1 |-> Uninit]
  /\ index_begin = 0
  /\ index_end = 0
  /\ pc = "idle"
  /\ wire \in [0 .. WireLen - 1 -> Byte]
  /\ fed = 0
  /\ copied = 0
  /\ delivered = <<>>

\* The caller feeds the next chunk, of any size.
Feed ==
  /\ pc = "idle"
  /\ \E n \in 1 .. WireLen - fed : fed' = fed + n
  /\ pc' = "feed"
  /\ UNCHANGED <<bufferVars, wire, copied, delivered>>

\* The space an iteration of the feed loop finds.  With none left it drops
\* the buffer first; base is then where the next byte goes.
AppendBase == IF FrameSizeMax - index_end <= 0 THEN 0 ELSE index_end

\* Body of the feed loop up to the scan: memcpy of as much as fits.
AppendChunk ==
  LET base == AppendBase
      size == Min2(FrameSizeMax - base, fed - copied)
  IN  /\ pc = "feed"
      /\ copied < fed
      /\ buffer' = [i \in 0 .. FrameSizeMax - 1 |->
                      IF i >= base /\ i < base + size
                      THEN wire[copied + (i - base)] ELSE buffer[i]]
      /\ index_begin' = IF base = index_end THEN index_begin ELSE 0
      /\ index_end' = base + size
      /\ copied' = copied + size
      /\ pc' = "scan"
      /\ UNCHANGED <<wire, fed, delivered>>

\* Mutant of SkipByte: a bad checksum discards the whole candidate.
SkipCandidate ==
  /\ pc = "scan"
  /\ Size >= FrameSizeMin
  /\ BadHeader \/ (FrameComplete /\ ~ChecksumGood)
  /\ index_begin' = index_begin
                      + IF BadHeader THEN 1 ELSE FrameSize(buffer, index_begin)
  /\ UNCHANGED <<buffer, index_end, pc, inputVars, delivered>>

\* A mismatch of any kind costs exactly one byte.
SkipByte ==
  /\ pc = "scan"
  /\ Size >= FrameSizeMin
  /\ BadHeader \/ (FrameComplete /\ ~ChecksumGood)
  /\ index_begin' = index_begin + 1
  /\ UNCHANGED <<buffer, index_end, pc, inputVars, delivered>>

\* Mutant of ExtractFrame: the checksum byte is not consumed.
ExtractShort ==
  /\ pc = "scan"
  /\ Size >= FrameSizeMin
  /\ ~BadHeader /\ FrameComplete /\ ChecksumGood
  /\ delivered' = Append(delivered,
                    [at |-> Position,
                     payload |-> Slice(buffer, index_begin + FramePayloadOffset,
                                       PayloadSize(buffer, index_begin))])
  /\ index_begin' = index_begin + FrameSize(buffer, index_begin) - 1
  /\ UNCHANGED <<buffer, index_end, pc, inputVars>>

ExtractFrame ==
  /\ pc = "scan"
  /\ Size >= FrameSizeMin
  /\ ~BadHeader /\ FrameComplete /\ ChecksumGood
  /\ delivered' = Append(delivered,
                    [at |-> Position,
                     payload |-> Slice(buffer, index_begin + FramePayloadOffset,
                                       PayloadSize(buffer, index_begin))])
  /\ index_begin' = index_begin + FrameSize(buffer, index_begin)
  /\ UNCHANGED <<buffer, index_end, pc, inputVars>>

\* The scan loop ends: too few bytes for a header, or a frame still incomplete.
ScanDone ==
  Size >= FrameSizeMin => ~BadHeader /\ ~FrameComplete

\* Mutant of Compact: the bytes left are not moved.
CompactWithoutMove ==
  /\ pc = "scan"
  /\ ScanDone
  /\ index_end' = index_end - index_begin
  /\ index_begin' = 0
  /\ pc' = IF copied < fed THEN "feed" ELSE "idle"
  /\ UNCHANGED <<buffer, inputVars, delivered>>

\* Mutant of Compact: index_begin is not reset.
CompactKeepBegin ==
  /\ pc = "scan"
  /\ ScanDone
  /\ buffer' = [i \in 0 .. FrameSizeMax - 1 |->
                  IF i < Size THEN buffer[index_begin + i] ELSE buffer[i]]
  /\ index_end' = index_end - index_begin
  /\ pc' = IF copied < fed THEN "feed" ELSE "idle"
  /\ UNCHANGED <<index_begin, inputVars, delivered>>

\* Mutant of Compact: the buffer is emptied at the end of every append.
CompactDrop ==
  /\ pc = "scan"
  /\ ScanDone
  /\ index_end' = 0
  /\ index_begin' = 0
  /\ pc' = IF copied < fed THEN "feed" ELSE "idle"
  /\ UNCHANGED <<buffer, inputVars, delivered>>

\* memmove to the front, then back to the feed loop or out of the call.
Compact ==
  /\ pc = "scan"
  /\ ScanDone
  /\ buffer' = [i \in 0 .. FrameSizeMax - 1 |->
                  IF i < Size THEN buffer[index_begin + i] ELSE buffer[i]]
  /\ index_end' = index_end - index_begin
  /\ index_begin' = 0
  /\ pc' = IF copied < fed THEN "feed" ELSE "idle"
  /\ UNCHANGED <<inputVars, delivered>>

FeedStep == AppendChunk \/ SkipByte \/ ExtractFrame \/ Compact

Next == Feed \/ FeedStep

Spec == Init /\ [][Next]_vars

\* A call, once made, runs: nothing in it waits for anything outside.
FairSpec == Spec /\ WF_vars(FeedStep)
-----------------------------------------------------------------------------
Payloads == UNION {[0 .. n - 1 -> Byte] : n \in 0 .. FramePayloadSizeMax}

TypeOK ==
  /\ buffer \in [0 .. FrameSizeMax - 1 -> Byte \cup {Uninit}]
  /\ index_begin \in 0 .. FrameSizeMax
  /\ index_end \in 0 .. FrameSizeMax
  /\ index_begin <= index_end
  /\ pc \in {"idle", "feed", "scan"}
  /\ wire \in [0 .. WireLen - 1 -> Byte]
  /\ fed \in 0 .. WireLen
  /\ copied \in 0 .. fed
  /\ delivered \in Seq([at : Nat, payload : Payloads])

(***************************************************************************)
(* Between appends there is always room for at least one byte, so the      *)
(* fallback of ubeacon_frame.c:64-69 ("does not happen in theory") is dead *)
(* code and no buffered byte is ever dropped by it.                        *)
(***************************************************************************)
FallbackUnreachable ==
  pc \in {"idle", "feed"} => index_begin = 0 /\ index_end < FrameSizeMax

(***************************************************************************)
(* The live part of the buffer is exactly the tail of the bytes copied: no *)
(* byte is lost, repeated or reordered by the chunk splitting, the copy or *)
(* the overlapping memmove, and no uninitialised or stale byte is read.    *)
(***************************************************************************)
BufferIsWireTail ==
  /\ Position \in 0 .. copied
  /\ \A k \in 0 .. Size - 1 : buffer[index_begin + k] = wire[Position + k]

\* A well-formed frame lies on the wire at offset p, whatever surrounds it.
ValidFrameAt(p) ==
  /\ p + FrameSizeMin <= WireLen
  /\ wire[p] = FrameSOF
  /\ PayloadSize(wire, p) <= FramePayloadSizeMax
  /\ p + FrameSize(wire, p) <= WireLen
  /\ ChecksumVerify(Slice(wire, p, FrameSize(wire, p)), FrameSize(wire, p))

\* The i-th delivered frame occupies offset p of the wire.
Covers(i, p) ==
  /\ delivered[i].at <= p
  /\ p < delivered[i].at + FrameSize(wire, delivered[i].at)

(***************************************************************************)
(* One-byte resynchronisation (ubeacon_frame.h:31-32) loses no frame: once *)
(* the scan has passed the first byte of a well-formed frame, that frame   *)
(* was delivered, or it began inside a frame that was.                     *)
(***************************************************************************)
NoFrameLost ==
  \A p \in 0 .. WireLen - 1 :
    ValidFrameAt(p) /\ p < Position => \E i \in DOMAIN delivered : Covers(i, p)

(***************************************************************************)
(* What the callback got is well-formed frames of the wire, in order and   *)
(* without overlap: no frame twice, none made up from two.                 *)
(***************************************************************************)
DeliveredGenuine ==
  /\ \A i \in DOMAIN delivered :
       LET p == delivered[i].at
       IN  /\ ValidFrameAt(p)
           /\ delivered[i].payload =
                Slice(wire, p + FramePayloadOffset, PayloadSize(wire, p))
           /\ p + FrameSize(wire, p) <= Position
  /\ \A i, j \in DOMAIN delivered :
       i < j => delivered[i].at + FrameSize(wire, delivered[i].at)
                  <= delivered[j].at

\* The byte at Position may begin a frame whose end has not been fed yet.
PendingCandidate ==
  /\ Size >= FrameSizeMin
  /\ wire[Position] = FrameSOF
  /\ PayloadSize(wire, Position) <= FramePayloadSizeMax
  /\ Position + FrameSize(wire, Position) > fed

(***************************************************************************)
(* When a feed call returns, a well-formed frame whose last byte has been  *)
(* fed is delivered or covered, unless it lies behind an earlier SOF that  *)
(* announces a frame still incomplete: nothing else may wait in the buffer.*)
(***************************************************************************)
CompleteFramesDelivered ==
  pc = "idle" =>
    \A p \in 0 .. WireLen - 1 :
      ValidFrameAt(p) /\ p + FrameSize(wire, p) <= fed
        => \/ \E i \in DOMAIN delivered : Covers(i, p)
           \/ PendingCandidate /\ Position < p

(***************************************************************************)
(* A false start (an SOF in noise that announces a long payload) holds the *)
(* frames behind it back, but never longer than one maximal frame: when a  *)
(* feed call returns, every well-formed frame that began FrameSizeMax or   *)
(* more bytes before the end of the data is delivered or covered.          *)
(***************************************************************************)
StallBounded ==
  pc = "idle" =>
    \A p \in 0 .. WireLen - 1 :
      ValidFrameAt(p) /\ p + FrameSizeMax <= fed
        => \E i \in DOMAIN delivered : Covers(i, p)

(***************************************************************************)
(* Frames the wire holds from p on when only its first `end` bytes exist:  *)
(* the reference parse, on the whole stream at once.                       *)
(***************************************************************************)
Parse(end) ==
  LET from[p \in 0 .. end] ==
        IF end - p < FrameSizeMin THEN <<>>
        ELSE IF wire[p] # FrameSOF \/ PayloadSize(wire, p) > FramePayloadSizeMax
        THEN from[p + 1]
        ELSE IF p + FrameSize(wire, p) > end THEN <<>>
        ELSE IF ~ChecksumVerify(Slice(wire, p, FrameSize(wire, p)),
                                FrameSize(wire, p))
        THEN from[p + 1]
        ELSE <<p>> \o from[p + FrameSize(wire, p)]
  IN  from[0]

(***************************************************************************)
(* Chunking does not matter: when a feed call returns, the callback has    *)
(* seen the frames a single call with all the data so far would have given *)
(* ("feed an arbitrarily split or merged byte stream", ubeacon_frame.h:31).*)
(***************************************************************************)
ChunkingIrrelevant ==
  pc = "idle" => [i \in DOMAIN delivered |-> delivered[i].at] = Parse(fed)

\* The code implements the frame stream of FrameStream, including its fairness.
Stream == INSTANCE FrameStream WITH
            arrived <- fed, pos <- Position, frames <- delivered

StreamSpec == Stream!FairSpec
==============================================================================
