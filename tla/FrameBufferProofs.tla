-------------------------- MODULE FrameBufferProofs --------------------------
(***************************************************************************)
(* Proofs about FrameBuffer, for every byte size, buffer capacity, wire    *)
(* and chunking: first its invariants, then the frame buffer against its   *)
(* two references.  It implements FrameStream, under the mapping of the    *)
(* Stream instance: what has arrived is what was fed, and the stream       *)
(* position is the wire offset of index_begin.  And it computes Parse, the *)
(* parse of the whole stream at once: what has been delivered, and Parse   *)
(* from index_begin's offset on, make up all of it.                        *)
(* Then about Link, whose receiver is this frame buffer with the parser as *)
(* its callback.  The line is joined of the noise and of the bytes of the  *)
(* frames, a frame's body of the bytes of its messages; noise holds no     *)
(* SOF, so the scan stops nowhere but at the next frame, and the parser    *)
(* walks over its messages one by one.                                     *)
(***************************************************************************)
EXTENDS Link, InductionFacts, SequenceTheorems, FiniteSetTheorems

USE FormatAssumption, WireLenAssumption

\* A feed call in progress has data left; a call that returned has none.
CallComplete ==
  /\ pc = "idle" => copied = fed
  /\ pc = "feed" => copied < fed

\* The buffer's part of the inductive invariant: indices and content.
BufferInv ==
  /\ TypeOK
  /\ CallComplete
  /\ FallbackUnreachable
  /\ BufferIsWireTail
-----------------------------------------------------------------------------
\* The size field read from two bytes is a natural number.
LEMMA PayloadSizeNat ==
  ASSUME NEW lo \in Byte, NEW hi \in Byte
  PROVE  lo + ByteBase * hi \in Nat
<1>1. lo \in Nat /\ hi \in Nat /\ ByteBase \in Nat
  BY DEF Byte
<1>2. ByteBase * hi \in Nat
  BY <1>1
<1> QED BY <1>1, <1>2

\* What the scan reads at index_begin is what the wire holds at Position.
LEMMA LiveBytes ==
  ASSUME TypeOK, BufferIsWireTail
  PROVE  /\ Position \in 0 .. copied
         /\ Size \in Nat /\ Position + Size = copied
         /\ Position + Size <= WireLen
         /\ \A k \in 0 .. Size - 1 :
              /\ buffer[index_begin + k] = wire[Position + k]
              /\ wire[Position + k] \in Byte
         /\ \A n \in 0 .. Size :
              Slice(buffer, index_begin, n) = Slice(wire, Position, n)
<1>1. /\ Position \in 0 .. copied
      /\ Size \in Nat /\ Position + Size = copied
      /\ Position + Size <= WireLen
  BY DEF TypeOK, BufferIsWireTail, Position, Size
<1>2. \A k \in 0 .. Size - 1 : /\ buffer[index_begin + k] = wire[Position + k]
                               /\ wire[Position + k] \in Byte
  <2> TAKE k \in 0 .. Size - 1
  <2>1. Position + k \in 0 .. WireLen - 1
    BY <1>1
  <2> QED BY <2>1 DEF TypeOK, BufferIsWireTail
<1>3. ASSUME NEW n \in 0 .. Size
      PROVE  Slice(buffer, index_begin, n) = Slice(wire, Position, n)
  <2>1. \A k \in 0 .. n - 1 : buffer[index_begin + k] = wire[Position + k]
    BY <1>1, <1>2
  <2> QED BY <2>1 DEF Slice
<1> QED BY <1>1, <1>2, <1>3

\* The tests of the scan loop are tests of the wire.
LEMMA LiveHeader ==
  ASSUME TypeOK, BufferIsWireTail, Size >= FrameSizeMin
  PROVE  /\ buffer[index_begin] = wire[Position]
         /\ PayloadSize(buffer, index_begin) = PayloadSize(wire, Position)
         /\ FrameSize(buffer, index_begin) = FrameSize(wire, Position)
         /\ PayloadSize(wire, Position) \in Nat
         /\ FrameSize(wire, Position) \in Nat
         /\ FrameSize(wire, Position) >= FrameSizeMin
<1>1. /\ 0 \in 0 .. Size - 1 /\ 1 \in 0 .. Size - 1 /\ 2 \in 0 .. Size - 1
  BY LiveBytes DEF FrameSizeMin
<1>2. /\ buffer[index_begin + 0] = wire[Position + 0]
      /\ buffer[index_begin + 1] = wire[Position + 1]
      /\ buffer[index_begin + 2] = wire[Position + 2]
      /\ wire[Position + 1] \in Byte /\ wire[Position + 2] \in Byte
  BY <1>1, LiveBytes
<1>3. index_begin + 0 = index_begin /\ Position + 0 = Position
  BY LiveBytes DEF TypeOK
<1>4. PayloadSize(wire, Position) \in Nat
  BY <1>2, PayloadSizeNat DEF PayloadSize
<1>5. PayloadSize(buffer, index_begin) = PayloadSize(wire, Position)
  BY <1>2 DEF PayloadSize
<1> QED BY <1>2, <1>3, <1>4, <1>5 DEF FrameSize, FrameSizeMin

\* The checksum test of the scan loop is a test of the wire.
LEMMA LiveChecksum ==
  ASSUME TypeOK, BufferIsWireTail, Size >= FrameSizeMin, FrameComplete
  PROVE  /\ FrameSize(wire, Position) <= Size
         /\ ChecksumGood <=> ChecksumVerify(
                               Slice(wire, Position, FrameSize(wire, Position)),
                               FrameSize(wire, Position))
<1>1. FrameSize(wire, Position) <= Size
  BY LiveHeader DEF FrameComplete
<1>2. FrameSize(wire, Position) \in 0 .. Size
  BY <1>1, LiveHeader, LiveBytes
<1>3. Slice(buffer, index_begin, FrameSize(wire, Position))
        = Slice(wire, Position, FrameSize(wire, Position))
  BY <1>2, LiveBytes
<1> QED BY <1>1, <1>3, LiveHeader DEF ChecksumGood
-----------------------------------------------------------------------------

LEMMA BufferInit == Init => BufferInv
<1> SUFFICES ASSUME Init PROVE BufferInv
  OBVIOUS
<1>1. TypeOK
  BY DEF Init, TypeOK, FrameSizeMin
<1>2. CallComplete /\ FallbackUnreachable
  BY DEF Init, CallComplete, FallbackUnreachable, FrameSizeMin
<1>3. BufferIsWireTail
  BY DEF Init, BufferIsWireTail, Position, Size
<1> QED BY <1>1, <1>2, <1>3 DEF BufferInv

LEMMA BufferFeed == BufferInv /\ Feed => BufferInv'
<1> SUFFICES ASSUME BufferInv, Feed PROVE BufferInv'
  OBVIOUS
<1> USE DEF BufferInv, Feed, bufferVars
<1>1. TypeOK'
  BY DEF TypeOK
<1>2. CallComplete' /\ FallbackUnreachable'
  BY DEF CallComplete, FallbackUnreachable, TypeOK
<1>3. BufferIsWireTail'
  BY DEF BufferIsWireTail, Position, Size
<1> QED BY <1>1, <1>2, <1>3

\* memcpy has room: the fallback is not taken and at least one byte is copied.
LEMMA AppendRoom ==
  ASSUME BufferInv, pc = "feed", copied < fed
  PROVE  /\ AppendBase = index_end /\ index_begin = 0
         /\ \A n : n = Min2(FrameSizeMax - index_end, fed - copied) =>
              /\ n \in 1 .. FrameSizeMax - index_end
              /\ n <= fed - copied
  BY DEF BufferInv, FallbackUnreachable, AppendBase, TypeOK, Min2

LEMMA BufferAppend == BufferInv /\ AppendChunk => BufferInv'
<1> SUFFICES ASSUME BufferInv, AppendChunk PROVE BufferInv'
  OBVIOUS
<1> DEFINE n == Min2(FrameSizeMax - index_end, fed - copied)
<1>1. pc = "feed" /\ copied < fed
  BY DEF AppendChunk
<1>2. /\ AppendBase = index_end /\ index_begin = 0
      /\ n \in 1 .. FrameSizeMax - index_end /\ n <= fed - copied
  BY <1>1, AppendRoom
<1>3. /\ buffer' = [i \in 0 .. FrameSizeMax - 1 |->
                     IF i >= index_end /\ i < index_end + n
                     THEN wire[copied + (i - index_end)] ELSE buffer[i]]
      /\ index_begin' = 0 /\ index_end' = index_end + n
      /\ copied' = copied + n /\ pc' = "scan"
      /\ UNCHANGED <<wire, fed, delivered>>
  BY <1>2 DEF AppendChunk
<1> HIDE DEF n
<1>4. /\ index_begin \in 0 .. FrameSizeMax /\ index_end \in 0 .. FrameSizeMax
      /\ fed \in 0 .. WireLen /\ copied \in 0 .. fed
      /\ buffer \in [0 .. FrameSizeMax - 1 -> Byte \cup {Uninit}]
      /\ wire \in [0 .. WireLen - 1 -> Byte]
  BY DEF BufferInv, TypeOK
<1>5. buffer' \in [0 .. FrameSizeMax - 1 -> Byte \cup {Uninit}]
  <2> SUFFICES ASSUME NEW i \in 0 .. FrameSizeMax - 1
               PROVE  buffer'[i] \in Byte \cup {Uninit}
    BY <1>3
  <2>1. CASE i >= index_end /\ i < index_end + n
    <3>1. copied + (i - index_end) \in 0 .. WireLen - 1
      BY <2>1, <1>2, <1>4
    <3> QED BY <2>1, <3>1, <1>3, <1>4
  <2>2. CASE ~(i >= index_end /\ i < index_end + n)
    BY <2>2, <1>3, <1>4
  <2> QED BY <2>1, <2>2
<1>6. TypeOK'
  BY SMTT(30), <1>2, <1>3, <1>4, <1>5 DEF BufferInv, TypeOK
<1>7. CallComplete' /\ FallbackUnreachable'
  BY <1>3 DEF CallComplete, FallbackUnreachable
<1>8. BufferIsWireTail'
  <2>1. /\ Size' = index_end + n /\ Position' = Position
        /\ Position = copied - index_end /\ Position \in 0 .. copied
    BY <1>2, <1>3, <1>4 DEF Size, Position, BufferInv, BufferIsWireTail
  <2>2. ASSUME NEW k \in 0 .. index_end + n - 1
        PROVE  buffer'[k] = wire[Position + k]
    <3>1. k \in 0 .. FrameSizeMax - 1
      BY <1>2, <1>4
    <3>2. CASE k >= index_end
      <4>1. buffer'[k] = wire[copied + (k - index_end)]
        BY <3>1, <3>2, <1>2, <1>3, <1>4
      <4>2. copied + (k - index_end) = Position + k
        BY <2>1, <1>2, <1>4
      <4> QED BY <4>1, <4>2
    <3>3. CASE k < index_end
      <4>1. buffer'[k] = buffer[k]
        BY <3>1, <3>3, <1>3, <1>4
      <4>2. k \in 0 .. Size - 1 /\ index_begin + k = k
        BY <3>3, <1>2, <1>4 DEF Size
      <4> QED BY <4>1, <4>2 DEF BufferInv, BufferIsWireTail
    <3> QED BY <3>2, <3>3, <1>4
  <2>3. Position' \in 0 .. copied'
    BY <2>1, <1>2, <1>3, <1>4
  <2>4. ASSUME NEW k \in 0 .. Size' - 1
        PROVE  buffer'[index_begin' + k] = wire'[Position' + k]
    <3>1. k \in 0 .. index_end + n - 1 /\ index_begin' + k = k
      BY <2>1, <1>2, <1>3, <1>4
    <3>2. buffer'[k] = wire[Position + k]
      BY <3>1, <2>2
    <3> QED BY <3>1, <3>2, <2>1, <1>3
  <2> QED BY <2>3, <2>4 DEF BufferIsWireTail
<1> QED BY <1>6, <1>7, <1>8 DEF BufferInv

LEMMA BufferSkip == BufferInv /\ SkipByte => BufferInv'
<1> SUFFICES ASSUME BufferInv, SkipByte PROVE BufferInv'
  OBVIOUS
<1> USE DEF SkipByte, inputVars
<1>1. /\ Size >= 4 /\ index_begin' = index_begin + 1
      /\ UNCHANGED <<buffer, index_end, pc, wire, fed, copied, delivered>>
  BY DEF FrameSizeMin
<1>2. TypeOK'
  BY <1>1 DEF BufferInv, TypeOK, Size
<1>3. CallComplete' /\ FallbackUnreachable'
  BY DEF BufferInv, CallComplete, FallbackUnreachable
<1>4. BufferIsWireTail'
  <2>1. /\ Size' = Size - 1 /\ Position' = Position + 1
        /\ Size \in Nat /\ Position \in 0 .. copied
        /\ Position + Size = copied /\ index_begin \in Nat
    BY <1>1, LiveBytes DEF Size, Position, BufferInv, TypeOK
  <2>2. ASSUME NEW k \in 0 .. Size' - 1
        PROVE  buffer'[index_begin' + k] = wire'[Position' + k]
    <3>1. k + 1 \in 0 .. Size - 1
      BY <2>1
    <3>2. buffer[index_begin + (k + 1)] = wire[Position + (k + 1)]
      BY <3>1 DEF BufferInv, BufferIsWireTail
    <3>3. /\ index_begin' + k = index_begin + (k + 1)
          /\ Position' + k = Position + (k + 1)
      BY <1>1, <2>1
    <3> QED BY <3>2, <3>3, <1>1
  <2>3. Position' \in 0 .. copied'
    BY <1>1, <2>1
  <2> QED BY <2>2, <2>3 DEF BufferIsWireTail
<1> QED BY <1>2, <1>3, <1>4 DEF BufferInv

\* An extracted payload is a slice of bytes no longer than the format allows.
LEMMA PayloadSlice ==
  ASSUME BufferInv, Size >= FrameSizeMin, ~BadHeader, FrameComplete
  PROVE  /\ Slice(buffer, index_begin + FramePayloadOffset,
                  PayloadSize(buffer, index_begin)) \in Payloads
         /\ Slice(buffer, index_begin + FramePayloadOffset,
                  PayloadSize(buffer, index_begin))
              = Slice(wire, Position + FramePayloadOffset,
                      PayloadSize(wire, Position))
<1> DEFINE n == PayloadSize(wire, Position)
<1>1. /\ PayloadSize(buffer, index_begin) = n /\ n \in Nat
      /\ FrameSize(buffer, index_begin) = FrameSizeMin + n
  BY LiveHeader DEF BufferInv, FrameSize
<1> HIDE DEF n
<1>2. /\ n \in 0 .. FramePayloadSizeMax /\ FrameSizeMin + n <= Size
      /\ FramePayloadSizeMax \in Nat
  BY <1>1 DEF BadHeader, FrameComplete, FramePayloadSizeMax, FrameSizeMin
<1>3. ASSUME NEW k \in 0 .. n - 1
      PROVE  /\ buffer[index_begin + FramePayloadOffset + k]
                  = wire[Position + FramePayloadOffset + k]
             /\ buffer[index_begin + FramePayloadOffset + k] \in Byte
  <2>1. /\ FramePayloadOffset + k \in 0 .. Size - 1
        /\ index_begin \in Nat /\ Position \in Nat
    BY <1>2, LiveBytes DEF FramePayloadOffset, FrameSizeMin, BufferInv, TypeOK
  <2>2. /\ buffer[index_begin + (FramePayloadOffset + k)]
             = wire[Position + (FramePayloadOffset + k)]
        /\ wire[Position + (FramePayloadOffset + k)] \in Byte
    BY <2>1, LiveBytes DEF BufferInv
  <2>3. /\ index_begin + (FramePayloadOffset + k)
             = index_begin + FramePayloadOffset + k
        /\ Position + (FramePayloadOffset + k)
             = Position + FramePayloadOffset + k
    BY <2>1 DEF FramePayloadOffset
  <2> QED BY <2>2, <2>3
<1>4. Slice(buffer, index_begin + FramePayloadOffset, n) \in [0 .. n - 1 -> Byte]
  BY <1>3 DEF Slice
<1>5. Slice(buffer, index_begin + FramePayloadOffset, n) \in Payloads
  BY <1>2, <1>4 DEF Payloads
<1>6. Slice(buffer, index_begin + FramePayloadOffset, n)
        = Slice(wire, Position + FramePayloadOffset, n)
  BY <1>3 DEF Slice
<1> QED BY <1>1, <1>5, <1>6 DEF n

LEMMA BufferExtract == BufferInv /\ ExtractFrame => BufferInv'
<1> SUFFICES ASSUME BufferInv, ExtractFrame PROVE BufferInv'
  OBVIOUS
<1> DEFINE n == FrameSize(wire, Position)
           d == [at |-> Position,
                 payload |-> Slice(buffer, index_begin + FramePayloadOffset,
                                   PayloadSize(buffer, index_begin))]
<1>1. /\ Size >= FrameSizeMin /\ ~BadHeader /\ FrameComplete
      /\ UNCHANGED <<buffer, index_end, pc, wire, fed, copied>>
      /\ index_begin' = index_begin + n /\ delivered' = Append(delivered, d)
  BY LiveHeader DEF ExtractFrame, inputVars, BufferInv
<1>2. n \in 0 .. Size
  BY <1>1, LiveHeader DEF FrameComplete, BufferInv
<1>3. d \in [at : Nat, payload : Payloads]
  BY <1>1, PayloadSlice, LiveBytes DEF BufferInv
<1> HIDE DEF n, d
<1>4. TypeOK'
  BY <1>1, <1>2, <1>3 DEF BufferInv, TypeOK, Size
<1>5. CallComplete' /\ FallbackUnreachable'
  BY <1>1 DEF ExtractFrame, BufferInv, CallComplete, FallbackUnreachable
<1>6. BufferIsWireTail'
  <2>1. /\ Size' = Size - n /\ Position' = Position + n
        /\ Size \in Nat /\ Position \in 0 .. copied
        /\ Position + Size = copied /\ index_begin \in Nat
    BY <1>1, <1>2, LiveBytes DEF Size, Position, BufferInv, TypeOK
  <2>2. ASSUME NEW k \in 0 .. Size' - 1
        PROVE  buffer'[index_begin' + k] = wire'[Position' + k]
    <3>1. n + k \in 0 .. Size - 1
      BY <2>1, <1>2
    <3>2. buffer[index_begin + (n + k)] = wire[Position + (n + k)]
      BY <3>1 DEF BufferInv, BufferIsWireTail
    <3>3. /\ index_begin' + k = index_begin + (n + k)
          /\ Position' + k = Position + (n + k)
      BY <1>1, <1>2, <2>1
    <3> QED BY <3>2, <3>3, <1>1
  <2>3. Position' \in 0 .. copied'
    BY <1>1, <1>2, <2>1
  <2> QED BY <2>2, <2>3 DEF BufferIsWireTail
<1> QED BY <1>4, <1>5, <1>6 DEF BufferInv

\* When the scan stops, what is left is shorter than the longest frame.
LEMMA ScanDoneShort ==
  ASSUME BufferInv, ScanDone
  PROVE  Size < FrameSizeMax
<1>1. CASE Size < FrameSizeMin
  BY <1>1, LiveBytes DEF FrameSizeMin, BufferInv
<1>2. CASE Size >= FrameSizeMin
  <2>1. ~BadHeader /\ ~FrameComplete
    BY <1>2 DEF ScanDone
  <2>2. FrameSize(buffer, index_begin) <= FrameSizeMax
    BY <1>2, <2>1, LiveHeader DEF BadHeader, FrameSize, FramePayloadSizeMax,
                                  FrameSizeMin, BufferInv
  <2> QED BY <1>2, <2>1, <2>2, LiveHeader, LiveBytes DEF FrameComplete, BufferInv
<1> QED BY <1>1, <1>2, LiveBytes DEF BufferInv, FrameSizeMin

LEMMA BufferCompact == BufferInv /\ Compact => BufferInv'
<1> SUFFICES ASSUME BufferInv, Compact PROVE BufferInv'
  OBVIOUS
<1>1. /\ UNCHANGED <<wire, fed, copied, delivered>>
      /\ index_begin' = 0 /\ index_end' = Size
      /\ buffer' = [i \in 0 .. FrameSizeMax - 1 |->
                      IF i < Size THEN buffer[index_begin + i] ELSE buffer[i]]
      /\ pc' = IF copied < fed THEN "feed" ELSE "idle"
  BY DEF Compact, Size, inputVars
<1>2. /\ Size \in 0 .. FrameSizeMax - 1
      /\ index_begin \in Nat /\ index_begin + Size = index_end
      /\ index_end <= FrameSizeMax
      /\ Size' = Size /\ Position' = Position /\ Position \in 0 .. copied
  BY <1>1, ScanDoneShort, LiveBytes
     DEF Compact, Size, Position, BufferInv, TypeOK
<1>3. buffer' \in [0 .. FrameSizeMax - 1 -> Byte \cup {Uninit}]
  <2> SUFFICES ASSUME NEW i \in 0 .. FrameSizeMax - 1
               PROVE  buffer'[i] \in Byte \cup {Uninit}
    BY <1>1
  <2>1. i < Size => index_begin + i \in 0 .. FrameSizeMax - 1
    BY <1>2
  <2>2. buffer \in [0 .. FrameSizeMax - 1 -> Byte \cup {Uninit}]
    BY DEF BufferInv, TypeOK
  <2> QED BY <2>1, <2>2, <1>1
<1>4. TypeOK'
  BY SMTT(30), <1>1, <1>2, <1>3 DEF BufferInv, TypeOK
<1>5. CallComplete' /\ FallbackUnreachable'
  BY <1>1, <1>2 DEF BufferInv, TypeOK, CallComplete, FallbackUnreachable
<1>6. BufferIsWireTail'
  <2>1. ASSUME NEW k \in 0 .. Size' - 1
        PROVE  buffer'[index_begin' + k] = wire'[Position' + k]
    <3>1. /\ k \in 0 .. Size - 1 /\ k \in 0 .. FrameSizeMax - 1
          /\ index_begin' + k = k
      BY <1>1, <1>2
    <3>2. buffer'[k] = buffer[index_begin + k]
      BY <3>1, <1>1, <1>2
    <3> QED BY <3>1, <3>2, <1>1, <1>2 DEF BufferInv, BufferIsWireTail
  <2> QED BY <2>1, <1>1, <1>2 DEF BufferIsWireTail
<1> QED BY <1>4, <1>5, <1>6 DEF BufferInv

LEMMA BufferStutter == BufferInv /\ UNCHANGED vars => BufferInv'
<1> SUFFICES ASSUME BufferInv, UNCHANGED vars PROVE BufferInv'
  OBVIOUS
<1> USE DEF vars, bufferVars, inputVars
<1>1. TypeOK' /\ CallComplete' /\ FallbackUnreachable'
  BY DEF BufferInv, TypeOK, CallComplete, FallbackUnreachable
<1>2. BufferIsWireTail'
  BY DEF BufferInv, BufferIsWireTail, Position, Size
<1> QED BY <1>1, <1>2 DEF BufferInv

(***************************************************************************)
(* The frame buffer's inductive invariant (ub_frame_buffer_feed): indices  *)
(* in order, the bytes between them those of the wire, room for a byte     *)
(* whenever a turn begins.                                                 *)
(***************************************************************************)
THEOREM BufferInvariant == Spec => []BufferInv
<1>1. BufferInv /\ [Next]_vars => BufferInv'
  BY BufferFeed, BufferAppend, BufferSkip, BufferExtract, BufferCompact,
     BufferStutter DEF Next, FeedStep
<1> QED BY <1>1, BufferInit, PTL DEF Spec

(***************************************************************************)
(* The fallback of the feed loop is dead code, for every capacity.         *)
(***************************************************************************)
THEOREM FallbackNeverTaken == Spec => []FallbackUnreachable
<1>1. BufferInv => FallbackUnreachable
  BY DEF BufferInv
<1> QED BY <1>1, BufferInvariant, PTL

(***************************************************************************)
(* Buffer accesses stay in bounds, and every variable keeps its type.      *)
(***************************************************************************)
THEOREM TypeCorrect == Spec => []TypeOK
<1>1. BufferInv => TypeOK
  BY DEF BufferInv
<1> QED BY <1>1, BufferInvariant, PTL

(***************************************************************************)
(* The live bytes are the tail of what was copied from the wire.           *)
(***************************************************************************)
THEOREM ContentCorrect == Spec => []BufferIsWireTail
<1>1. BufferInv => BufferIsWireTail
  BY DEF BufferInv
<1> QED BY <1>1, BufferInvariant, PTL
-----------------------------------------------------------------------------
\* The scan's part of the invariant: what was delivered, what was passed over.
ScanInv == NoFrameLost /\ DeliveredGenuine

\* Only the scan moves along the wire.
LEMMA PositionFixed ==
  ASSUME BufferInv, Feed \/ AppendChunk \/ Compact \/ UNCHANGED vars
  PROVE  /\ Position' = Position
         /\ wire' = wire /\ delivered' = delivered
<1>1. CASE Feed
  BY <1>1 DEF Feed, Position, Size, bufferVars
<1>2. CASE AppendChunk
  <2> DEFINE n == Min2(FrameSizeMax - index_end, fed - copied)
  <2>1. AppendBase = index_end /\ index_begin = 0 /\ n \in Nat
    BY <1>2, AppendRoom DEF AppendChunk
  <2>2. /\ index_begin' = index_begin /\ index_end' = index_end + n
        /\ copied' = copied + n /\ wire' = wire /\ delivered' = delivered
    BY <1>2, <2>1 DEF AppendChunk
  <2> HIDE DEF n
  <2> QED BY <2>1, <2>2 DEF Position, Size, BufferInv, TypeOK
<1>3. CASE Compact
  BY <1>3 DEF Compact, Position, Size, inputVars, BufferInv, TypeOK
<1>4. CASE UNCHANGED vars
  BY <1>4 DEF vars, bufferVars, inputVars, Position, Size
<1> QED BY <1>1, <1>2, <1>3, <1>4

LEMMA ScanQuiet ==
  ASSUME ScanInv, Position' = Position, wire' = wire, delivered' = delivered
  PROVE  ScanInv'
<1>1. NoFrameLost'
  BY DEF ScanInv, NoFrameLost, ValidFrameAt, Covers
<1>2. DeliveredGenuine'
  BY DEF ScanInv, DeliveredGenuine, ValidFrameAt
<1> QED BY <1>1, <1>2 DEF ScanInv

\* A well-formed frame has a proper size and ends on the wire.
LEMMA ValidFrameSize ==
  ASSUME TypeOK, NEW p \in Nat, ValidFrameAt(p)
  PROVE  /\ FrameSize(wire, p) \in Nat /\ FrameSize(wire, p) >= FrameSizeMin
         /\ PayloadSize(wire, p) \in Nat /\ p + FrameSize(wire, p) <= WireLen
<1>1. p + 1 \in 0 .. WireLen - 1 /\ p + 2 \in 0 .. WireLen - 1
  BY DEF ValidFrameAt, FrameSizeMin
<1>2. PayloadSize(wire, p) \in Nat
  BY <1>1, PayloadSizeNat DEF TypeOK, PayloadSize
<1> QED BY <1>2 DEF ValidFrameAt, FrameSize, FrameSizeMin

\* The frames delivered so far, in the terms the scan lemmas need.
LEMMA DeliveredFrame ==
  ASSUME BufferInv, ScanInv, NEW i \in DOMAIN delivered
  PROVE  /\ delivered[i].at \in Nat
         /\ ValidFrameAt(delivered[i].at)
         /\ FrameSize(wire, delivered[i].at) \in Nat
         /\ delivered[i].at + FrameSize(wire, delivered[i].at) <= Position
         /\ delivered[i].payload =
              Slice(wire, delivered[i].at + FramePayloadOffset,
                    PayloadSize(wire, delivered[i].at))
<1>1. delivered[i] \in [at : Nat, payload : Payloads]
  BY ElementOfSeq, LenProperties DEF BufferInv, TypeOK
<1>2. delivered[i].at \in Nat
  BY <1>1
<1> QED BY <1>2, ValidFrameSize DEF ScanInv, DeliveredGenuine, BufferInv

\* SkipByte never passes the first byte of a well-formed frame.
LEMMA SkipRefutes ==
  ASSUME BufferInv, SkipByte
  PROVE  ~ValidFrameAt(Position)
<1>1. Size >= FrameSizeMin /\ (BadHeader \/ (FrameComplete /\ ~ChecksumGood))
  BY DEF SkipByte
<1>2. CASE BadHeader
  BY <1>1, <1>2, LiveHeader DEF BadHeader, ValidFrameAt, BufferInv,
                                FramePayloadSizeMax, FrameSizeMin
<1>3. CASE FrameComplete /\ ~ChecksumGood
  BY <1>1, <1>3, LiveChecksum DEF ValidFrameAt, BufferInv
<1> QED BY <1>1, <1>2, <1>3

LEMMA ScanSkip == BufferInv /\ ScanInv /\ SkipByte => ScanInv'
<1> SUFFICES ASSUME BufferInv, ScanInv, SkipByte PROVE ScanInv'
  OBVIOUS
<1>1. /\ Position' = Position + 1 /\ Position \in Nat
      /\ wire' = wire /\ delivered' = delivered
  BY LiveBytes DEF SkipByte, Position, Size, inputVars, BufferInv, TypeOK
<1>2. NoFrameLost'
  <2> SUFFICES ASSUME NEW p \in 0 .. WireLen - 1,
                      ValidFrameAt(p), p < Position + 1
               PROVE  \E i \in DOMAIN delivered : Covers(i, p)
    BY <1>1 DEF NoFrameLost, ValidFrameAt, Covers
  <2>1. p < Position
    BY <1>1, SkipRefutes
  <2> QED BY <2>1 DEF ScanInv, NoFrameLost
<1>3. DeliveredGenuine'
  <2>1. ASSUME NEW i \in DOMAIN delivered
        PROVE  delivered[i].at + FrameSize(wire, delivered[i].at) <= Position'
    BY <1>1, <2>1, DeliveredFrame
  <2> QED BY <1>1, <2>1 DEF ScanInv, DeliveredGenuine, ValidFrameAt
<1> QED BY <1>2, <1>3 DEF ScanInv

\* What ExtractFrame appends is the well-formed frame at Position.
LEMMA ExtractValid ==
  ASSUME BufferInv, ExtractFrame
  PROVE  LET n == FrameSize(wire, Position)
             d == [at |-> Position,
                   payload |-> Slice(wire, Position + FramePayloadOffset,
                                     PayloadSize(wire, Position))]
         IN  /\ ValidFrameAt(Position) /\ Position \in Nat /\ n \in Nat
             /\ Position' = Position + n
             /\ wire' = wire /\ delivered' = Append(delivered, d)
<1>1. /\ Size >= FrameSizeMin /\ ~BadHeader /\ FrameComplete /\ ChecksumGood
      /\ UNCHANGED <<buffer, index_end, wire, copied>>
  BY DEF ExtractFrame, inputVars
<1>2. /\ index_begin' = index_begin + FrameSize(wire, Position)
      /\ delivered' = Append(delivered,
                        [at |-> Position,
                         payload |-> Slice(wire, Position + FramePayloadOffset,
                                           PayloadSize(wire, Position))])
  BY <1>1, LiveHeader, PayloadSlice DEF ExtractFrame, BufferInv
<1>3. /\ FrameSize(wire, Position) \in Nat
      /\ FrameSize(wire, Position) <= Size
      /\ Position \in Nat /\ Position + Size <= WireLen /\ Size \in Nat
  BY <1>1, LiveHeader, LiveBytes, LiveChecksum DEF BufferInv
<1>4. ValidFrameAt(Position)
  <2>1. wire[Position] = FrameSOF
    BY <1>1, LiveHeader DEF BadHeader, BufferInv
  <2>2. PayloadSize(wire, Position) <= FramePayloadSizeMax
    BY <1>1, LiveHeader DEF BadHeader, BufferInv, FramePayloadSizeMax, FrameSizeMin
  <2>3. ChecksumVerify(Slice(wire, Position, FrameSize(wire, Position)),
                       FrameSize(wire, Position))
    BY <1>1, LiveChecksum DEF BufferInv
  <2>4. /\ Position + FrameSizeMin <= WireLen
        /\ Position + FrameSize(wire, Position) <= WireLen
    BY <1>1, <1>3 DEF FrameSizeMin
  <2> QED BY <2>1, <2>2, <2>3, <2>4 DEF ValidFrameAt
<1>5. Position' = Position + FrameSize(wire, Position)
  <2> DEFINE n == FrameSize(wire, Position)
  <2>1. n \in Nat /\ index_begin' = index_begin + n
    BY <1>2, <1>3
  <2> HIDE DEF n
  <2>2. Position' = Position + n
    BY <1>1, <2>1 DEF Position, Size, BufferInv, TypeOK
  <2> QED BY <2>2 DEF n
<1> QED BY <1>1, <1>2, <1>3, <1>4, <1>5

LEMMA ScanExtract == BufferInv /\ ScanInv /\ ExtractFrame => ScanInv'
<1> SUFFICES ASSUME BufferInv, ScanInv, ExtractFrame PROVE ScanInv'
  OBVIOUS
<1> DEFINE n == FrameSize(wire, Position)
           d == [at |-> Position,
                 payload |-> Slice(wire, Position + FramePayloadOffset,
                                   PayloadSize(wire, Position))]
           last == Len(delivered) + 1
<1>1. /\ ValidFrameAt(Position) /\ Position \in Nat /\ n \in Nat
      /\ Position' = Position + n
      /\ wire' = wire /\ delivered' = Append(delivered, d)
  BY ExtractValid
<1>2. d.at = Position /\ FrameSize(wire, d.at) = n
  OBVIOUS
<1>3. d.payload = Slice(wire, d.at + FramePayloadOffset, PayloadSize(wire, d.at))
  OBVIOUS
<1> HIDE DEF n, d
<1>4. /\ DOMAIN delivered = 1 .. Len(delivered) /\ Len(delivered) \in Nat
      /\ DOMAIN delivered' = 1 .. last
      /\ \A i \in DOMAIN delivered : delivered'[i] = delivered[i]
      /\ delivered'[last] = d
  BY <1>1, LenProperties, AppendProperties DEF BufferInv, TypeOK
<1>5. ASSUME NEW i \in DOMAIN delivered'
      PROVE  i \in DOMAIN delivered \/ i = last
  BY <1>4
<1>6. NoFrameLost'
  <2> SUFFICES ASSUME NEW p \in 0 .. WireLen - 1,
                      ValidFrameAt(p), p < Position + n
               PROVE  \E i \in DOMAIN delivered' :
                        /\ delivered'[i].at <= p
                        /\ p < delivered'[i].at + FrameSize(wire, delivered'[i].at)
    BY <1>1 DEF NoFrameLost, ValidFrameAt, Covers
  <2>1. CASE p < Position
    <3>1. PICK i \in DOMAIN delivered : Covers(i, p)
      BY <2>1 DEF ScanInv, NoFrameLost
    <3> QED BY <3>1, <1>4 DEF Covers
  <2>2. CASE Position <= p
    <3>1. last \in DOMAIN delivered'
      BY <1>4
    <3>2. /\ delivered'[last].at = Position
          /\ FrameSize(wire, delivered'[last].at) = n
      BY <1>2, <1>4
    <3> QED BY <2>2, <3>1, <3>2
  <2> QED BY <2>1, <2>2, <1>1
<1>7. ASSUME NEW i \in DOMAIN delivered'
      PROVE  /\ ValidFrameAt(delivered'[i].at)
             /\ delivered'[i].payload =
                  Slice(wire, delivered'[i].at + FramePayloadOffset,
                        PayloadSize(wire, delivered'[i].at))
             /\ delivered'[i].at + FrameSize(wire, delivered'[i].at) <= Position + n
  <2>1. CASE i \in DOMAIN delivered
    BY <2>1, <1>1, <1>4, DeliveredFrame
  <2>2. CASE i = last
    BY <2>2, <1>1, <1>2, <1>3, <1>4
  <2> QED BY <2>1, <2>2, <1>5
<1>8. ASSUME NEW i \in DOMAIN delivered', NEW j \in DOMAIN delivered', i < j
      PROVE  delivered'[i].at + FrameSize(wire, delivered'[i].at)
               <= delivered'[j].at
  <2>1. i \in DOMAIN delivered
    BY <1>4, <1>8
  <2>2. CASE j \in DOMAIN delivered
    BY <2>1, <2>2, <1>4, <1>8 DEF ScanInv, DeliveredGenuine
  <2>3. CASE j = last
    BY <2>1, <2>3, <1>2, <1>4, DeliveredFrame
  <2> QED BY <2>2, <2>3, <1>5
<1>9. DeliveredGenuine'
  BY <1>1, <1>7, <1>8 DEF DeliveredGenuine, ValidFrameAt
<1> QED BY <1>6, <1>9 DEF ScanInv

LEMMA ScanInit == Init => ScanInv
<1> SUFFICES ASSUME Init PROVE ScanInv
  OBVIOUS
<1>1. delivered = <<>> /\ Position = 0
  BY DEF Init, Position, Size
<1>2. NoFrameLost
  BY <1>1 DEF NoFrameLost
<1>3. DeliveredGenuine
  BY <1>1 DEF DeliveredGenuine
<1> QED BY <1>2, <1>3 DEF ScanInv

(***************************************************************************)
(* Wherever the scan stands, each frame of the wire that begins before it  *)
(* was delivered or overlaps one that was.                                 *)
(***************************************************************************)
THEOREM ScanInvariant == Spec => []ScanInv
<1>1. BufferInv /\ ScanInv /\ [Next]_vars => ScanInv'
  <2> SUFFICES ASSUME BufferInv, ScanInv, [Next]_vars PROVE ScanInv'
    OBVIOUS
  <2>1. CASE SkipByte
    BY <2>1, ScanSkip
  <2>2. CASE ExtractFrame
    BY <2>2, ScanExtract
  <2>3. CASE Feed \/ AppendChunk \/ Compact \/ UNCHANGED vars
    BY <2>3, PositionFixed, ScanQuiet
  <2> QED BY <2>1, <2>2, <2>3 DEF Next, FeedStep
<1> QED BY <1>1, ScanInit, BufferInvariant, PTL DEF Spec

(***************************************************************************)
(* No well-formed frame is lost to resynchronisation.                      *)
(***************************************************************************)
THEOREM FramesNotLost == Spec => []NoFrameLost
<1>1. ScanInv => NoFrameLost
  BY DEF ScanInv
<1> QED BY <1>1, ScanInvariant, PTL

(***************************************************************************)
(* Delivered frames are well-formed, in order and disjoint.                *)
(***************************************************************************)
THEOREM FramesGenuine == Spec => []DeliveredGenuine
<1>1. ScanInv => DeliveredGenuine
  BY DEF ScanInv
<1> QED BY <1>1, ScanInvariant, PTL

(***************************************************************************)
(* A false start delays a frame by at most one maximal frame.              *)
(***************************************************************************)
THEOREM StallIsBounded == Spec => []StallBounded
<1>1. BufferInv /\ ScanInv => StallBounded
  <2> SUFFICES ASSUME BufferInv, ScanInv, pc = "idle",
                      NEW p \in 0 .. WireLen - 1,
                      ValidFrameAt(p), p + FrameSizeMax <= fed
               PROVE  \E i \in DOMAIN delivered : Covers(i, p)
    BY DEF StallBounded
  <2>1. p < Position
    BY DEF BufferInv, TypeOK, CallComplete, FallbackUnreachable, Position, Size
  <2> QED BY <2>1 DEF ScanInv, NoFrameLost
<1> QED BY <1>1, BufferInvariant, ScanInvariant, PTL
-----------------------------------------------------------------------------
\* A call returns with less than a header, or with a candidate incomplete.
Drained == pc = "idle" => Size < FrameSizeMin \/ PendingCandidate

LEMMA CompactDrains ==
  ASSUME BufferInv, Compact
  PROVE  Drained'
<1> SUFFICES ASSUME pc' = "idle", Size >= FrameSizeMin
             PROVE  PendingCandidate'
  <2>1. Size' = Size /\ Size \in Nat
    BY LiveBytes DEF Compact, Size, BufferInv
  <2> QED BY <2>1 DEF Drained, FrameSizeMin
<1>1. ~BadHeader /\ ~FrameComplete
  BY DEF Compact, ScanDone
<1>2. /\ Position' = Position /\ wire' = wire /\ Size' = Size /\ fed' = fed
      /\ copied = fed
  BY PositionFixed, LiveBytes DEF Compact, Size, inputVars, BufferInv, TypeOK
<1>3. /\ wire[Position] = FrameSOF
      /\ PayloadSize(wire, Position) <= FramePayloadSizeMax
  BY <1>1, LiveHeader DEF BadHeader, BufferInv, FramePayloadSizeMax, FrameSizeMin
<1>4. Position + FrameSize(wire, Position) > fed
  BY <1>1, <1>2, LiveHeader, LiveBytes DEF FrameComplete, BufferInv
<1> QED BY <1>2, <1>3, <1>4 DEF PendingCandidate

(***************************************************************************)
(* A feed returns with less than a header, or with a candidate that waits  *)
(* for more bytes: it has taken out all that it could.                     *)
(***************************************************************************)
THEOREM DrainedInvariant == Spec => []Drained
<1>1. Init => Drained
  BY DEF Init, Drained, Size, FrameSizeMin
<1>2. BufferInv /\ Drained /\ [Next]_vars => Drained'
  <2> SUFFICES ASSUME BufferInv, Drained, [Next]_vars PROVE Drained'
    OBVIOUS
  <2>1. CASE Feed \/ AppendChunk
    BY <2>1 DEF Feed, AppendChunk, Drained
  <2>2. CASE SkipByte \/ ExtractFrame
    BY <2>2 DEF SkipByte, ExtractFrame, Drained
  <2>3. CASE Compact
    BY <2>3, CompactDrains
  <2>4. CASE UNCHANGED vars
    BY <2>4 DEF vars, bufferVars, inputVars, Drained, PendingCandidate,
                Position, Size
  <2> QED BY <2>1, <2>2, <2>3, <2>4 DEF Next, FeedStep
<1> QED BY <1>1, <1>2, BufferInvariant, PTL DEF Spec

(***************************************************************************)
(* A feed call leaves no complete frame behind, but for those behind an    *)
(* incomplete candidate.                                                   *)
(***************************************************************************)
THEOREM CompleteFramesAreDelivered == Spec => []CompleteFramesDelivered
<1>1. BufferInv /\ ScanInv /\ Drained => CompleteFramesDelivered
  <2> SUFFICES ASSUME BufferInv, ScanInv, Drained, pc = "idle",
                      NEW p \in 0 .. WireLen - 1,
                      ValidFrameAt(p), p + FrameSize(wire, p) <= fed,
                      ~(PendingCandidate /\ Position < p)
               PROVE  \E i \in DOMAIN delivered : Covers(i, p)
    BY DEF CompleteFramesDelivered
  <2>1. /\ p \in Nat /\ FrameSize(wire, p) \in Nat
        /\ FrameSize(wire, p) >= 4 /\ fed \in Nat
        /\ Position \in Nat /\ Position + Size = fed /\ Size \in Nat
    BY ValidFrameSize, LiveBytes DEF BufferInv, TypeOK, CallComplete, FrameSizeMin
  <2>2. CASE Size < FrameSizeMin
    BY <2>1, <2>2 DEF ScanInv, NoFrameLost, FrameSizeMin
  <2>3. CASE PendingCandidate
    <3>1. p # Position
      BY <2>1, <2>3 DEF PendingCandidate
    <3> QED BY <2>1, <2>3, <3>1 DEF ScanInv, NoFrameLost
  <2> QED BY <2>2, <2>3 DEF Drained
<1> QED BY <1>1, BufferInvariant, ScanInvariant, DrainedInvariant, PTL
-----------------------------------------------------------------------------
(* Refinement of FrameStream. *)

\* The instance's copies of the format operators are the operators.
LEMMA SameFormat ==
  /\ Stream!Byte = Byte
  /\ Stream!FrameSizeMin = FrameSizeMin
  /\ Stream!FramePayloadOffset = FramePayloadOffset
  /\ Stream!FramePayloadSizeMax = FramePayloadSizeMax
  /\ \A f, i : Stream!PayloadSize(f, i) = PayloadSize(f, i)
  /\ \A f, i : Stream!FrameSize(f, i) = FrameSize(f, i)
  /\ \A f, i, n : Stream!Slice(f, i, n) = Slice(f, i, n)
  /\ \A b, n : Stream!ChecksumVerify(b, n) = ChecksumVerify(b, n)
<1>1. /\ Stream!Byte = Byte
      /\ Stream!FrameSizeMin = FrameSizeMin
      /\ Stream!FramePayloadOffset = FramePayloadOffset
      /\ Stream!FramePayloadSizeMax = FramePayloadSizeMax
  BY DEF Stream!Byte, Byte, Stream!FrameSizeMin, FrameSizeMin,
         Stream!FramePayloadOffset, FramePayloadOffset,
         Stream!FramePayloadSizeMax, FramePayloadSizeMax
<1>2. /\ \A f, i : Stream!PayloadSize(f, i) = PayloadSize(f, i)
      /\ \A f, i : Stream!FrameSize(f, i) = FrameSize(f, i)
  BY <1>1 DEF Stream!PayloadSize, PayloadSize, Stream!FrameSize, FrameSize
<1>3. \A f, i, n : Stream!Slice(f, i, n) = Slice(f, i, n)
  BY DEF Stream!Slice, Slice
<1>4. \A b, n : Stream!Checksum(b, n) = Checksum(b, n)
  BY DEF Stream!Checksum, Checksum
<1>5. \A b, n : Stream!ChecksumVerify(b, n) = ChecksumVerify(b, n)
  BY <1>3, <1>4 DEF Stream!ChecksumVerify, ChecksumVerify
<1> QED BY <1>1, <1>2, <1>3, <1>5

LEMMA MappedInit == Init => Stream!Init
  BY SameFormat DEF Init, Stream!Init, Position, Size

LEMMA MappedStutter ==
  ASSUME BufferInv, AppendChunk \/ Compact \/ UNCHANGED vars
  PROVE  UNCHANGED Stream!streamVars
<1>1. fed' = fed
  BY DEF AppendChunk, Compact, vars, inputVars
<1> QED BY <1>1, PositionFixed DEF Stream!streamVars

LEMMA MappedFeed ==
  ASSUME BufferInv, Feed
  PROVE  Stream!Arrive
<1>1. Position' = Position /\ wire' = wire /\ delivered' = delivered
  BY PositionFixed
<1>2. \E n \in 1 .. WireLen - fed : fed' = fed + n
  BY DEF Feed
<1> QED BY <1>1, <1>2 DEF Stream!Arrive

\* What the scan sees has arrived: the abstract tests hold when its own do.
LEMMA MappedTests ==
  ASSUME BufferInv, Size >= FrameSizeMin
  PROVE  /\ Stream!Available >= FrameSizeMin
         /\ Stream!HeaderRefuted <=> BadHeader
         /\ ~BadHeader /\ FrameComplete => Stream!CandidateArrived
         /\ FrameComplete => (Stream!CandidateValid <=> ChecksumGood)
<1>1. /\ Position \in Nat /\ Size \in Nat /\ Position + Size = copied
      /\ copied <= fed /\ fed \in Nat /\ copied \in Nat
  BY LiveBytes DEF BufferInv, TypeOK
<1>2. fed - Position >= Size
  BY <1>1
<1>3. Stream!Available >= FrameSizeMin
  BY <1>1, <1>2 DEF Stream!Available, FrameSizeMin
<1>4. Stream!HeaderRefuted <=> BadHeader
  BY SameFormat, LiveHeader DEF Stream!HeaderRefuted, BadHeader, BufferInv
<1>5. ~BadHeader /\ FrameComplete => Stream!CandidateArrived
  BY <1>1, <1>2, <1>4, SameFormat, LiveHeader
     DEF Stream!CandidateArrived, Stream!Available, FrameComplete, BufferInv
<1>6. FrameComplete => (Stream!CandidateValid <=> ChecksumGood)
  BY SameFormat, LiveChecksum DEF Stream!CandidateValid, BufferInv
<1> QED BY <1>3, <1>4, <1>5, <1>6

LEMMA MappedSkip ==
  ASSUME BufferInv, SkipByte
  PROVE  Stream!Resync
<1>1. /\ Size >= FrameSizeMin /\ (BadHeader \/ (FrameComplete /\ ~ChecksumGood))
      /\ wire' = wire /\ delivered' = delivered /\ fed' = fed
  BY DEF SkipByte, inputVars
<1>2. Position' = Position + 1
  BY LiveBytes DEF SkipByte, Position, Size, inputVars, BufferInv, TypeOK
<1>3. \/ Stream!HeaderRefuted
      \/ Stream!CandidateArrived /\ ~Stream!CandidateValid
  BY <1>1, MappedTests
<1> QED BY <1>1, <1>2, <1>3, MappedTests, SameFormat DEF Stream!Resync

LEMMA MappedExtract ==
  ASSUME BufferInv, ExtractFrame
  PROVE  Stream!Deliver
<1>1. /\ Size >= FrameSizeMin /\ ~BadHeader /\ FrameComplete /\ ChecksumGood
      /\ fed' = fed
  BY DEF ExtractFrame, inputVars
<1>2. /\ Stream!Available >= FrameSizeMin
      /\ Stream!CandidateArrived /\ Stream!CandidateValid
  BY <1>1, MappedTests
<1> QED BY <1>1, <1>2, ExtractValid, SameFormat DEF Stream!Deliver

(***************************************************************************)
(* Every step of the buffer is a step of the frame stream or leaves it     *)
(* alone: the promise of ubeacon_frame.h:31-32 is kept for every chunking. *)
(***************************************************************************)
THEOREM BufferImplementsStream == Spec => Stream!Spec
<1>1. BufferInv /\ [Next]_vars => [Stream!Next]_(Stream!streamVars)
  <2> SUFFICES ASSUME BufferInv, [Next]_vars
               PROVE  [Stream!Next]_(Stream!streamVars)
    OBVIOUS
  <2>1. CASE Feed
    BY <2>1, MappedFeed DEF Stream!Next
  <2>2. CASE SkipByte
    BY <2>2, MappedSkip DEF Stream!Next
  <2>3. CASE ExtractFrame
    BY <2>3, MappedExtract DEF Stream!Next
  <2>4. CASE AppendChunk \/ Compact \/ UNCHANGED vars
    BY <2>4, MappedStutter
  <2> QED BY <2>1, <2>2, <2>3, <2>4 DEF Next, FeedStep
<1> QED BY <1>1, MappedInit, BufferInvariant, PTL DEF Spec, Stream!Spec
-----------------------------------------------------------------------------
(* Parse.  Its recursion goes up the wire, so facts about it are proved by *)
(* induction on the distance to the end.                                   *)

\* The body of Parse's recursive function, of the function f.
ParseStep(f, p, end) ==
  IF end - p < FrameSizeMin THEN <<>>
  ELSE IF wire[p] # FrameSOF \/ PayloadSize(wire, p) > FramePayloadSizeMax
  THEN f[p + 1]
  ELSE IF p + FrameSize(wire, p) > end THEN <<>>
  ELSE IF ~ChecksumVerify(Slice(wire, p, FrameSize(wire, p)), FrameSize(wire, p))
  THEN f[p + 1]
  ELSE <<p>> \o f[p + FrameSize(wire, p)]

IsParse(f, end) == f = [p \in 0 .. end |-> ParseStep(f, p, end)]

ParseFrom(end) == CHOOSE f : IsParse(f, end)

\* The frames that the first `end` bytes hold are those from offset 0 on.
LEMMA ParseIsFromStart ==
  ASSUME NEW end
  PROVE  Parse(end) = ParseFrom(end)[0]
BY DEF Parse, ParseFrom, IsParse, ParseStep

\* A candidate with a header is followed by something: recursion goes up.
LEMMA CandidateSize ==
  ASSUME TypeOK, NEW end \in 0 .. WireLen, NEW p \in 0 .. end, end - p >= FrameSizeMin
  PROVE  /\ FrameSize(wire, p) \in Nat /\ FrameSize(wire, p) >= FrameSizeMin
         /\ p + 1 \in 0 .. end /\ p + 1 > p
         /\ p + FrameSize(wire, p) <= end =>
              p + FrameSize(wire, p) \in 0 .. end /\ p + FrameSize(wire, p) > p
<1>1. p \in Nat /\ end \in Nat /\ end <= WireLen /\ p + 4 <= end
  BY DEF FrameSizeMin
<1>2. p + 1 \in 0 .. WireLen - 1 /\ p + 2 \in 0 .. WireLen - 1
  BY <1>1
<1>3. PayloadSize(wire, p) \in Nat
  BY <1>2, PayloadSizeNat DEF TypeOK, PayloadSize
<1> QED BY <1>1, <1>3 DEF FrameSize, FrameSizeMin

\* So only the values behind p matter for the value at p ...
LEMMA StepAgrees ==
  ASSUME TypeOK, NEW end \in 0 .. WireLen, NEW p \in 0 .. end, NEW f, NEW g,
         \A q \in 0 .. end : q > p => f[q] = g[q]
  PROVE  ParseStep(f, p, end) = ParseStep(g, p, end)
<1>1. CASE end - p < FrameSizeMin
  BY <1>1 DEF ParseStep
<1>2. CASE ~(end - p < FrameSizeMin)
  <2>1. end - p >= FrameSizeMin
    BY <1>2 DEF FrameSizeMin
  <2>2. /\ f[p + 1] = g[p + 1]
        /\ p + FrameSize(wire, p) <= end =>
             f[p + FrameSize(wire, p)] = g[p + FrameSize(wire, p)]
    BY <2>1, CandidateSize
  <2>3. ~(p + FrameSize(wire, p) > end) => p + FrameSize(wire, p) <= end
    BY <2>1, CandidateSize
  <2> QED BY <1>2, <2>2, <2>3 DEF ParseStep
<1> QED BY <1>1, <1>2

\* ... and it is a sequence of offsets when they are.
LEMMA StepOffsets ==
  ASSUME TypeOK, NEW end \in 0 .. WireLen, NEW p \in 0 .. end, NEW f,
         \A q \in 0 .. end : q > p => f[q] \in Seq(Nat)
  PROVE  ParseStep(f, p, end) \in Seq(Nat)
<1>1. CASE end - p < FrameSizeMin
  BY <1>1 DEF ParseStep
<1>2. CASE ~(end - p < FrameSizeMin)
  <2>1. end - p >= FrameSizeMin
    BY <1>2 DEF FrameSizeMin
  <2>2. /\ f[p + 1] \in Seq(Nat)
        /\ p + FrameSize(wire, p) <= end => f[p + FrameSize(wire, p)] \in Seq(Nat)
    BY <2>1, CandidateSize
  <2>3. ~(p + FrameSize(wire, p) > end) => p + FrameSize(wire, p) <= end
    BY <2>1, CandidateSize
  <2>4. ASSUME p + FrameSize(wire, p) <= end
        PROVE  <<p>> \o f[p + FrameSize(wire, p)] \in Seq(Nat)
    <3>1. <<p>> \in Seq(Nat) /\ f[p + FrameSize(wire, p)] \in Seq(Nat)
      BY <2>2, <2>4
    <3> QED BY <3>1, ConcatProperties
  <2>5. <<>> \in Seq(Nat)
    OBVIOUS
  <2> QED BY <1>2, <2>2, <2>3, <2>4, <2>5 DEF ParseStep
<1> QED BY <1>1, <1>2

\* The recursion has a solution: Parse is what it says.
LEMMA ParseExists ==
  ASSUME TypeOK, NEW end \in 0 .. WireLen
  PROVE  IsParse(ParseFrom(end), end)
<1> DEFINE SolvesFrom(f, m) ==
             /\ f = [p \in 0 .. end |-> f[p]]
             /\ \A p \in 0 .. end : p >= end - m => f[p] = ParseStep(f, p, end)
           Solved == {m \in Nat : m <= end => \E f : SolvesFrom(f, m)}
<1>1. 0 \in Solved
  <2> DEFINE f == [p \in 0 .. end |-> <<>>]
  <2>1. ASSUME NEW p \in 0 .. end, p >= end - 0
        PROVE  f[p] = ParseStep(f, p, end)
    <3>1. end - p < FrameSizeMin
      BY <2>1 DEF FrameSizeMin
    <3>2. f[p] = <<>>
      OBVIOUS
    <3> HIDE DEF f
    <3> QED BY <3>1, <3>2 DEF ParseStep
  <2>2. f = [p \in 0 .. end |-> f[p]]
    OBVIOUS
  <2> HIDE DEF f
  <2>3. SolvesFrom(f, 0)
    BY <2>1, <2>2
  <2> QED BY <2>3
<1>2. ASSUME NEW m \in Solved PROVE m + 1 \in Solved
  <2> SUFFICES ASSUME m + 1 <= end PROVE \E g : SolvesFrom(g, m + 1)
    <3> HIDE DEF SolvesFrom
    <3>1. m + 1 \in Nat
      OBVIOUS
    <3> QED BY <3>1
  <2>1. PICK f : SolvesFrom(f, m)
    OBVIOUS
  <2> DEFINE new == end - (m + 1)
             value == ParseStep(f, new, end)
             g == [p \in 0 .. end |-> IF p = new THEN value ELSE f[p]]
  <2>2. new \in 0 .. end /\ m \in Nat /\ end \in Nat
    OBVIOUS
  <2> HIDE DEF value
  <2>3. g = [p \in 0 .. end |-> g[p]] /\ g[new] = value
        /\ \A p \in 0 .. end : p # new => g[p] = f[p]
    BY <2>2
  <2> HIDE DEF g
  <2>4. ASSUME NEW p \in 0 .. end, p >= end - (m + 1)
        PROVE  g[p] = ParseStep(g, p, end)
    <3>1. \A q \in 0 .. end : q > p => f[q] = g[q]
      BY <2>2, <2>3, <2>4
    <3>2. ParseStep(f, p, end) = ParseStep(g, p, end)
      BY <3>1, StepAgrees
    <3>3. CASE p = new
      BY <3>2, <3>3, <2>3 DEF value
    <3>4. CASE p # new
      <4>1. p >= end - m
        BY <3>4, <2>2, <2>4
      <4> QED BY <4>1, <3>2, <3>4, <2>1, <2>3
    <3> QED BY <3>3, <3>4
  <2>5. SolvesFrom(g, m + 1)
    BY <2>3, <2>4
  <2> HIDE DEF SolvesFrom
  <2> QED BY <2>5
<1>3. end \in Solved
  <2> HIDE DEF Solved
  <2>1. Solved \subseteq Nat
    BY DEF Solved
  <2>2. Solved = Nat
    BY <1>1, <1>2, <2>1, SetInduction
  <2> QED BY <2>2
<1>4. PICK f : SolvesFrom(f, end)
  BY <1>3
<1>5. \A p \in 0 .. end : f[p] = ParseStep(f, p, end)
  BY <1>4
<1>6. f = [p \in 0 .. end |-> ParseStep(f, p, end)]
  <2> DEFINE h == [p \in 0 .. end |-> ParseStep(f, p, end)]
  <2>1. \A p \in 0 .. end : f[p] = h[p]
    BY <1>5
  <2>2. /\ f = [p \in 0 .. end |-> f[p]]
        /\ h = [p \in 0 .. end |-> h[p]]
    BY <1>4
  <2> HIDE DEF h
  <2>3. f = h
    BY <2>1, <2>2
  <2> QED BY <2>3 DEF h
<1>7. IsParse(f, end)
  BY <1>6 DEF IsParse
<1>8. \E h : IsParse(h, end)
  BY <1>7
<1> QED BY <1>8 DEF ParseFrom

\* What Parse finds from p on, for every p, is a sequence of offsets that
\* obeys the recursion.
LEMMA ParseUnfolds ==
  ASSUME TypeOK, NEW end \in 0 .. WireLen
  PROVE  \A p \in 0 .. end :
           /\ ParseFrom(end)[p] = ParseStep(ParseFrom(end), p, end)
           /\ ParseFrom(end)[p] \in Seq(Nat)
<1> DEFINE f == ParseFrom(end)
           Typed == {m \in Nat : \A p \in 0 .. end : p >= end - m => f[p] \in Seq(Nat)}
<1>1. \A p \in 0 .. end : f[p] = ParseStep(f, p, end)
  <2>1. f = [p \in 0 .. end |-> ParseStep(f, p, end)]
    BY ParseExists DEF IsParse
  <2> HIDE DEF f
  <2> QED BY <2>1
<1> HIDE DEF f
<1>2. 0 \in Typed
  <2> SUFFICES ASSUME NEW p \in 0 .. end, p >= end - 0 PROVE f[p] \in Seq(Nat)
    OBVIOUS
  <2>1. end - p < FrameSizeMin /\ <<>> \in Seq(Nat)
    BY DEF FrameSizeMin
  <2> QED BY <1>1, <2>1 DEF ParseStep
<1>3. ASSUME NEW m \in Typed PROVE m + 1 \in Typed
  <2> SUFFICES ASSUME NEW p \in 0 .. end, p >= end - (m + 1) PROVE f[p] \in Seq(Nat)
    OBVIOUS
  <2>1. \A q \in 0 .. end : q > p => f[q] \in Seq(Nat)
    <3> SUFFICES ASSUME NEW q \in 0 .. end, q > p PROVE f[q] \in Seq(Nat)
      OBVIOUS
    <3>1. q >= end - m
      OBVIOUS
    <3> QED BY <3>1
  <2> QED BY <1>1, <2>1, StepOffsets
<1>4. end \in Typed
  <2> HIDE DEF Typed
  <2>1. Typed \subseteq Nat
    BY DEF Typed
  <2>2. Typed = Nat
    BY <1>2, <1>3, <2>1, SetInduction
  <2> QED BY <2>2
<1> QED BY <1>1, <1>4 DEF f
-----------------------------------------------------------------------------
\* Where the frames delivered so far began.
DeliveredAt == [i \in DOMAIN delivered |-> delivered[i].at]

\* However much more will be fed, those and what is still to be found in it
\* are all there is to be found.
ParseInv ==
  \A end \in copied .. WireLen : DeliveredAt \o ParseFrom(end)[Position] = Parse(end)

LEMMA DeliveredAtType ==
  ASSUME TypeOK
  PROVE  DeliveredAt \in Seq(Nat)
<1>1. DOMAIN delivered = 1 .. Len(delivered) /\ Len(delivered) \in Nat
  BY LenProperties DEF TypeOK
<1>2. \A i \in 1 .. Len(delivered) : delivered[i].at \in Nat
  <2> TAKE i \in 1 .. Len(delivered)
  <2>1. delivered[i] \in [at : Nat, payload : Payloads]
    BY <1>1, ElementOfSeq DEF TypeOK
  <2> QED BY <2>1
<1> QED BY <1>1, <1>2, SeqDef DEF DeliveredAt

LEMMA DeliveredAtGrows ==
  ASSUME TypeOK, NEW d \in [at : Nat, payload : Payloads],
         delivered' = Append(delivered, d)
  PROVE  DeliveredAt' = DeliveredAt \o <<d.at>>
<1> DEFINE n == Len(delivered)
<1>1. /\ DOMAIN delivered = 1 .. n /\ n \in Nat
      /\ DOMAIN delivered' = 1 .. n + 1
      /\ \A i \in 1 .. n : delivered'[i] = delivered[i]
      /\ delivered'[n + 1] = d
  BY LenProperties, AppendProperties DEF TypeOK
<1> HIDE DEF n
<1>2. DeliveredAt \in Seq(Nat)
  BY DeliveredAtType
<1>3. /\ DOMAIN DeliveredAt = 1 .. n
      /\ \A i \in 1 .. n : DeliveredAt[i] = delivered[i].at
  BY <1>1 DEF DeliveredAt
<1>4. DeliveredAt' = [i \in 1 .. n + 1 |-> delivered'[i].at]
  BY <1>1 DEF DeliveredAt
<1>5. Len(DeliveredAt) = n
  BY <1>1, <1>2, <1>3, LenProperties
<1>6. /\ Append(DeliveredAt, d.at) \in Seq(Nat)
      /\ Len(Append(DeliveredAt, d.at)) = n + 1
      /\ \A i \in 1 .. n : Append(DeliveredAt, d.at)[i] = DeliveredAt[i]
      /\ Append(DeliveredAt, d.at)[n + 1] = d.at
  BY <1>2, <1>5, AppendProperties
<1>7. \A i \in 1 .. n + 1 : /\ DeliveredAt'[i] = Append(DeliveredAt, d.at)[i]
                            /\ DeliveredAt'[i] \in Nat
  <2> TAKE i \in 1 .. n + 1
  <2>0. DeliveredAt'[i] = delivered'[i].at
    BY <1>4
  <2>1. CASE i \in 1 .. n
    <3>1. DeliveredAt[i] \in Nat
      BY <2>1, <1>2, <1>5, ElementOfSeq
    <3> QED BY <2>0, <2>1, <3>1, <1>1, <1>3, <1>6
  <2>2. CASE i = n + 1
    <3>1. delivered'[i] = d /\ Append(DeliveredAt, d.at)[i] = d.at /\ d.at \in Nat
      BY <2>2, <1>1, <1>6
    <3> QED BY <2>0, <3>1
  <2>3. i \in 1 .. n \/ i = n + 1
    <3>1. n \in Nat
      BY <1>1
    <3> QED BY <3>1
  <2> QED BY <2>1, <2>2, <2>3
<1>8. DeliveredAt' \in Seq(Nat) /\ Len(DeliveredAt') = n + 1
  <2>1. DeliveredAt' \in [1 .. n + 1 -> Nat]
    BY <1>4, <1>7
  <2> QED BY <1>1, <2>1, SeqDef, LenProperties
<1>9. DeliveredAt' = Append(DeliveredAt, d.at)
  BY <1>6, <1>7, <1>8, SeqEqual
<1> QED BY <1>2, <1>9, AppendIsConcat

LEMMA OneBetween ==
  ASSUME NEW s \in Seq(Nat), NEW n \in Nat, NEW t \in Seq(Nat)
  PROVE  (s \o <<n>>) \o t = s \o (<<n>> \o t)
<1>1. <<n>> \in Seq(Nat)
  OBVIOUS
<1> QED BY <1>1, ConcatAssociative

LEMMA ParseInit == Init => ParseInv
<1> SUFFICES ASSUME Init, NEW end \in copied .. WireLen
             PROVE  DeliveredAt \o ParseFrom(end)[Position] = Parse(end)
  BY DEF ParseInv
<1>1. TypeOK /\ end \in 0 .. WireLen
  BY BufferInit DEF BufferInv, TypeOK
<1>2. Position = 0 /\ DeliveredAt = <<>>
  BY DEF Init, Position, Size, DeliveredAt
<1>3. ParseFrom(end)[0] \in Seq(Nat)
  BY <1>1, ParseUnfolds
<1> QED BY <1>2, <1>3, ParseIsFromStart, EmptySeq

\* Nothing but the wire counts.
LEMMA ParseOfSameWire ==
  ASSUME wire' = wire, NEW end
  PROVE  ParseFrom(end)' = ParseFrom(end) /\ Parse(end)' = Parse(end)
BY DEF ParseFrom, IsParse, ParseStep, Parse

LEMMA ParseQuiet ==
  ASSUME BufferInv, ParseInv, copied' \in Nat, copied' >= copied,
         wire' = wire, Position' = Position, delivered' = delivered
  PROVE  ParseInv'
<1> SUFFICES ASSUME NEW end \in copied' .. WireLen
             PROVE  DeliveredAt' \o ParseFrom(end)'[Position'] = Parse(end)'
  BY DEF ParseInv
<1>1. end \in copied .. WireLen
  BY DEF BufferInv, TypeOK
<1>2. DeliveredAt' = DeliveredAt
  BY DEF DeliveredAt
<1> QED BY <1>1, <1>2, ParseOfSameWire DEF ParseInv

\* A byte is skipped where Parse skips one, however much is to follow.
LEMMA ParseSkips ==
  ASSUME BufferInv, SkipByte, NEW end \in copied .. WireLen
  PROVE  /\ ParseFrom(end)[Position] = ParseFrom(end)[Position + 1]
         /\ Position' = Position + 1 /\ UNCHANGED <<copied, wire, delivered>>
<1>1. /\ Size >= FrameSizeMin /\ Size \in Nat /\ copied \in Nat
      /\ BadHeader \/ (FrameComplete /\ ~ChecksumGood)
      /\ UNCHANGED <<copied, wire, delivered>>
  BY LiveBytes DEF SkipByte, inputVars, BufferInv, TypeOK
<1>2. Position' = Position + 1
  BY LiveBytes DEF SkipByte, Position, Size, inputVars, BufferInv, TypeOK
<1>3. /\ Position \in 0 .. end /\ end \in 0 .. WireLen /\ ~(end - Position < FrameSizeMin)
      /\ Position + Size <= end
  BY <1>1, LiveBytes DEF BufferInv, FrameSizeMin
<1>4. ParseFrom(end)[Position] = ParseStep(ParseFrom(end), Position, end)
  BY <1>3, ParseUnfolds DEF BufferInv
<1>5. ASSUME BadHeader
      PROVE  ParseFrom(end)[Position] = ParseFrom(end)[Position + 1]
  <2>1. wire[Position] # FrameSOF \/ PayloadSize(wire, Position) > FramePayloadSizeMax
    BY <1>1, <1>5, LiveHeader DEF BadHeader, BufferInv
  <2> QED BY <1>3, <1>4, <2>1 DEF ParseStep
<1>6. ASSUME FrameComplete, ~ChecksumGood
      PROVE  ParseFrom(end)[Position] = ParseFrom(end)[Position + 1]
  <2>1. /\ ~(Position + FrameSize(wire, Position) > end)
        /\ ~ChecksumVerify(Slice(wire, Position, FrameSize(wire, Position)),
                           FrameSize(wire, Position))
    BY <1>1, <1>3, <1>6, LiveChecksum, LiveHeader DEF BufferInv
  <2> QED BY <1>3, <1>4, <2>1 DEF ParseStep
<1> QED BY <1>1, <1>2, <1>5, <1>6

\* A frame is delivered where Parse finds one.
LEMMA ParseFinds ==
  ASSUME BufferInv, ExtractFrame, NEW end \in copied .. WireLen
  PROVE  /\ ParseFrom(end)[Position]
              = <<Position>> \o ParseFrom(end)[Position + FrameSize(wire, Position)]
         /\ Position + FrameSize(wire, Position) \in 0 .. end
<1>1. /\ Size >= FrameSizeMin /\ Size \in Nat /\ copied \in Nat
      /\ ~BadHeader /\ FrameComplete /\ ChecksumGood
  BY LiveBytes DEF ExtractFrame, BufferInv, TypeOK
<1>2. /\ Position \in 0 .. end /\ end \in 0 .. WireLen /\ ~(end - Position < FrameSizeMin)
      /\ Position + Size <= end
  BY <1>1, LiveBytes DEF BufferInv, FrameSizeMin
<1>3. ParseFrom(end)[Position] = ParseStep(ParseFrom(end), Position, end)
  BY <1>2, ParseUnfolds DEF BufferInv
<1>4. /\ FrameSize(wire, Position) \in Nat
      /\ ~(Position + FrameSize(wire, Position) > end)
      /\ ChecksumVerify(Slice(wire, Position, FrameSize(wire, Position)),
                        FrameSize(wire, Position))
  BY <1>1, <1>2, LiveChecksum, LiveHeader DEF BufferInv
<1>5. ~(wire[Position] # FrameSOF \/ PayloadSize(wire, Position) > FramePayloadSizeMax)
  BY <1>1, LiveHeader DEF BadHeader, BufferInv
<1>6. Position + FrameSize(wire, Position) \in 0 .. end
  BY <1>2, <1>4
<1> QED BY <1>2, <1>3, <1>4, <1>5, <1>6 DEF ParseStep

LEMMA ParseNext == BufferInv /\ ParseInv /\ [Next]_vars => ParseInv'
<1> SUFFICES ASSUME BufferInv, ParseInv, [Next]_vars PROVE ParseInv'
  OBVIOUS
<1>1. CASE Feed \/ AppendChunk \/ Compact \/ UNCHANGED vars
  <2>1. copied' \in Nat /\ copied' >= copied
    <3>1. CASE AppendChunk
      <4> DEFINE n == Min2(FrameSizeMax - index_end, fed - copied)
      <4>1. AppendBase = index_end /\ n \in 1 .. FrameSizeMax - index_end
        BY <3>1, AppendRoom DEF AppendChunk
      <4>2. copied' = copied + n
        BY <3>1, <4>1 DEF AppendChunk
      <4> HIDE DEF n
      <4> QED BY <4>1, <4>2 DEF BufferInv, TypeOK
    <3>2. CASE Feed \/ Compact \/ UNCHANGED vars
      BY <3>2 DEF Feed, Compact, vars, inputVars, BufferInv, TypeOK
    <3> QED BY <1>1, <3>1, <3>2
  <2> QED BY <1>1, <2>1, PositionFixed, ParseQuiet
<1>2. CASE SkipByte
  <2> SUFFICES ASSUME NEW end \in copied' .. WireLen
               PROVE  DeliveredAt' \o ParseFrom(end)'[Position'] = Parse(end)'
    BY DEF ParseInv
  <2>1. end \in copied .. WireLen
    BY <1>2 DEF SkipByte, inputVars
  <2>2. DeliveredAt' = DeliveredAt /\ wire' = wire /\ Position' = Position + 1
    BY <1>2, <2>1, ParseSkips DEF DeliveredAt
  <2>3. ParseFrom(end)[Position] = ParseFrom(end)[Position + 1]
    BY <1>2, <2>1, ParseSkips
  <2> QED BY <2>1, <2>2, <2>3, ParseOfSameWire DEF ParseInv
<1>3. CASE ExtractFrame
  <2> DEFINE next == Position + FrameSize(wire, Position)
  <2> SUFFICES ASSUME NEW end \in copied' .. WireLen
               PROVE  DeliveredAt' \o ParseFrom(end)'[Position'] = Parse(end)'
    BY DEF ParseInv
  <2>1. end \in copied .. WireLen /\ TypeOK /\ end \in 0 .. WireLen
    BY <1>3 DEF ExtractFrame, inputVars, BufferInv, TypeOK
  <2>2. PICK d \in [at : Nat, payload : Payloads] :
          /\ d.at = Position /\ Position \in Nat /\ Position' = next
          /\ wire' = wire /\ delivered' = Append(delivered, d)
    <3>1. /\ Size >= FrameSizeMin /\ ~BadHeader /\ FrameComplete
      BY <1>3 DEF ExtractFrame
    <3> QED BY <1>3, <3>1, ExtractValid, PayloadSlice
  <2>3. /\ ParseFrom(end)[Position] = <<Position>> \o ParseFrom(end)[next]
        /\ next \in 0 .. end
    BY <1>3, <2>1, ParseFinds
  <2> HIDE DEF next
  <2>4. DeliveredAt \in Seq(Nat) /\ ParseFrom(end)[next] \in Seq(Nat)
    BY <2>1, <2>3, DeliveredAtType, ParseUnfolds
  <2>5. DeliveredAt' = DeliveredAt \o <<Position>>
    BY <2>1, <2>2, DeliveredAtGrows
  <2>6. (DeliveredAt \o <<Position>>) \o ParseFrom(end)[next]
          = DeliveredAt \o (<<Position>> \o ParseFrom(end)[next])
    BY <2>2, <2>4, OneBetween
  <2> QED BY <2>1, <2>2, <2>3, <2>5, <2>6, ParseOfSameWire DEF ParseInv
<1> QED BY <1>1, <1>2, <1>3 DEF Next, FeedStep

(***************************************************************************)
(* At any moment, frames delivered and frames still to be found from the   *)
(* scan's offset on make up the parse of the whole wire, however much more *)
(* of it will be fed.                                                      *)
(***************************************************************************)
THEOREM ParseInvariant == Spec => []ParseInv
BY ParseInit, ParseNext, BufferInvariant, PTL DEF Spec

(***************************************************************************)
(* ubeacon_frame.h:31: however the bytes are split over the calls of       *)
(* ub_frame_buffer_feed, and over the space its buffer has left, when it   *)
(* returns it has delivered the frames of one parse of them all.           *)
(***************************************************************************)
THEOREM ChunksDoNotMatter == Spec => []ChunkingIrrelevant
<1>1. BufferInv /\ Drained /\ ParseInv => ChunkingIrrelevant
  <2> SUFFICES ASSUME BufferInv, Drained, ParseInv, pc = "idle"
               PROVE  DeliveredAt = Parse(fed)
    BY DEF ChunkingIrrelevant, DeliveredAt
  <2>1. /\ TypeOK /\ copied = fed /\ fed \in 0 .. WireLen /\ fed \in copied .. WireLen
        /\ Position \in 0 .. fed /\ Position + Size = fed /\ Size \in Nat
    BY LiveBytes DEF BufferInv, TypeOK, CallComplete
  <2>2. ParseFrom(fed)[Position] = ParseStep(ParseFrom(fed), Position, fed)
    BY <2>1, ParseUnfolds
  <2>3. CASE Size < FrameSizeMin
    <3>1. fed - Position < FrameSizeMin
      BY <2>1, <2>3 DEF FrameSizeMin
    <3>2. ParseFrom(fed)[Position] = <<>>
      BY <2>2, <3>1 DEF ParseStep
    <3> QED BY <2>1, <3>2, DeliveredAtType, ConcatEmptySeq DEF ParseInv
  <2>4. CASE PendingCandidate
    <3>1. /\ Position + FrameSize(wire, Position) > fed /\ Size >= 4
          /\ wire[Position] = FrameSOF
          /\ PayloadSize(wire, Position) <= FramePayloadSizeMax
      BY <2>4 DEF PendingCandidate, FrameSizeMin
    <3>2. PayloadSize(wire, Position) \in Nat /\ FramePayloadSizeMax \in Nat
      BY <3>1, LiveHeader DEF BufferInv, FrameSizeMin, FramePayloadSizeMax
    <3>3. ~(fed - Position < FrameSizeMin)
      BY <2>1, <3>1 DEF FrameSizeMin
    <3>4. ~(PayloadSize(wire, Position) > FramePayloadSizeMax)
      BY <3>1, <3>2
    <3>5. ParseFrom(fed)[Position] = <<>>
      BY <2>2, <3>1, <3>3, <3>4 DEF ParseStep
    <3> QED BY <2>1, <3>5, DeliveredAtType, ConcatEmptySeq DEF ParseInv
  <2> QED BY <2>3, <2>4 DEF Drained
<1> QED BY <1>1, BufferInvariant, DrainedInvariant, ParseInvariant, PTL
-----------------------------------------------------------------------------
(* The link, from the messages sent to the messages received: first,      *)
(* sequences joined end to end.                                           *)

USE MsgAssumption, LinkAssumption

\* The joined sequences up to each.
JoinedUpTo(s, upto) ==
  /\ upto[0] = <<>>
  /\ \A m \in 1 .. Len(s) : upto[m] = upto[m - 1] \o s[m]
  /\ Flatten(s) = upto[Len(s)]

LEMMA FlattenUnfolds ==
  ASSUME NEW V, NEW s \in Seq(Seq(V))
  PROVE  \E upto : /\ \A m \in 0 .. Len(s) : upto[m] \in Seq(V)
                   /\ JoinedUpTo(s, upto)
<1> DEFINE n == Len(s)
           S == Seq(V)
           next == [c \in S \X (0 + 1 .. n) |-> c[1] \o s[c[2]]]
           Step(f, m) == IF m = 0 THEN <<>> ELSE f[m - 1] \o s[m]
           Is(f) == f = [m \in 0 .. n |-> Step(f, m)]
           upto == CHOOSE f : Is(f)
<1>1. n \in Nat /\ \A m \in 1 .. n : s[m] \in S
  OBVIOUS
<1>2. Flatten(s) = upto[n]
  BY DEF Flatten
<1>3. <<>> \in S
  OBVIOUS
<1>4. ASSUME NEW x \in S, NEW m \in 1 .. n PROVE x \o s[m] \in S
  BY <1>1, <1>4
<1> HIDE DEF n
<1>5. next \in [S \X (0 + 1 .. n) -> S]
  <2>1. ASSUME NEW c \in S \X (0 + 1 .. n) PROVE c[1] \o s[c[2]] \in S
    <3>1. c[1] \in S /\ c[2] \in 1 .. n
      OBVIOUS
    <3> HIDE DEF S
    <3> QED BY <1>4, <3>1
  <2> HIDE DEF S
  <2> QED BY <2>1
<1> HIDE DEF S
<1>6. PICK f \in [0 .. n -> S] : Follows(f, 0, n, <<>>, next)
  <2> DEFINE a == 0
             none == <<>>
  <2>1. a \in Int /\ n \in Int /\ a <= n /\ none \in S
    BY <1>1, <1>3
  <2>2. next \in [S \X (a + 1 .. n) -> S]
    BY <1>5
  <2> HIDE DEF next, a, none
  <2>3. \E f \in [a .. n -> S] : Follows(f, a, n, none, next)
    BY <2>1, <2>2, FiniteRecursion
  <2> QED BY <2>3 DEF a, none
<1>7. Is(f)
  <2>1. ASSUME NEW m \in 0 .. n PROVE f[m] = Step(f, m)
    <3>1. f[m] = IF m = 0 THEN <<>> ELSE next[<<f[m - 1], m>>]
      BY <1>6 DEF Follows
    <3>2. CASE m = 0
      BY <3>1, <3>2
    <3>3. CASE m # 0
      <4>1. m \in 0 + 1 .. n /\ f[m - 1] \in S
        BY <1>1, <1>6, <3>3
      <4>2. next[<<f[m - 1], m>>] = f[m - 1] \o s[m]
        BY <4>1
      <4> QED BY <3>1, <3>3, <4>2
    <3> QED BY <3>2, <3>3
  <2> QED BY <1>6, <2>1
<1>8. Is(upto)
  <2> HIDE DEF Is
  <2> QED BY <1>7
<1> HIDE DEF upto, next
<1>9. \A m \in 0 .. n : upto[m] = Step(upto, m)
  BY <1>8
<1>10. upto[0] = <<>> /\ \A m \in 1 .. n : upto[m] = upto[m - 1] \o s[m]
  <2>1. 0 \in 0 .. n /\ \A m \in 1 .. n : m \in 0 .. n /\ m # 0
    BY <1>1
  <2> QED BY <1>9, <2>1
<1> DEFINE Q == {m \in Nat : m <= n => upto[m] \in S}
<1>11. 0 \in Q
  BY <1>3, <1>10
<1>12. ASSUME NEW m \in Q PROVE m + 1 \in Q
  <2> SUFFICES ASSUME m + 1 <= n PROVE upto[m + 1] \in S
    OBVIOUS
  <2> DEFINE j == m + 1
  <2>1. j \in 1 .. n /\ j - 1 = m /\ upto[m] \in S
    BY <1>1
  <2> HIDE DEF j, Q
  <2>2. upto[j] = upto[j - 1] \o s[j]
    BY <1>10, <2>1
  <2>3. upto[m] \o s[j] \in S
    BY <1>4, <2>1
  <2> QED BY <2>1, <2>2, <2>3 DEF j
<1>13. Q = Nat
  <2>1. Q \subseteq Nat
    OBVIOUS
  <2> HIDE DEF Q
  <2> QED BY <1>11, <1>12, <2>1, SetInduction
<1>14. \A m \in 0 .. n : upto[m] \in S
  <2>1. \A m \in 0 .. n : m \in Nat
    BY <1>1
  <2> QED BY <1>13, <2>1
<1> QED BY <1>2, <1>10, <1>14 DEF JoinedUpTo, n, S

\* One sequence more.
LEMMA FlattenGrows ==
  ASSUME NEW V, NEW s \in Seq(Seq(V)), NEW t \in Seq(Seq(V)),
         Len(t) = Len(s) + 1, \A i \in 1 .. Len(s) : t[i] = s[i]
  PROVE  /\ Flatten(s) \in Seq(V) /\ Flatten(t) \in Seq(V)
         /\ Flatten(t) = Flatten(s) \o t[Len(t)]
<1> DEFINE n == Len(s)
<1>1. n \in Nat /\ Len(t) = n + 1 /\ \A i \in 1 .. n : t[i] = s[i]
  BY LenProperties
<1>2. PICK us : /\ \A m \in 0 .. n : us[m] \in Seq(V)
                /\ us[0] = <<>> /\ Flatten(s) = us[n]
                /\ \A m \in 1 .. n : us[m] = us[m - 1] \o s[m]
  <2>1. PICK us : (\A m \in 0 .. n : us[m] \in Seq(V)) /\ JoinedUpTo(s, us)
    BY FlattenUnfolds
  <2> QED BY <2>1 DEF JoinedUpTo
<1>3. PICK ut : /\ \A m \in 0 .. Len(t) : ut[m] \in Seq(V)
                /\ ut[0] = <<>> /\ Flatten(t) = ut[Len(t)]
                /\ \A m \in 1 .. Len(t) : ut[m] = ut[m - 1] \o t[m]
  <2>1. PICK ut : (\A m \in 0 .. Len(t) : ut[m] \in Seq(V)) /\ JoinedUpTo(t, ut)
    BY FlattenUnfolds
  <2> QED BY <2>1 DEF JoinedUpTo
<1> HIDE DEF n
<1> DEFINE Q == {m \in Nat : m <= n => ut[m] = us[m]}
<1>4. 0 \in Q
  BY <1>2, <1>3
<1>5. ASSUME NEW m \in Q PROVE m + 1 \in Q
  <2> SUFFICES ASSUME m + 1 <= n PROVE ut[m + 1] = us[m + 1]
    OBVIOUS
  <2> DEFINE j == m + 1
  <2>1. j \in 1 .. n /\ j \in 1 .. Len(t) /\ j - 1 = m /\ ut[m] = us[m]
    BY <1>1
  <2> HIDE DEF j, Q
  <2>2. us[j] = us[j - 1] \o s[j] /\ ut[j] = ut[j - 1] \o t[j] /\ t[j] = s[j]
    BY <1>1, <1>2, <1>3, <2>1
  <2> QED BY <2>1, <2>2 DEF j
<1>6. Q = Nat
  <2>1. Q \subseteq Nat
    OBVIOUS
  <2> HIDE DEF Q
  <2> QED BY <1>4, <1>5, <2>1, SetInduction
<1>7. ut[n] = us[n]
  <2>1. n \in Q
    <3> HIDE DEF Q
    <3> QED BY <1>1, <1>6
  <2> QED BY <1>1, <2>1
<1> HIDE DEF Q
<1>8. Len(t) \in 1 .. Len(t) /\ Len(t) \in 0 .. Len(t) /\ n \in 0 .. n /\ Len(t) - 1 = n
  BY <1>1
<1>9. ut[Len(t)] = ut[n] \o t[Len(t)]
  BY <1>3, <1>8
<1> QED BY <1>2, <1>3, <1>7, <1>8, <1>9

LEMMA FlattenNone ==
  ASSUME NEW V, NEW s \in Seq(Seq(V)), Len(s) = 0
  PROVE  Flatten(s) = <<>>
<1>1. PICK upto : JoinedUpTo(s, upto)
  BY FlattenUnfolds
<1> QED BY <1>1 DEF JoinedUpTo

Prefix(s, m) == [i \in 1 .. m |-> s[i]]

LEMMA PrefixFacts ==
  ASSUME NEW S, NEW s \in Seq(S), NEW m \in 0 .. Len(s)
  PROVE  /\ Prefix(s, m) \in Seq(S) /\ Len(Prefix(s, m)) = m
         /\ \A i \in 1 .. m : Prefix(s, m)[i] = s[i]
         /\ m = Len(s) => Prefix(s, m) = s
<1>1. Len(s) \in Nat /\ \A i \in 1 .. Len(s) : s[i] \in S
  BY LenProperties, ElementOfSeq
<1>2. m \in Nat /\ m <= Len(s)
  BY <1>1
<1>3. Prefix(s, m) \in [1 .. m -> S]
  BY <1>1, <1>2 DEF Prefix
<1>4. Prefix(s, m) \in Seq(S) /\ Len(Prefix(s, m)) = m
  BY <1>2, <1>3, SeqDef, LenProperties
<1>5. m = Len(s) => Prefix(s, m) = s
  <2>1. s = [i \in 1 .. Len(s) |-> s[i]]
    BY LenProperties
  <2> QED BY <2>1 DEF Prefix
<1> QED BY <1>4, <1>5 DEF Prefix

\* The sequences joined up to the m-th.
Joined(s, m) == Flatten(Prefix(s, m))

LEMMA JoinedStep ==
  ASSUME NEW V, NEW s \in Seq(Seq(V))
  PROVE  /\ Joined(s, 0) = <<>> /\ Joined(s, Len(s)) = Flatten(s)
         /\ \A m \in 0 .. Len(s) : Joined(s, m) \in Seq(V)
         /\ \A m \in 1 .. Len(s) : Joined(s, m) = Joined(s, m - 1) \o s[m]
<1> DEFINE S == Seq(V)
           n == Len(s)
<1>1. n \in Nat
  BY LenProperties
<1>2. \A m \in 0 .. n : /\ Prefix(s, m) \in Seq(S) /\ Len(Prefix(s, m)) = m
                        /\ \A i \in 1 .. m : Prefix(s, m)[i] = s[i]
                        /\ m = n => Prefix(s, m) = s
  BY PrefixFacts
<1> HIDE DEF n
<1>3. 0 \in 0 .. n /\ n \in 0 .. n
  BY <1>1
<1>4. Joined(s, 0) = <<>> /\ Joined(s, n) = Flatten(s)
  BY <1>2, <1>3, FlattenNone DEF Joined
<1>5. ASSUME NEW m \in 1 .. n
      PROVE  /\ Joined(s, m) \in S /\ Joined(s, m - 1) \in S
             /\ Joined(s, m) = Joined(s, m - 1) \o s[m]
  <2> DEFINE a == Prefix(s, m - 1)
             b == Prefix(s, m)
             k == m - 1
  <2>1. m \in 0 .. n /\ k \in 0 .. n /\ k + 1 = m /\ m \in 1 .. m
    BY <1>1
  <2>2. a \in Seq(S) /\ Len(a) = k /\ \A i \in 1 .. k : a[i] = s[i]
    BY <1>2, <2>1
  <2>3. b \in Seq(S) /\ Len(b) = m /\ \A i \in 1 .. m : b[i] = s[i]
    BY <1>2, <2>1
  <2> HIDE DEF a, b
  <2>4. \A i \in 1 .. Len(a) : b[i] = a[i]
    <3>1. \A i \in 1 .. k : i \in 1 .. m
      BY <1>1
    <3> QED BY <2>2, <2>3, <3>1
  <2>5. Len(b) = Len(a) + 1
    BY <2>1, <2>2, <2>3
  <2> HIDE DEF k
  <2>6. Flatten(a) \in S /\ Flatten(b) \in S /\ Flatten(b) = Flatten(a) \o b[Len(b)]
    BY <2>2, <2>3, <2>4, <2>5, FlattenGrows
  <2>7. b[Len(b)] = s[m]
    BY <2>1, <2>3
  <2> QED BY <2>6, <2>7 DEF Joined, a, b
<1>6. \A m \in 0 .. n : Joined(s, m) \in S
  <2> TAKE m \in 0 .. n
  <2>1. CASE m = 0
    <3>1. <<>> \in S
      OBVIOUS
    <3> QED BY <1>4, <2>1, <3>1
  <2>2. CASE m # 0
    <3>1. m \in 1 .. n
      BY <1>1, <2>2
    <3> QED BY <1>5, <3>1
  <2> QED BY <2>1, <2>2
<1> QED BY <1>4, <1>5, <1>6 DEF n

\* Where each sequence lies in the joined one.
LEMMA JoinedParts ==
  ASSUME NEW V, NEW s \in Seq(Seq(V))
  PROVE  /\ Len(Joined(s, 0)) = 0
         /\ \A m \in 0 .. Len(s) : /\ Len(Joined(s, m)) \in Nat
                                   /\ Len(Joined(s, m)) <= Len(Flatten(s))
         /\ \A m \in 1 .. Len(s) :
              /\ Len(Joined(s, m)) = Len(Joined(s, m - 1)) + Len(s[m])
              /\ \A i \in 1 .. Len(s[m]) :
                   Flatten(s)[Len(Joined(s, m - 1)) + i] = s[m][i]
<1> HIDE FormatAssumption, WireLenAssumption, MsgAssumption, LinkAssumption
<1> DEFINE n == Len(s)
           J(m) == Joined(s, m)
           at == [m \in 0 .. n |-> Len(J(m))]
<1>1. n \in Nat /\ \A m \in 1 .. n : s[m] \in Seq(V)
  BY LenProperties, ElementOfSeq
<1>2. /\ J(0) = <<>> /\ J(n) = Flatten(s)
      /\ \A m \in 0 .. n : J(m) \in Seq(V)
      /\ \A m \in 1 .. n : J(m) = J(m - 1) \o s[m]
  BY JoinedStep
<1> HIDE DEF n, J
<1>3. \A m \in 0 .. n : at[m] = Len(J(m)) /\ at[m] \in Nat
  BY <1>2, LenProperties
<1>4. ASSUME NEW m \in 1 .. n
      PROVE  /\ at[m] = at[m - 1] + Len(s[m]) /\ Len(s[m]) \in Nat
             /\ \A i \in 1 .. at[m - 1] : J(m)[i] = J(m - 1)[i]
             /\ \A i \in 1 .. Len(s[m]) : J(m)[at[m - 1] + i] = s[m][i]
  <2> DEFINE x == J(m - 1)
             y == s[m]
             c == Len(s[m])
             a == at[m - 1]
  <2>1. m - 1 \in 0 .. n /\ m \in 0 .. n
    BY <1>1
  <2>2. x \in Seq(V) /\ y \in Seq(V) /\ Len(y) = c /\ c \in Nat
    BY <1>1, <1>2, <2>1, LenProperties
  <2>3. J(m) = x \o y /\ a = Len(x) /\ at[m] = Len(J(m)) /\ a \in Nat
    BY <1>2, <1>3, <2>1
  <2> HIDE DEF x, y, c, a, at
  <2>4. /\ Len(x \o y) = a + c
        /\ \A i \in 1 .. a + c : (x \o y)[i] = IF i <= a THEN x[i] ELSE y[i - a]
    <3>1. /\ Len(x \o y) = Len(x) + Len(y)
          /\ \A i \in 1 .. Len(x) + Len(y) :
               (x \o y)[i] = IF i <= Len(x) THEN x[i] ELSE y[i - Len(x)]
      BY <2>2, ConcatProperties
    <3> QED BY <2>2, <2>3, <3>1
  <2>5. \A i \in 1 .. a : (x \o y)[i] = x[i]
    BY <2>2, <2>3, <2>4
  <2>6. ASSUME NEW i \in 1 .. c PROVE (x \o y)[a + i] = y[i]
    <3> DEFINE j == a + i
    <3>1. j \in 1 .. a + c /\ ~(j <= a) /\ j - a = i
      BY <2>2, <2>3
    <3> HIDE DEF j
    <3>2. (x \o y)[j] = y[j - a]
      BY <2>4, <3>1
    <3> QED BY <3>1, <3>2 DEF j
  <2>7. at[m] = a + c
    BY <2>3, <2>4
  <2> QED BY <2>2, <2>3, <2>5, <2>6, <2>7 DEF x, y, c, a
<1> HIDE DEF at
<1> DEFINE Q == {k \in Nat : k <= n =>
                   \A m \in 0 .. k :
                     /\ at[m] <= at[k]
                     /\ m # 0 => \A i \in 1 .. Len(s[m]) :
                                   J(k)[at[m - 1] + i] = s[m][i]}
<1>5. 0 \in Q
  BY <1>1, <1>3
<1>6. ASSUME NEW k \in Q PROVE k + 1 \in Q
  <2> SUFFICES ASSUME k + 1 <= n, NEW m \in 0 .. k + 1
               PROVE  /\ at[m] <= at[k + 1]
                      /\ m # 0 => \A i \in 1 .. Len(s[m]) :
                                    J(k + 1)[at[m - 1] + i] = s[m][i]
    OBVIOUS
  <2>1. k \in 0 .. n /\ k + 1 \in 0 .. n /\ k + 1 \in 1 .. n /\ k + 1 - 1 = k /\ k <= n
    BY <1>1
  <2>2. at[k] \in Nat /\ at[k + 1] = at[k] + Len(s[k + 1]) /\ Len(s[k + 1]) \in Nat
    BY <1>3, <1>4, <2>1
  <2>3. CASE m = k + 1
    <3>1. at[m] <= at[k + 1]
      BY <2>2, <2>3
    <3> QED BY <1>4, <2>1, <2>3, <3>1
  <2>4. CASE m # k + 1
    <3>1. m \in 0 .. k /\ m \in 0 .. n
      BY <1>1, <2>4
    <3>2. /\ at[m] <= at[k]
          /\ m # 0 => \A i \in 1 .. Len(s[m]) : J(k)[at[m - 1] + i] = s[m][i]
      BY <2>1, <3>1
    <3> HIDE DEF Q
    <3>3. at[m] \in Nat /\ at[m] <= at[k + 1]
      BY <1>3, <2>2, <3>1, <3>2
    <3>4. ASSUME m # 0, NEW i \in 1 .. Len(s[m])
          PROVE  J(k + 1)[at[m - 1] + i] = s[m][i]
      <4> DEFINE j == at[m - 1] + i
      <4>1. m \in 1 .. n /\ m - 1 \in 0 .. n
        BY <1>1, <3>1, <3>4
      <4>2. at[m] = at[m - 1] + Len(s[m]) /\ at[m - 1] \in Nat /\ Len(s[m]) \in Nat
        BY <1>3, <1>4, <4>1
      <4>3. j \in 1 .. at[k]
        <5> DEFINE p == at[m - 1]
                   c == Len(s[m])
                   q == at[k]
        <5>1. p \in Nat /\ c \in Nat /\ q \in Nat /\ p + c <= q /\ i \in 1 .. c
          BY <2>2, <3>2, <4>2
        <5> HIDE DEF p, c, q
        <5>2. p + i \in 1 .. q
          BY <5>1
        <5> QED BY <5>2 DEF p, q
      <4>4. J(k + 1)[j] = J(k)[j]
        <5> HIDE DEF j
        <5>1. \A l \in 1 .. at[k + 1 - 1] : J(k + 1)[l] = J(k + 1 - 1)[l]
          BY <1>4, <2>1
        <5> QED BY <2>1, <4>3, <5>1
      <4> QED BY <3>2, <3>4, <4>4
    <3> QED BY <3>3, <3>4
  <2> QED BY <2>3, <2>4
<1>7. Q = Nat
  <2>1. Q \subseteq Nat
    OBVIOUS
  <2> HIDE DEF Q
  <2> QED BY <1>5, <1>6, <2>1, SetInduction
<1>8. n \in Q
  <2> HIDE DEF Q
  <2> QED BY <1>1, <1>7
<1>9. \A m \in 0 .. n : at[m] <= at[n]
  BY <1>1, <1>8
<1>10. ASSUME NEW m \in 1 .. n, NEW i \in 1 .. Len(s[m])
       PROVE  J(n)[at[m - 1] + i] = s[m][i]
  <2>1. m \in 0 .. n /\ m # 0
    BY <1>1
  <2>2. \A l \in 0 .. n : l # 0 => \A h \in 1 .. Len(s[l]) : J(n)[at[l - 1] + h] = s[l][h]
    BY <1>1, <1>8
  <2> HIDE DEF Q
  <2> QED BY <2>1, <2>2
<1> HIDE DEF Q
<1>11. \A m \in 1 .. n : m \in 0 .. n /\ m - 1 \in 0 .. n
  BY <1>1
<1>12. n \in 0 .. n /\ 0 \in 0 .. n /\ Len(<<>>) = 0
  BY <1>1
<1>13. at[0] = 0 /\ at[n] = Len(Flatten(s))
  BY <1>2, <1>3, <1>12
<1>14. \A m \in 1 .. n : at[m] = Len(J(m)) /\ at[m - 1] = Len(J(m - 1))
  BY <1>3, <1>11
<1>15. Len(J(0)) = 0
  BY <1>2, <1>12
<1>16. \A m \in 0 .. n : Len(J(m)) \in Nat /\ Len(J(m)) <= Len(Flatten(s))
  BY <1>3, <1>9, <1>13
<1>17. ASSUME NEW m \in 1 .. n
       PROVE  /\ Len(J(m)) = Len(J(m - 1)) + Len(s[m])
              /\ \A i \in 1 .. Len(s[m]) : Flatten(s)[Len(J(m - 1)) + i] = s[m][i]
  <2>1. at[m] = at[m - 1] + Len(s[m])
    BY <1>4
  <2>2. \A i \in 1 .. Len(s[m]) : Flatten(s)[at[m - 1] + i] = s[m][i]
    BY <1>2, <1>10
  <2> QED BY <1>14, <2>1, <2>2
<1> QED BY <1>15, <1>16, <1>17 DEF J, n
-----------------------------------------------------------------------------
(* What a frame of messages is made of. *)

LEMMA SeqWidens ==
  ASSUME NEW S, NEW T, S \subseteq T, NEW s \in Seq(S)
  PROVE  s \in Seq(T)
<1>1. Len(s) \in Nat /\ s \in [1 .. Len(s) -> S]
  BY LenProperties
<1>2. s \in [1 .. Len(s) -> T]
  BY <1>1
<1> QED BY <1>1, <1>2, SeqDef

LEMMA ConcatAt ==
  ASSUME NEW V, NEW x \in Seq(V), NEW y \in Seq(V)
  PROVE  /\ x \o y \in Seq(V) /\ Len(x \o y) = Len(x) + Len(y)
         /\ \A i \in 1 .. Len(x) : (x \o y)[i] = x[i]
         /\ \A i \in 1 .. Len(y) : (x \o y)[Len(x) + i] = y[i]
<1> DEFINE a == Len(x)
           c == Len(y)
<1>1. a \in Nat /\ c \in Nat
  BY LenProperties
<1>2. /\ x \o y \in Seq(V) /\ Len(x \o y) = a + c
      /\ \A i \in 1 .. a + c : (x \o y)[i] = IF i <= a THEN x[i] ELSE y[i - a]
  BY ConcatProperties
<1> HIDE DEF a, c
<1>3. \A i \in 1 .. a : (x \o y)[i] = x[i]
  BY <1>1, <1>2
<1>4. ASSUME NEW i \in 1 .. c PROVE (x \o y)[a + i] = y[i]
  <2> DEFINE j == a + i
  <2>1. j \in 1 .. a + c /\ ~(j <= a) /\ j - a = i
    BY <1>1
  <2> HIDE DEF j
  <2>2. (x \o y)[j] = y[j - a]
    BY <1>2, <2>1
  <2> QED BY <2>1, <2>2 DEF j
<1> QED BY <1>2, <1>3, <1>4 DEF a, c

LEMMA MsgLayout ==
  ASSUME NEW m \in Messages
  PROVE  /\ m.id \in Byte /\ m.raw \in Seq(Byte) /\ Len(m.raw) \in Nat
         /\ Len(m.raw) < MsgSizeBase /\ m = [id |-> m.id, raw |-> m.raw]
         /\ MsgBytes(m) \in Seq(Byte)
         /\ Len(MsgBytes(m)) = MsgHeaderSize + Len(m.raw)
         /\ MsgBytes(m)[1] = m.id /\ MsgBytes(m)[2] = Len(m.raw)
         /\ \A i \in 1 .. Len(m.raw) : MsgBytes(m)[2 + i] = m.raw[i]
<1> DEFINE h == <<m.id, Len(m.raw)>>
           r == m.raw
<1>1. m.id \in Byte /\ r \in Seq(Byte) /\ m = [id |-> m.id, raw |-> m.raw]
  OBVIOUS
<1>2. Len(r) \in Nat /\ Len(r) <= MsgSizeBase - 1
  <2>1. Len(r) \in Nat
    BY <1>1, LenProperties
  <2> QED BY <2>1 DEF MsgPayloadSizeMax
<1>3. Len(r) \in Byte
  BY <1>2 DEF Byte
<1> HIDE DEF r
<1>4. h \in Seq(Byte) /\ Len(h) = 2 /\ h[1] = m.id /\ h[2] = Len(r)
  BY <1>1, <1>3 DEF r
<1> HIDE DEF h
<1>5. /\ h \o r \in Seq(Byte) /\ Len(h \o r) = 2 + Len(r)
      /\ \A i \in 1 .. 2 : (h \o r)[i] = h[i]
      /\ \A i \in 1 .. Len(r) : (h \o r)[2 + i] = r[i]
  <2>1. h \in Seq(Byte) /\ r \in Seq(Byte)
    BY <1>1, <1>4
  <2>2. /\ h \o r \in Seq(Byte) /\ Len(h \o r) = Len(h) + Len(r)
        /\ \A i \in 1 .. Len(h) : (h \o r)[i] = h[i]
        /\ \A i \in 1 .. Len(r) : (h \o r)[Len(h) + i] = r[i]
    BY <2>1, ConcatAt
  <2> QED BY <1>4, <2>2
<1>6. MsgBytes(m) = h \o r
  BY DEF MsgBytes, h, r
<1>7. 1 \in 1 .. 2 /\ 2 \in 1 .. 2
  OBVIOUS
<1> HIDE DEF MsgBytes
<1>8. MsgBytes(m)[1] = m.id /\ MsgBytes(m)[2] = Len(r)
  BY <1>4, <1>5, <1>6, <1>7
<1>9. Len(r) < MsgSizeBase
  BY <1>2
<1> QED BY <1>1, <1>2, <1>5, <1>6, <1>8, <1>9 DEF r, MsgHeaderSize

MsgsBytes(msgs) == [i \in DOMAIN msgs |-> MsgBytes(msgs[i])]

Body(header, msgs) == header \o Flatten(MsgsBytes(msgs))

\* Offset in the payload of what follows the first j messages.
MsgAt(msgs, j) == HeaderSize + Len(Joined(MsgsBytes(msgs), j))

LEMMA BodyLayout ==
  ASSUME NEW header \in Headers, NEW msgs \in Seq(Messages)
  PROVE  LET body == Body(header, msgs)
         IN  /\ body \in Seq(Byte)
             /\ \A i \in 1 .. HeaderSize : body[i] = header[i]
             /\ MsgAt(msgs, 0) = HeaderSize /\ MsgAt(msgs, Len(msgs)) = Len(body)
             /\ \A j \in 0 .. Len(msgs) : /\ MsgAt(msgs, j) \in Nat
                                          /\ MsgAt(msgs, j) <= Len(body)
             /\ \A j \in 1 .. Len(msgs) :
                  /\ MsgAt(msgs, j) = MsgAt(msgs, j - 1) + Len(MsgBytes(msgs[j]))
                  /\ \A i \in 1 .. Len(MsgBytes(msgs[j])) :
                       body[MsgAt(msgs, j - 1) + i] = MsgBytes(msgs[j])[i]
<1> DEFINE s == MsgsBytes(msgs)
           n == Len(msgs)
           x == Flatten(s)
           body == header \o x
           at(j) == Len(Joined(s, j))
           c(j) == Len(MsgBytes(msgs[j]))
<1>1. n \in Nat /\ \A j \in 1 .. n : msgs[j] \in Messages
  BY LenProperties, ElementOfSeq
<1>2. \A j \in 1 .. n : MsgBytes(msgs[j]) \in Seq(Byte) /\ c(j) \in Nat
  BY <1>1, MsgLayout, LenProperties
<1>3. s \in Seq(Seq(Byte)) /\ Len(s) = n /\ \A j \in 1 .. n : s[j] = MsgBytes(msgs[j])
  <2>1. s = [j \in 1 .. n |-> MsgBytes(msgs[j])]
    BY LenProperties DEF MsgsBytes
  <2> HIDE DEF s, n
  <2>2. s \in [1 .. n -> Seq(Byte)]
    BY <1>2, <2>1
  <2>3. s \in Seq(Seq(Byte)) /\ Len(s) = n
    BY <1>1, <2>2, SeqDef, LenProperties
  <2> QED BY <2>1, <2>3
<1>4. header \in Seq(Byte) /\ Len(header) = HeaderSize
  <2>1. header \in [1 .. HeaderSize -> Byte] /\ HeaderSize \in Nat
    OBVIOUS
  <2> QED BY <2>1, SeqDef, LenProperties
<1> HIDE DEF s, n
<1>5. x \in Seq(Byte) /\ Joined(s, n) = x
  <2>1. n \in 0 .. n
    BY <1>1
  <2>2. s \in Seq(Seq(Byte))
    BY <1>3
  <2>3. /\ Joined(s, Len(s)) = Flatten(s)
        /\ \A j \in 0 .. Len(s) : Joined(s, j) \in Seq(Byte)
    BY <2>2, JoinedStep
  <2> QED BY <1>3, <2>1, <2>3
<1> HIDE DEF x
<1>6. /\ at(0) = 0
      /\ \A j \in 0 .. n : at(j) \in Nat /\ at(j) <= Len(x)
      /\ \A j \in 1 .. n : /\ at(j) = at(j - 1) + Len(s[j])
                           /\ \A i \in 1 .. Len(s[j]) : x[at(j - 1) + i] = s[j][i]
  <2>1. s \in Seq(Seq(Byte))
    BY <1>3
  <2>2. /\ Len(Joined(s, 0)) = 0
        /\ \A m \in 0 .. Len(s) : /\ Len(Joined(s, m)) \in Nat
                                  /\ Len(Joined(s, m)) <= Len(Flatten(s))
        /\ \A m \in 1 .. Len(s) :
             /\ Len(Joined(s, m)) = Len(Joined(s, m - 1)) + Len(s[m])
             /\ \A i \in 1 .. Len(s[m]) :
                  Flatten(s)[Len(Joined(s, m - 1)) + i] = s[m][i]
    BY <2>1, JoinedParts
  <2>3. Len(s) = n
    BY <1>3
  <2> QED BY <2>2, <2>3 DEF x
<1> HIDE DEF at
<1>7. /\ body \in Seq(Byte) /\ Len(body) = HeaderSize + Len(x)
      /\ \A i \in 1 .. HeaderSize : body[i] = header[i]
      /\ \A i \in 1 .. Len(x) : body[HeaderSize + i] = x[i]
  <2>1. header \in Seq(Byte) /\ x \in Seq(Byte)
    BY <1>4, <1>5
  <2>2. /\ header \o x \in Seq(Byte) /\ Len(header \o x) = Len(header) + Len(x)
        /\ \A i \in 1 .. Len(header) : (header \o x)[i] = header[i]
        /\ \A i \in 1 .. Len(x) : (header \o x)[Len(header) + i] = x[i]
    BY <2>1, ConcatAt
  <2> QED BY <1>4, <2>2
<1> HIDE DEF body
<1>8. \A j : MsgAt(msgs, j) = HeaderSize + at(j)
  BY DEF MsgAt, at, s
<1>9. at(n) = Len(x) /\ Len(x) \in Nat /\ HeaderSize \in Nat
  BY <1>5, LenProperties DEF at
<1>10. ASSUME NEW j \in 1 .. n, NEW i \in 1 .. c(j)
       PROVE  body[MsgAt(msgs, j - 1) + i] = MsgBytes(msgs[j])[i]
  <2> DEFINE p == at(j - 1)
             q == at(j)
             d == c(j)
  <2>1. j \in 0 .. n /\ j - 1 \in 0 .. n
    BY <1>1
  <2>2. s[j] = MsgBytes(msgs[j]) /\ d = Len(s[j]) /\ d \in Nat
    BY <1>2, <1>3
  <2>3. /\ p \in Nat /\ q \in Nat /\ q <= Len(x) /\ q = p + d
        /\ x[p + i] = s[j][i]
    BY <1>6, <2>1, <2>2
  <2> HIDE DEF p, q, d, c
  <2>4. p + i \in 1 .. Len(x) /\ HeaderSize + (p + i) = HeaderSize + p + i
    <3>1. i \in 1 .. d
      BY DEF d
    <3> QED BY <1>9, <2>2, <2>3, <3>1
  <2> DEFINE k == p + i
  <2> HIDE DEF k
  <2>5. body[HeaderSize + k] = x[k]
    BY <1>7, <2>4 DEF k
  <2> QED BY <1>8, <2>2, <2>3, <2>4, <2>5 DEF k, p
<1>11. ASSUME NEW j \in 1 .. n PROVE MsgAt(msgs, j) = MsgAt(msgs, j - 1) + c(j)
  <2>1. j \in 0 .. n /\ j - 1 \in 0 .. n /\ s[j] = MsgBytes(msgs[j])
    BY <1>1, <1>3
  <2>2. at(j) = at(j - 1) + c(j) /\ at(j - 1) \in Nat /\ c(j) \in Nat
    BY <1>2, <1>6, <2>1
  <2> HIDE DEF c
  <2> QED BY <1>8, <1>9, <2>2
<1>12. \A j \in 0 .. n : MsgAt(msgs, j) \in Nat /\ MsgAt(msgs, j) <= Len(body)
  BY <1>6, <1>7, <1>8, <1>9
<1>13. MsgAt(msgs, 0) = HeaderSize /\ MsgAt(msgs, n) = Len(body)
  <2>1. at(0) = 0 /\ Len(body) = HeaderSize + Len(x)
    BY <1>6, <1>7
  <2>2. MsgAt(msgs, 0) = HeaderSize + at(0)
    BY <1>8
  <2>3. MsgAt(msgs, n) = HeaderSize + at(n)
    BY <1>8
  <2>4. HeaderSize + 0 = HeaderSize
    BY <1>9
  <2> QED BY <1>9, <2>1, <2>2, <2>3, <2>4
<1>14. Body(header, msgs) = body
  BY DEF Body, body, x, s
<1> QED BY <1>7, <1>10, <1>11, <1>12, <1>13, <1>14 DEF n

\* A frame without its checksum, and the checksum.
Open(header, msgs) ==
  LET body == Body(header, msgs)
  IN  <<FrameSOF, Len(body) % ByteBase, Len(body) \div ByteBase>> \o body

Closing(header, msgs) ==
  LET open == Open(header, msgs)
  IN  Checksum([k \in 0 .. Len(open) - 1 |-> open[k + 1]], Len(open))

\* What is on the line between the noise.
FrameByte == Byte \cup {Closing(h, m) : h \in Headers, m \in Seq(Messages)}

\* The bytes of a frame around its body of n bytes.
FrameAround(bytes, body) ==
  LET n == Len(body)
  IN  /\ n \in Nat /\ Len(bytes) = n + FrameSizeMin
      /\ bytes[1] = FrameSOF
      /\ n < ByteBase * ByteBase => bytes[2] + ByteBase * bytes[3] = n
      /\ \A i \in 1 .. n : bytes[FramePayloadOffset + i] = body[i]
      /\ bytes[n + 4] = Checksum([k \in 0 .. n + 2 |-> bytes[k + 1]], n + 3)

\* A size within the field's range is read back as it was written.
LEMMA SizeReadBack ==
  ASSUME NEW n \in Nat, n < ByteBase * ByteBase
  PROVE  /\ n % ByteBase \in Byte /\ n \div ByteBase \in Byte
         /\ (n % ByteBase) + ByteBase * (n \div ByteBase) = n
<1>1. ByteBase \in Nat /\ ByteBase >= 2
  OBVIOUS
<1>2. n % ByteBase \in 0 .. ByteBase - 1
  BY <1>1
<1>3. n \div ByteBase \in 0 .. ByteBase - 1
  BY <1>1
<1>4. ByteBase * (n \div ByteBase) + (n % ByteBase) = n
  BY <1>1
<1> QED BY <1>2, <1>3, <1>4 DEF Byte

LEMMA FrameLayout ==
  ASSUME NEW header \in Headers, NEW msgs \in Seq(Messages),
         Len(FrameBytes(header, msgs)) <= FrameSizeMax
  PROVE  /\ FrameBytes(header, msgs) \in Seq(FrameByte)
         /\ FrameAround(FrameBytes(header, msgs), Body(header, msgs))
<1> DEFINE body == Body(header, msgs)
           n == Len(body)
           lo == n % ByteBase
           hi == n \div ByteBase
           h == <<FrameSOF, lo, hi>>
           open == h \o body
           sum == Closing(header, msgs)
           bytes == Append(open, sum)
<1>1. body \in Seq(Byte) /\ n \in Nat
  BY BodyLayout, LenProperties
<1>2. FrameBytes(header, msgs) = bytes
  BY DEF FrameBytes, Closing, Open, Body, MsgsBytes
<1>3. sum = Checksum([k \in 0 .. Len(open) - 1 |-> open[k + 1]], Len(open))
  BY DEF Closing, Open
<1>4. sum \in FrameByte
  BY DEF FrameByte
<1> HIDE DEF body, sum, n, lo, hi
<1>6. Len(h) = 3 /\ h[1] = FrameSOF /\ h[2] = lo /\ h[3] = hi
  OBVIOUS
<1>7. Len(open) = n + 3 /\ Len(bytes) = n + 4
  <2> DEFINE V == Byte \cup {FrameSOF, lo, hi, sum}
  <2>1. Byte \subseteq V /\ FrameSOF \in V /\ lo \in V /\ hi \in V /\ sum \in V
    OBVIOUS
  <2> HIDE DEF V
  <2>2. h \in Seq(V)
    BY <2>1
  <2>3. body \in Seq(V)
    BY <1>1, <2>1, SeqWidens
  <2> HIDE DEF h
  <2>4. open \in Seq(V) /\ Len(open) = Len(h) + Len(body)
    BY <2>2, <2>3, ConcatAt
  <2> HIDE DEF open
  <2>5. Len(open) = n + 3
    BY <1>1, <1>6, <2>4 DEF n
  <2>8. Len(bytes) = Len(open) + 1
    BY <2>1, <2>4, AppendProperties
  <2> QED BY <1>1, <2>5, <2>8
<1>8. n < ByteBase * ByteBase
  <2>1. n + 4 <= FrameSizeMax
    BY <1>2, <1>7
  <2>2. ByteBase * ByteBase \in Nat
    OBVIOUS
  <2> QED BY <1>1, <2>1, <2>2 DEF FrameSizeMin
<1>9. lo \in Byte /\ hi \in Byte /\ lo + ByteBase * hi = n
  BY <1>1, <1>8, SizeReadBack DEF lo, hi
<1>10. FrameSOF \in FrameByte /\ Byte \subseteq FrameByte
  BY DEF FrameByte, Byte
<1>11. h \in Seq(FrameByte) /\ body \in Seq(FrameByte)
  <2>1. h \in Seq(FrameByte)
    BY <1>9, <1>10
  <2>2. body \in Seq(FrameByte)
    BY <1>1, <1>10, SeqWidens
  <2> QED BY <2>1, <2>2
<1> HIDE DEF h
<1>12. /\ open \in Seq(FrameByte)
       /\ \A i \in 1 .. 3 : open[i] = h[i]
       /\ \A i \in 1 .. n : open[3 + i] = body[i]
  <2>1. /\ open \in Seq(FrameByte)
        /\ \A i \in 1 .. Len(h) : open[i] = h[i]
        /\ \A i \in 1 .. Len(body) : open[Len(h) + i] = body[i]
    BY <1>11, ConcatAt
  <2> QED BY <1>6, <2>1 DEF n
<1> HIDE DEF open
<1>13. /\ bytes \in Seq(FrameByte)
       /\ \A i \in 1 .. n + 3 : bytes[i] = open[i]
       /\ bytes[n + 4] = sum
  <2>1. /\ bytes \in Seq(FrameByte)
        /\ \A i \in 1 .. Len(open) : bytes[i] = open[i]
        /\ bytes[Len(open) + 1] = sum
    BY <1>4, <1>12, AppendProperties
  <2>2. Len(open) + 1 = n + 4
    BY <1>1, <1>7
  <2> QED BY <1>7, <2>1, <2>2
<1> HIDE DEF bytes
<1>14. /\ bytes[1] = FrameSOF /\ bytes[2] = lo /\ bytes[3] = hi
  <2>1. 1 \in 1 .. n + 3 /\ 2 \in 1 .. n + 3 /\ 3 \in 1 .. n + 3
    BY <1>1
  <2>2. 1 \in 1 .. 3 /\ 2 \in 1 .. 3 /\ 3 \in 1 .. 3
    OBVIOUS
  <2> HIDE MsgAssumption, LinkAssumption
  <2>3. bytes[1] = open[1] /\ bytes[2] = open[2] /\ bytes[3] = open[3]
    BY <1>13, <2>1
  <2>4. open[1] = h[1] /\ open[2] = h[2] /\ open[3] = h[3]
    BY <1>12, <2>2
  <2> QED BY <1>6, <2>3, <2>4
<1>15. ASSUME NEW i \in 1 .. n PROVE bytes[3 + i] = body[i]
  <2> DEFINE j == 3 + i
  <2>1. j \in 1 .. n + 3
    BY <1>1
  <2> HIDE DEF j
  <2>2. bytes[j] = open[j]
    BY <1>13, <2>1
  <2> QED BY <1>12, <2>2 DEF j
<1>16. sum = Checksum([k \in 0 .. n + 2 |-> bytes[k + 1]], n + 3)
  <2>1. Len(open) - 1 = n + 2
    BY <1>1, <1>7
  <2>2. ASSUME NEW k \in 0 .. n + 2 PROVE open[k + 1] = bytes[k + 1]
    <3>1. k + 1 \in 1 .. n + 3
      BY <1>1
    <3> QED BY <1>13, <3>1
  <2>3. [k \in 0 .. Len(open) - 1 |-> open[k + 1]] = [k \in 0 .. n + 2 |-> bytes[k + 1]]
    BY <2>1, <2>2
  <2> QED BY <1>3, <1>7, <2>3 DEF open
<1>17. FrameAround(bytes, body)
  BY <1>1, <1>7, <1>9, <1>13, <1>14, <1>15, <1>16
     DEF FrameAround, FrameSizeMin, FramePayloadOffset, n
<1> QED BY <1>2, <1>13, <1>17 DEF body
-----------------------------------------------------------------------------
(* Where the frames lie on the line. *)

Frame(i) == FrameBytes(sent[i].header, sent[i].msgs)
Start(i) == sent[i].end - Len(Frame(i))
Ended(i) == IF i = 0 THEN 0 ELSE sent[i].end

\* The i-th frame is there, as far as the line goes, with noise before it.
FrameOnLine(i) ==
  /\ Len(Frame(i)) <= FrameSizeMax
  /\ Ended(i - 1) <= Start(i)
  /\ \A k \in 0 .. Len(Frame(i)) - 1 :
       Start(i) + k < WireLen => wire[Start(i) + k] = Frame(i)[k + 1]
  /\ \A p \in Ended(i - 1) .. Start(i) - 1 : p < WireLen => wire[p] # FrameSOF

SentOnLine ==
  /\ sent \in Seq([header : Headers, msgs : Seq(Messages), end : Nat])
  /\ \A i \in 1 .. Len(sent) : FrameOnLine(i)
  /\ \A p \in Ended(Len(sent)) .. WireLen - 1 : wire[p] # FrameSOF

\* Noise and frame of each transmission.
Parts(ts) ==
  [i \in DOMAIN ts |-> ts[i].noise \o FrameBytes(ts[i].header, ts[i].msgs)]

LEMMA TransmissionParts ==
  ASSUME NEW t \in Transmissions
  PROVE  LET frame == FrameBytes(t.header, t.msgs)
             part  == t.noise \o frame
         IN  /\ t.header \in Headers /\ t.msgs \in Seq(Messages)
             /\ Len(frame) <= FrameSizeMax
             /\ frame \in Seq(FrameByte) /\ part \in Seq(FrameByte)
             /\ Len(frame) \in Nat /\ Len(t.noise) \in Nat
             /\ Len(part) = Len(t.noise) + Len(frame)
             /\ \A i \in 1 .. Len(t.noise) : part[i] # FrameSOF
             /\ \A i \in 1 .. Len(frame) : part[Len(t.noise) + i] = frame[i]
<1> DEFINE frame == FrameBytes(t.header, t.msgs)
           noise == t.noise
<1>1. /\ noise \in Noise /\ t.header \in Headers /\ t.msgs \in Seq(Messages)
      /\ Len(frame) <= FrameSizeMax
  <2>1. PICK n \in 0 .. MsgsSent : t.msgs \in [1 .. n -> Messages]
    BY DEF Transmissions
  <2>2. t.msgs \in Seq(Messages)
    <3>1. n \in Nat
      OBVIOUS
    <3> QED BY <2>1, <3>1, SeqDef
  <2>3. noise \in Noise /\ t.header \in Headers /\ Len(frame) <= FrameSizeMax
    BY DEF Transmissions
  <2> QED BY <2>2, <2>3
<1>2. frame \in Seq(FrameByte) /\ Len(frame) \in Nat
  BY <1>1, FrameLayout, LenProperties
<1>3. noise \in Seq(Byte \ {FrameSOF})
  BY <1>1
<1>4. noise \in Seq(FrameByte) /\ Len(noise) \in Nat
  <2>1. Byte \ {FrameSOF} \subseteq FrameByte
    BY DEF FrameByte
  <2> QED BY <1>3, <2>1, SeqWidens, LenProperties
<1>5. \A i \in 1 .. Len(noise) : noise[i] # FrameSOF
  BY <1>3, ElementOfSeq
<1> HIDE DEF frame, noise
<1>6. /\ noise \o frame \in Seq(FrameByte)
      /\ Len(noise \o frame) = Len(noise) + Len(frame)
      /\ \A i \in 1 .. Len(noise) : (noise \o frame)[i] = noise[i]
      /\ \A i \in 1 .. Len(frame) : (noise \o frame)[Len(noise) + i] = frame[i]
  BY <1>2, <1>4, ConcatAt
<1>7. \A i \in 1 .. Len(noise) : (noise \o frame)[i] # FrameSOF
  BY <1>5, <1>6
<1> QED BY <1>1, <1>2, <1>4, <1>6, <1>7 DEF frame, noise

LEMMA LineLayout == LinkInit => SentOnLine
<1> HIDE MsgAssumption, LinkAssumption
<1> SUFFICES ASSUME LinkInit PROVE SentOnLine
  OBVIOUS
<1>1. PICK ts \in [1 .. FramesSent -> Transmissions] :
        /\ wire = LineBytes(ts)
        /\ sent = [i \in DOMAIN ts |-> [header |-> ts[i].header, msgs |-> ts[i].msgs,
                                        end |-> EndOf(ts, i)]]
  BY DEF LinkInit
<1> DEFINE n == FramesSent
           s == Parts(ts)
           at(j) == Len(Joined(s, j))
           bytes == Flatten(s)
           f(i) == FrameBytes(ts[i].header, ts[i].msgs)
           noise(i) == ts[i].noise
           l(i) == Len(f(i))
           a(i) == Len(noise(i))
<1>2. n \in Nat /\ DOMAIN ts = 1 .. n /\ \A i \in 1 .. n : ts[i] \in Transmissions
  BY <1>1, LinkAssumption
<1> HIDE DEF n
<1>3. ASSUME NEW i \in 1 .. n
      PROVE  /\ ts[i].header \in Headers /\ ts[i].msgs \in Seq(Messages)
             /\ l(i) <= FrameSizeMax /\ l(i) \in Nat /\ a(i) \in Nat
             /\ s[i] \in Seq(FrameByte) /\ Len(s[i]) = a(i) + l(i)
             /\ \A x \in 1 .. a(i) : s[i][x] # FrameSOF
             /\ \A x \in 1 .. l(i) : s[i][a(i) + x] = f(i)[x]
  <2>1. s[i] = noise(i) \o f(i) /\ ts[i] \in Transmissions
    BY <1>2 DEF Parts
  <2> QED BY <2>1, TransmissionParts
<1>4. s \in Seq(Seq(FrameByte)) /\ Len(s) = n
  <2>1. s = [i \in 1 .. n |-> s[i]]
    BY <1>2 DEF Parts
  <2> HIDE DEF s
  <2>2. s \in [1 .. n -> Seq(FrameByte)]
    BY <1>3, <2>1
  <2> QED BY <1>2, <2>2, SeqDef, LenProperties
<1>5. ASSUME NEW i \in 1 .. n PROVE EndOf(ts, i) = at(i)
  <2>1. [j \in 1 .. i |-> ts[j].noise \o FrameBytes(ts[j].header, ts[j].msgs)]
          = Prefix(s, i)
    <3>1. \A j \in 1 .. i : j \in DOMAIN ts
      BY <1>2
    <3> QED BY <3>1 DEF Prefix, Parts
  <2> QED BY <2>1 DEF EndOf, Joined
<1>6. \A p \in 0 .. WireLen - 1 : wire[p] = IF p < Len(bytes) THEN bytes[p + 1] ELSE 0
  BY <1>1 DEF LineBytes, Parts
<1>7. sent = [i \in 1 .. n |-> [header |-> ts[i].header, msgs |-> ts[i].msgs, end |-> at(i)]]
  BY <1>1, <1>2, <1>5
<1> HIDE DEF s, f, noise
<1>8. /\ at(0) = 0
      /\ \A m \in 0 .. n : at(m) \in Nat /\ at(m) <= Len(bytes)
      /\ \A m \in 1 .. n :
           /\ at(m) = at(m - 1) + Len(s[m])
           /\ \A x \in 1 .. Len(s[m]) : bytes[at(m - 1) + x] = s[m][x]
  BY <1>4, JoinedParts
<1>9. Joined(s, n) = bytes
  BY <1>4, JoinedStep
<1> HIDE DEF at, l, a, bytes
<1>10. sent \in Seq([header : Headers, msgs : Seq(Messages), end : Nat]) /\ Len(sent) = n
  <2> DEFINE R == [header : Headers, msgs : Seq(Messages), end : Nat]
  <2>1. ASSUME NEW i \in 1 .. n
        PROVE  [header |-> ts[i].header, msgs |-> ts[i].msgs, end |-> at(i)] \in R
    <3>1. i \in 0 .. n
      BY <1>2
    <3> QED BY <1>3, <1>8, <3>1
  <2> HIDE DEF R
  <2>2. sent \in [1 .. n -> R]
    BY <1>7, <2>1
  <2>3. sent \in Seq(R) /\ Len(sent) = n
    BY <1>2, <2>2, SeqDef, LenProperties
  <2> QED BY <2>3 DEF R
<1>11. /\ \A i \in 1 .. n : sent[i].end = at(i) /\ Frame(i) = f(i)
       /\ \A i \in 0 .. n : Ended(i) = at(i)
  BY <1>2, <1>7, <1>8 DEF Frame, Ended, f
<1>12. ASSUME NEW i \in 1 .. n PROVE FrameOnLine(i)
  <2> DEFINE b == at(i - 1)
             e == at(i)
             nl == a(i)
             fl == l(i)
             fr == f(i)
  <2>1. i \in 0 .. n /\ i - 1 \in 0 .. n
    BY <1>2
  <2>2. /\ b \in Nat /\ e \in Nat /\ nl \in Nat /\ fl \in Nat
        /\ e = b + nl + fl /\ e <= Len(bytes) /\ fl <= FrameSizeMax
    BY <1>3, <1>8, <2>1
  <2>3. Frame(i) = fr /\ Len(fr) = fl /\ Ended(i - 1) = b /\ Start(i) = e - fl
    BY <1>11, <2>1 DEF Start, l
  <2>4. /\ \A x \in 1 .. nl + fl : bytes[b + x] = s[i][x]
        /\ \A x \in 1 .. nl : s[i][x] # FrameSOF
        /\ \A x \in 1 .. fl : s[i][nl + x] = fr[x]
    BY <1>3, <1>8
  <2> HIDE DEF b, e, nl, fl, fr
  <2>5. Start(i) = b + nl
    BY <2>2, <2>3
  <2>6. Len(bytes) \in Nat
    <3>1. n \in 0 .. n
      BY <1>2
    <3> QED BY <1>8, <1>9, <3>1 DEF at
  <2>7. ASSUME NEW x \in 1 .. nl + fl, b + x - 1 < WireLen
        PROVE  wire[b + x - 1] = s[i][x]
    <3> DEFINE p == b + x - 1
    <3>1. p \in 0 .. WireLen - 1 /\ p < Len(bytes) /\ p + 1 = b + x
      BY <2>2, <2>6, <2>7
    <3> HIDE DEF p
    <3>2. wire[p] = bytes[b + x]
      BY <1>6, <3>1
    <3> QED BY <2>4, <3>2 DEF p
  <2>8. ASSUME NEW k \in 0 .. fl - 1, b + nl + k < WireLen
        PROVE  wire[b + nl + k] = fr[k + 1]
    <3> DEFINE x == nl + (k + 1)
    <3>1. x \in 1 .. nl + fl /\ b + x - 1 = b + nl + k /\ k + 1 \in 1 .. fl
      BY <2>2
    <3> HIDE DEF x
    <3>2. wire[b + x - 1] = s[i][x]
      BY <2>7, <2>8, <3>1
    <3> QED BY <2>4, <3>1, <3>2 DEF x
  <2>9. ASSUME NEW p \in b .. b + nl - 1, p < WireLen PROVE wire[p] # FrameSOF
    <3> DEFINE x == p - b + 1
    <3>1. x \in 1 .. nl /\ x \in 1 .. nl + fl /\ b + x - 1 = p
      BY <2>2
    <3> HIDE DEF x
    <3>2. wire[b + x - 1] = s[i][x]
      BY <2>7, <2>9, <3>1
    <3> QED BY <2>4, <3>1, <3>2
  <2>10. b <= b + nl
    BY <2>2
  <2> QED BY <2>2, <2>3, <2>5, <2>8, <2>9, <2>10 DEF FrameOnLine
<1>13. ASSUME NEW p \in Ended(n) .. WireLen - 1 PROVE wire[p] # FrameSOF
  <2>1. n \in 0 .. n
    BY <1>2
  <2>2. Ended(n) = Len(bytes) /\ Len(bytes) \in Nat
    BY <1>8, <1>9, <1>11, <2>1 DEF at
  <2>3. p \in 0 .. WireLen - 1 /\ ~(p < Len(bytes))
    BY <2>2
  <2> QED BY <1>6, <2>3, LinkAssumption
<1> QED BY <1>10, <1>12, <1>13 DEF SentOnLine

SentBody(i) == Body(sent[i].header, sent[i].msgs)

\* Where a frame lies, and what the scan finds there once it has arrived.
LEMMA FramePlace ==
  ASSUME SentOnLine, NEW i \in 1 .. Len(sent)
  PROVE  /\ sent[i].header \in Headers /\ sent[i].msgs \in Seq(Messages)
         /\ SentBody(i) \in Seq(Byte) /\ Len(SentBody(i)) \in Nat
         /\ Len(Frame(i)) = Len(SentBody(i)) + 4
         /\ Len(SentBody(i)) <= FramePayloadSizeMax
         /\ Start(i) \in Nat /\ sent[i].end = Start(i) + Len(Frame(i))
         /\ Ended(i) = sent[i].end /\ Ended(i) \in Nat /\ Ended(i - 1) \in Nat
         /\ Ended(i - 1) <= Start(i)
         /\ FrameAround(Frame(i), SentBody(i))
<1> DEFINE n == Len(sent)
           R == [header : Headers, msgs : Seq(Messages), end : Nat]
<1>1. n \in Nat /\ \A j \in 1 .. n : sent[j] \in R
  BY LenProperties, ElementOfSeq DEF SentOnLine
<1>2. \A j \in 1 .. n : sent[j].end \in Nat
  BY <1>1
<1>3. sent[i].header \in Headers /\ sent[i].msgs \in Seq(Messages) /\ FrameOnLine(i)
  BY <1>1 DEF SentOnLine
<1> HIDE DEF R, n
<1>4. Ended(i) = sent[i].end /\ Ended(i) \in Nat /\ Ended(i - 1) \in Nat
  <2>1. i \in 1 .. n /\ i # 0 /\ (i - 1 # 0 => i - 1 \in 1 .. n)
    BY <1>1 DEF n
  <2> QED BY <1>2, <2>1 DEF Ended
<1>5. Len(Frame(i)) <= FrameSizeMax /\ Ended(i - 1) <= Start(i)
  BY <1>3 DEF FrameOnLine
<1>6. FrameAround(Frame(i), SentBody(i))
  BY <1>3, <1>5, FrameLayout DEF Frame, SentBody
<1>7. Len(SentBody(i)) \in Nat /\ Len(Frame(i)) = Len(SentBody(i)) + 4
  BY <1>6 DEF FrameAround, FrameSizeMin
<1>8. SentBody(i) \in Seq(Byte)
  BY <1>3, BodyLayout DEF SentBody
<1>9. Start(i) \in Nat /\ sent[i].end = Start(i) + Len(Frame(i))
  <2>1. sent[i].end \in Nat
    BY <1>4
  <2> QED BY <1>4, <1>5, <1>7, <2>1 DEF Start
<1>10. Len(SentBody(i)) <= FramePayloadSizeMax
  BY <1>5, <1>7 DEF FramePayloadSizeMax, FrameSizeMin
<1> QED BY <1>3, <1>4, <1>5, <1>6, <1>7, <1>8, <1>9, <1>10

\* What the line holds where a frame begins, once its header is on it.
LEMMA FrameHeader ==
  ASSUME TypeOK, SentOnLine, NEW i \in 1 .. Len(sent), Start(i) + 4 <= WireLen
  PROVE  /\ wire[Start(i)] = FrameSOF
         /\ PayloadSize(wire, Start(i)) = Len(SentBody(i))
         /\ FrameSize(wire, Start(i)) = Len(Frame(i))
<1> HIDE MsgAssumption, LinkAssumption
<1> DEFINE p == Start(i)
           b == Frame(i)
           n == Len(SentBody(i))
<1>1. /\ p \in Nat /\ n \in Nat /\ Len(b) = n + 4 /\ n <= FramePayloadSizeMax
      /\ FrameAround(b, SentBody(i))
  BY FramePlace
<1>2. \A k \in 0 .. Len(b) - 1 : p + k < WireLen => wire[p + k] = b[k + 1]
  BY DEF SentOnLine, FrameOnLine
<1> HIDE DEF p, b
<1>3. b[1] = FrameSOF /\ (n < ByteBase * ByteBase => b[2] + ByteBase * b[3] = n)
  BY <1>1 DEF FrameAround
<1> HIDE DEF n
<1>4. n < ByteBase * ByteBase
  <2>1. ByteBase * ByteBase \in Nat
    OBVIOUS
  <2> QED BY <1>1, <2>1 DEF FramePayloadSizeMax, FrameSizeMin
<1>5. wire[p + 0] = b[0 + 1] /\ wire[p + 1] = b[1 + 1] /\ wire[p + 2] = b[2 + 1]
  <2>1. 0 \in 0 .. Len(b) - 1 /\ 1 \in 0 .. Len(b) - 1 /\ 2 \in 0 .. Len(b) - 1
    BY <1>1
  <2>2. p + 0 < WireLen /\ p + 1 < WireLen /\ p + 2 < WireLen
    BY <1>1 DEF p
  <2> QED BY <1>2, <2>1, <2>2
<1>6. p + 0 = p
  BY <1>1
<1>7. wire[p] = FrameSOF /\ wire[p + 1] + ByteBase * wire[p + 2] = n
  BY <1>3, <1>4, <1>5, <1>6
<1> QED BY <1>1, <1>7 DEF PayloadSize, FrameSize, FrameSizeMin, p, b, n

\* A frame whose last byte is on the line is well-formed, with its body.
LEMMA FrameValid ==
  ASSUME TypeOK, SentOnLine, NEW i \in 1 .. Len(sent), sent[i].end <= WireLen
  PROVE  /\ ValidFrameAt(Start(i))
         /\ Slice(wire, Start(i) + FramePayloadOffset, Len(SentBody(i)))
              = [x \in 0 .. Len(SentBody(i)) - 1 |-> SentBody(i)[x + 1]]
<1> HIDE MsgAssumption, LinkAssumption
<1> DEFINE p == Start(i)
           b == Frame(i)
           n == Len(SentBody(i))
           m == n + 4
<1>1. /\ p \in Nat /\ n \in Nat /\ Len(b) = m /\ n <= FramePayloadSizeMax
      /\ FrameAround(b, SentBody(i)) /\ p + m <= WireLen
  BY FramePlace
<1>2. \A k \in 0 .. Len(b) - 1 : p + k < WireLen => wire[p + k] = b[k + 1]
  BY DEF SentOnLine, FrameOnLine
<1>3. p + 4 <= WireLen
  BY <1>1
<1>4. wire[p] = FrameSOF /\ PayloadSize(wire, p) = n /\ FrameSize(wire, p) = m
  BY <1>1, <1>3, FrameHeader
<1>5. /\ \A x \in 1 .. n : b[3 + x] = SentBody(i)[x]
      /\ b[n + 4] = Checksum([k \in 0 .. n + 2 |-> b[k + 1]], n + 3)
  BY <1>1 DEF FrameAround, FramePayloadOffset
<1> HIDE DEF p, b, n
<1>6. ASSUME NEW k \in 0 .. n + 3 PROVE wire[p + k] = b[k + 1]
  <2>1. k \in 0 .. Len(b) - 1 /\ p + k < WireLen
    BY <1>1
  <2> QED BY <1>2, <2>1 DEF p, b
<1>7. Slice(wire, p + FramePayloadOffset, n) = [x \in 0 .. n - 1 |-> SentBody(i)[x + 1]]
  <2>1. ASSUME NEW x \in 0 .. n - 1 PROVE wire[p + 3 + x] = SentBody(i)[x + 1]
    <3> DEFINE k == 3 + x
               y == x + 1
    <3>1. k \in 0 .. n + 3 /\ k + 1 = 3 + y /\ y \in 1 .. n /\ p + 3 + x = p + k
      BY <1>1
    <3> HIDE DEF k, y
    <3>2. wire[p + k] = b[k + 1] /\ b[3 + y] = SentBody(i)[y]
      BY <1>5, <1>6, <3>1
    <3> QED BY <3>1, <3>2 DEF y
  <2> QED BY <2>1 DEF Slice, FramePayloadOffset
<1>8. ChecksumVerify(Slice(wire, p, m), m)
  <2> DEFINE s == Slice(wire, p, m)
  <2>1. \A k \in 0 .. n + 3 : s[k] = b[k + 1]
    <3>1. m - 1 = n + 3
      BY <1>1
    <3> QED BY <1>6, <3>1 DEF Slice
  <2> HIDE DEF s
  <2>2. s[m - 1] = b[n + 4]
    <3>1. m - 1 = n + 3 /\ n + 3 \in 0 .. n + 3 /\ (n + 3) + 1 = n + 4
      BY <1>1
    <3> QED BY <2>1, <3>1
  <2>3. Slice(s, 0, m - 1) = [k \in 0 .. n + 2 |-> b[k + 1]]
    <3>1. (m - 1) - 1 = n + 2
      BY <1>1
    <3>2. ASSUME NEW k \in 0 .. n + 2 PROVE s[0 + k] = b[k + 1]
      <4>1. k \in 0 .. n + 3 /\ 0 + k = k
        BY <1>1
      <4> QED BY <2>1, <4>1
    <3> QED BY <3>1, <3>2 DEF Slice
  <2>4. m - 1 = n + 3
    BY <1>1
  <2> QED BY <1>5, <2>2, <2>3, <2>4 DEF ChecksumVerify, s
<1>9. p + FrameSizeMin <= WireLen
  BY <1>3 DEF FrameSizeMin
<1> HIDE DEF m
<1>10. ValidFrameAt(p)
  BY <1>1, <1>4, <1>8, <1>9 DEF ValidFrameAt
<1> QED BY <1>7, <1>10 DEF p, n

\* The frames do not overlap.
LEMMA FramesApart ==
  ASSUME SentOnLine, NEW j \in 0 .. Len(sent), NEW i \in 0 .. j
  PROVE  Ended(i) <= Ended(j)
<1> DEFINE n == Len(sent)
           Q == {k \in Nat : k <= n =>
                   Ended(k) \in Nat /\ \A l \in 0 .. k : Ended(l) <= Ended(k)}
<1>1. n \in Nat
  BY LenProperties DEF SentOnLine
<1>2. \A k \in 1 .. n : /\ Ended(k) \in Nat /\ Ended(k - 1) \in Nat
                        /\ Ended(k - 1) <= Ended(k)
  <2> TAKE k \in 1 .. n
  <2>1. /\ Ended(k) = Start(k) + Len(Frame(k)) /\ Len(Frame(k)) \in Nat
        /\ Start(k) \in Nat /\ Ended(k - 1) <= Start(k)
        /\ Ended(k) \in Nat /\ Ended(k - 1) \in Nat
    <3>1. /\ Len(SentBody(k)) \in Nat /\ Len(Frame(k)) = Len(SentBody(k)) + 4
          /\ Start(k) \in Nat /\ sent[k].end = Start(k) + Len(Frame(k))
          /\ Ended(k) = sent[k].end /\ Ended(k) \in Nat /\ Ended(k - 1) \in Nat
          /\ Ended(k - 1) <= Start(k)
      BY FramePlace
    <3> QED BY <3>1
  <2> QED BY <2>1
<1> HIDE DEF n
<1>3. 0 \in Q
  <2>1. Ended(0) = 0
    BY DEF Ended
  <2> QED BY <2>1
<1>4. ASSUME NEW k \in Q PROVE k + 1 \in Q
  <2> SUFFICES ASSUME k + 1 <= n
               PROVE  /\ Ended(k + 1) \in Nat
                      /\ \A l \in 0 .. k + 1 : Ended(l) <= Ended(k + 1)
    OBVIOUS
  <2> DEFINE m == k + 1
  <2>1. /\ m \in 1 .. n /\ m - 1 = k
        /\ Ended(k) \in Nat /\ \A l \in 0 .. k : Ended(l) <= Ended(k)
    BY <1>1
  <2>2. \A l \in 0 .. m : l = m \/ l \in 0 .. k
    BY <2>1
  <2> HIDE DEF m, Q
  <2>3. Ended(m) \in Nat /\ Ended(k) <= Ended(m)
    BY <1>2, <2>1
  <2>4. ASSUME NEW l \in 0 .. k PROVE Ended(l) \in Nat /\ Ended(l) <= Ended(m)
    <3>1. Ended(l) \in Nat
      <4>1. l = 0 \/ l \in 1 .. n
        BY <1>1, <2>1
      <4> QED BY <1>2, <4>1 DEF Ended
    <3>2. Ended(l) <= Ended(k)
      BY <2>1
    <3> QED BY <2>1, <2>3, <3>1, <3>2
  <2>5. \A l \in 0 .. m : Ended(l) <= Ended(m)
    BY <2>2, <2>3, <2>4
  <2> QED BY <2>3, <2>5 DEF m
<1>5. Q = Nat
  <2>1. Q \subseteq Nat
    OBVIOUS
  <2> HIDE DEF Q
  <2> QED BY <1>3, <1>4, <2>1, SetInduction
<1>6. j \in Q
  <2>1. j \in Nat
    BY <1>1
  <2> HIDE DEF Q
  <2> QED BY <1>5, <2>1
<1>7. j <= n
  BY <1>1 DEF n
<1> QED BY <1>6, <1>7
-----------------------------------------------------------------------------
(* The scan goes from frame to frame. *)

\* It is between the end of the last frame delivered and the next one's begin.
ScanOnLine ==
  LET k == Len(delivered)
  IN  /\ k <= Len(sent)
      /\ Ended(k) <= Position
      /\ k < Len(sent) => Position <= Start(k + 1)
      /\ \A i \in 1 .. k : delivered[i].at = Start(i)

LEMMA Counts ==
  ASSUME TypeOK, SentOnLine
  PROVE  Len(delivered) \in Nat /\ Len(sent) \in Nat /\ WireLen \in Nat
<1>1. delivered \in Seq([at : Nat, payload : Payloads])
  BY DEF TypeOK
<1> QED BY <1>1, LenProperties DEF SentOnLine

\* There an SOF begins the next frame.
LEMMA SOFStartsFrame ==
  ASSUME SentOnLine, NEW k \in 0 .. Len(sent), NEW p \in Nat, p < WireLen,
         Ended(k) <= p, k < Len(sent) => p <= Start(k + 1), wire[p] = FrameSOF
  PROVE  k < Len(sent) /\ p = Start(k + 1)
<1>1. Len(sent) \in Nat
  BY LenProperties DEF SentOnLine
<1>2. Ended(k) \in Nat
  <2>1. CASE k = 0
    BY <2>1 DEF Ended
  <2>2. CASE k # 0
    <3>1. k \in 1 .. Len(sent)
      BY <1>1, <2>2
    <3> QED BY <3>1, FramePlace
  <2> QED BY <2>1, <2>2
<1>3. k # Len(sent)
  <2> SUFFICES ASSUME k = Len(sent) PROVE FALSE
    OBVIOUS
  <2>1. p \in Ended(Len(sent)) .. WireLen - 1
    BY <1>2
  <2> QED BY <2>1 DEF SentOnLine
<1> DEFINE i == k + 1
<1>4. k < Len(sent) /\ i \in 1 .. Len(sent) /\ i - 1 = k /\ p <= Start(i)
  BY <1>1, <1>3
<1> HIDE DEF i
<1>5. Start(i) \in Nat
  BY <1>4, FramePlace
<1>6. p = Start(i)
  <2> SUFFICES ASSUME p # Start(i) PROVE FALSE
    OBVIOUS
  <2>1. p \in Ended(i - 1) .. Start(i) - 1
    BY <1>2, <1>4, <1>5
  <2>2. FrameOnLine(i)
    BY <1>4 DEF SentOnLine
  <2> QED BY <2>1, <2>2 DEF FrameOnLine
<1> QED BY <1>4, <1>6 DEF i

LEMMA LineQuiet ==
  ASSUME ScanOnLine, UNCHANGED sent, Position' = Position, delivered' = delivered
  PROVE  ScanOnLine'
BY DEF ScanOnLine, Ended, Start, Frame

LEMMA LineSkip ==
  ASSUME BufferInv, SentOnLine, ScanOnLine, SkipByte, UNCHANGED sent
  PROVE  ScanOnLine'
<1> DEFINE k == Len(delivered)
           n == Len(sent)
<1>1. TypeOK /\ BufferIsWireTail /\ k \in Nat /\ n \in Nat /\ WireLen \in Nat
  BY Counts DEF BufferInv
<1>2. /\ Position' = Position + 1 /\ Position \in Nat
      /\ wire' = wire /\ delivered' = delivered
  BY LiveBytes DEF SkipByte, Position, Size, inputVars, BufferInv, TypeOK
<1>3. /\ Size >= FrameSizeMin /\ (BadHeader \/ (FrameComplete /\ ~ChecksumGood))
      /\ Size \in Nat /\ Position + Size <= WireLen
  BY LiveBytes DEF SkipByte, BufferInv
<1>4. /\ k <= n /\ Ended(k) <= Position
      /\ k < n => Position <= Start(k + 1)
      /\ \A i \in 1 .. k : delivered[i].at = Start(i)
  BY DEF ScanOnLine
<1> HIDE DEF k, n
<1>5. ASSUME k < n PROVE Position # Start(k + 1) /\ Start(k + 1) \in Nat
  <2> DEFINE i == k + 1
  <2>1. i \in 1 .. n
    BY <1>1, <1>5
  <2> HIDE DEF i
  <2>2. Start(i) \in Nat /\ sent[i].end = Start(i) + Len(Frame(i))
        /\ Len(SentBody(i)) <= FramePayloadSizeMax
    BY <2>1, FramePlace DEF n
  <2>3. ASSUME Position = Start(i) PROVE FALSE
    <3>1. Start(i) + 4 <= WireLen
      BY <1>1, <1>2, <1>3, <2>3 DEF FrameSizeMin
    <3>2. /\ wire[Position] = FrameSOF
          /\ PayloadSize(wire, Position) = Len(SentBody(i))
          /\ FrameSize(wire, Position) = Len(Frame(i))
      BY <1>1, <2>1, <2>3, <3>1, FrameHeader DEF n
    <3>3. ~BadHeader
      <4>1. /\ buffer[index_begin] = wire[Position]
            /\ PayloadSize(buffer, index_begin) = PayloadSize(wire, Position)
        BY <1>1, <1>3, LiveHeader
      <4>2. Len(SentBody(i)) \in Nat /\ FramePayloadSizeMax \in Nat
        BY <2>1, FramePlace DEF n, FramePayloadSizeMax, FrameSizeMin
      <4> QED BY <2>2, <3>2, <4>1, <4>2 DEF BadHeader
    <3>4. FrameSize(wire, Position) <= Size
      BY <1>1, <1>3, <3>3, LiveChecksum
    <3>5. FrameSize(wire, Position) \in Nat
      BY <1>1, <1>3, LiveHeader
    <3>6. sent[i].end <= WireLen
      BY <1>1, <1>2, <1>3, <2>2, <2>3, <3>2, <3>4, <3>5
    <3>7. ValidFrameAt(Start(i))
      BY <1>1, <2>1, <3>6, FrameValid DEF n
    <3> QED BY <2>3, <3>7, SkipRefutes
  <2> QED BY <2>2, <2>3 DEF i
<1>6. Ended(k)' = Ended(k) /\ Start(k + 1)' = Start(k + 1)
      /\ \A i : Start(i)' = Start(i)
  BY <1>2 DEF Ended, Start, Frame, k
<1>7. Ended(k) \in Nat
  <2>1. k = 0 \/ k \in 1 .. n
    BY <1>1, <1>4
  <2>2. Ended(0) = 0
    BY DEF Ended
  <2> QED BY <2>1, <2>2, FramePlace DEF n
<1>8. /\ Ended(k) <= Position + 1
      /\ k < n => Position + 1 <= Start(k + 1)
  BY <1>2, <1>4, <1>5, <1>7
<1> QED BY <1>2, <1>4, <1>6, <1>8 DEF ScanOnLine, k, n

\* The frame found is the next one on the line.
LEMMA LineExtract ==
  ASSUME BufferInv, SentOnLine, ScanOnLine, ExtractFrame, UNCHANGED sent
  PROVE  LET k == Len(delivered)
         IN  /\ k + 1 \in 1 .. Len(sent) /\ Len(delivered') = k + 1
             /\ delivered'[k + 1].payload
                  = [x \in 0 .. Len(SentBody(k + 1)) - 1 |-> SentBody(k + 1)[x + 1]]
             /\ ScanOnLine'
<1> DEFINE k == Len(delivered)
           n == Len(sent)
           i == k + 1
           d == [at |-> Position,
                 payload |-> Slice(wire, Position + FramePayloadOffset,
                                   PayloadSize(wire, Position))]
<1>1. TypeOK /\ BufferIsWireTail /\ k \in Nat /\ n \in Nat /\ WireLen \in Nat
  BY Counts DEF BufferInv
<1>2. /\ ValidFrameAt(Position) /\ Position \in Nat /\ FrameSize(wire, Position) \in Nat
      /\ Position' = Position + FrameSize(wire, Position)
      /\ wire' = wire /\ delivered' = Append(delivered, d)
  BY ExtractValid
<1>3. /\ Position + 4 <= WireLen /\ wire[Position] = FrameSOF
      /\ Position + FrameSize(wire, Position) <= WireLen
  BY <1>2 DEF ValidFrameAt, FrameSizeMin
<1>4. /\ k <= n /\ Ended(k) <= Position
      /\ k < n => Position <= Start(k + 1)
      /\ \A j \in 1 .. k : delivered[j].at = Start(j)
  BY DEF ScanOnLine
<1>5. k < n /\ Position = Start(k + 1)
  <2>1. k \in 0 .. n /\ Position < WireLen
    BY <1>1, <1>2, <1>3, <1>4
  <2> QED BY <1>2, <1>3, <1>4, <2>1, SOFStartsFrame
<1>6. i \in 1 .. n /\ Position = Start(i)
  BY <1>1, <1>5
<1>7. /\ PayloadSize(wire, Position) = Len(SentBody(i))
      /\ FrameSize(wire, Position) = Len(Frame(i))
  BY <1>1, <1>3, <1>6, FrameHeader
<1>8. /\ sent[i].end = Start(i) + Len(Frame(i))
      /\ Ended(i) = sent[i].end /\ Ended(i) \in Nat
  BY <1>6, FramePlace
<1>9. sent[i].end <= WireLen /\ Position' = Ended(i)
  BY <1>2, <1>3, <1>6, <1>7, <1>8
<1>10. d.at = Start(i) /\ d.payload
         = [x \in 0 .. Len(SentBody(i)) - 1 |-> SentBody(i)[x + 1]]
  <2>1. Slice(wire, Start(i) + FramePayloadOffset, Len(SentBody(i)))
          = [x \in 0 .. Len(SentBody(i)) - 1 |-> SentBody(i)[x + 1]]
    BY <1>1, <1>6, <1>9, FrameValid
  <2> QED BY <1>6, <1>7, <2>1
<1> HIDE DEF d
<1>11. /\ Len(delivered') = i /\ delivered'[i] = d
       /\ \A j \in 1 .. k : delivered'[j] = delivered[j]
  <2>1. delivered \in Seq([at : Nat, payload : Payloads])
    BY <1>1 DEF TypeOK
  <2> DEFINE V == [at : Nat, payload : Payloads] \cup {d}
  <2>2. delivered \in Seq(V) /\ d \in V
    <3>1. [at : Nat, payload : Payloads] \subseteq V /\ d \in V
      OBVIOUS
    <3> HIDE DEF V
    <3> QED BY <2>1, <3>1, SeqWidens
  <2> HIDE DEF V
  <2> QED BY <1>2, <2>2, AppendProperties
<1>12. /\ i <= n /\ Ended(i) <= Position'
       /\ i < n => Position' <= Start(i + 1)
  <2>1. ASSUME i < n PROVE Ended(i) <= Start(i + 1)
    <3> DEFINE j == i + 1
    <3>1. j \in 1 .. n /\ j - 1 = i
      BY <1>1, <1>6, <2>1
    <3> HIDE DEF j
    <3>2. Ended(j - 1) <= Start(j)
      BY <3>1, FramePlace
    <3> QED BY <3>1, <3>2 DEF j
  <2> QED BY <1>6, <1>8, <1>9, <2>1
<1>13. \A j \in 1 .. i : delivered'[j].at = Start(j)
  <2> TAKE j \in 1 .. i
  <2>1. j = i \/ j \in 1 .. k
    BY <1>1
  <2> HIDE DEF i
  <2> QED BY <1>4, <1>10, <1>11, <2>1
<1> HIDE DEF i, k
<1>14. ScanOnLine'
  <2>1. \A j : Start(j)' = Start(j) /\ Ended(j)' = Ended(j)
    BY DEF Start, Ended, Frame
  <2>2. Len(delivered)' = i /\ Len(sent)' = n
    BY <1>11
  <2> QED BY <1>11, <1>12, <1>13, <2>1, <2>2 DEF ScanOnLine
<1> QED BY <1>6, <1>10, <1>11, <1>14 DEF i, k
-----------------------------------------------------------------------------
(* What the user has got. *)

LEMMA SmallRemainder ==
  ASSUME NEW m \in Nat \ {0}, NEW r \in Nat, r < m
  PROVE  r % m = r
  OBVIOUS

\* A frame's payload as the frame buffer delivers it.
Delivered(header, msgs) ==
  LET body == Body(header, msgs)
  IN  [x \in 0 .. Len(body) - 1 |-> body[x + 1]]

\* The message after the first j of a frame, as the parser reads it.
LEMMA MsgHere ==
  ASSUME NEW header \in Headers, NEW msgs \in Seq(Messages),
         NEW j \in Nat, j < Len(msgs)
  PROVE  LET p == Delivered(header, msgs)
             o == MsgAt(msgs, j)
             m == msgs[j + 1]
         IN  /\ m \in Messages /\ o \in Nat /\ p[o] = m.id
             /\ MsgPayloadSize(p, o) = Len(m.raw)
             /\ o + MsgHeaderSize <= Len(Body(header, msgs))
             /\ o + MsgSize(p, o) <= Len(Body(header, msgs))
             /\ MsgAt(msgs, j + 1) = o + MsgSize(p, o)
             /\ [k \in 1 .. MsgPayloadSize(p, o) |-> p[o + MsgHeaderSize + k - 1]] = m.raw
<1> DEFINE o == MsgAt(msgs, j)
           i == j + 1
           m == msgs[i]
           body == Body(header, msgs)
           l == Len(body)
           b == MsgBytes(m)
           r == Len(m.raw)
           p == Delivered(header, msgs)
<1>1. /\ i \in 1 .. Len(msgs) /\ i - 1 = j /\ j \in 0 .. Len(msgs) /\ i \in 0 .. Len(msgs)
      /\ m \in Messages
  <2>1. Len(msgs) \in Nat
    BY LenProperties
  <2>2. /\ i \in 1 .. Len(msgs) /\ i - 1 = j
        /\ j \in 0 .. Len(msgs) /\ i \in 0 .. Len(msgs)
    BY <2>1
  <2> HIDE DEF i
  <2>3. m \in Messages
    BY <2>2, ElementOfSeq
  <2> QED BY <2>2, <2>3
<1>2. body \in Seq(Byte) /\ l \in Nat
  BY BodyLayout, LenProperties
<1>3. /\ o \in Nat /\ MsgAt(msgs, i) \in Nat /\ MsgAt(msgs, i) <= l
      /\ MsgAt(msgs, i) = o + Len(b)
      /\ \A x \in 1 .. Len(b) : body[o + x] = b[x]
  <2>1. /\ \A x \in 0 .. Len(msgs) : MsgAt(msgs, x) \in Nat /\ MsgAt(msgs, x) <= l
        /\ \A x \in 1 .. Len(msgs) :
             /\ MsgAt(msgs, x) = MsgAt(msgs, x - 1) + Len(MsgBytes(msgs[x]))
             /\ \A y \in 1 .. Len(MsgBytes(msgs[x])) :
                  body[MsgAt(msgs, x - 1) + y] = MsgBytes(msgs[x])[y]
    BY BodyLayout
  <2> HIDE DEF i, body
  <2> QED BY <1>1, <2>1
<1>4. /\ r \in Nat /\ r < MsgSizeBase /\ Len(b) = 2 + r /\ b[1] = m.id /\ b[2] = r
      /\ m.raw \in Seq(Byte) /\ \A k \in 1 .. r : b[2 + k] = m.raw[k]
  BY <1>1, MsgLayout DEF MsgHeaderSize
<1> HIDE DEF b, m, body, o, r, l, p
<1>5. ASSUME NEW x \in 1 .. 2 + r PROVE p[o + x - 1] = b[x]
  <2> DEFINE y == o + x - 1
  <2>1. y \in 0 .. l - 1 /\ y + 1 = o + x /\ x \in 1 .. Len(b)
    BY <1>2, <1>3, <1>4
  <2> HIDE DEF y
  <2>2. p[y] = body[y + 1]
    BY <2>1 DEF body, l, p, Delivered
  <2> QED BY <1>3, <2>1, <2>2 DEF y
<1>6. p[o] = m.id /\ p[o + 1] = r
  <2>1. 1 \in 1 .. 2 + r /\ 2 \in 1 .. 2 + r /\ o + 1 - 1 = o /\ o + 2 - 1 = o + 1
    BY <1>3, <1>4
  <2> QED BY <1>4, <1>5, <2>1
<1>7. MsgPayloadSize(p, o) = r
  <2>1. MsgSizeBase \in Nat \ {0}
    OBVIOUS
  <2>2. r % MsgSizeBase = r
    BY <1>4, <2>1, SmallRemainder
  <2> QED BY <1>6, <2>2 DEF MsgPayloadSize
<1>8. MsgSize(p, o) = 2 + r
  BY <1>7 DEF MsgSize, MsgHeaderSize
<1>9. ASSUME NEW k \in 1 .. r PROVE p[o + 2 + k - 1] = m.raw[k]
  <2> DEFINE x == 2 + k
  <2>1. x \in 1 .. 2 + r /\ o + x - 1 = o + 2 + k - 1
    BY <1>3, <1>4
  <2> HIDE DEF x
  <2>2. p[o + x - 1] = b[x]
    BY <1>5, <2>1
  <2> QED BY <1>4, <2>1, <2>2 DEF x
<1>10. [k \in 1 .. r |-> p[o + 2 + k - 1]] = m.raw
  <2>1. m.raw = [k \in 1 .. r |-> m.raw[k]]
    BY <1>4, LenProperties DEF r
  <2> QED BY <1>9, <2>1
<1>11. o + 2 <= l /\ o + (2 + r) <= l
  BY <1>2, <1>3, <1>4
<1> QED BY <1>1, <1>3, <1>4, <1>6, <1>7, <1>8, <1>10, <1>11
        DEF MsgHeaderSize, m, o, r, l, body, p

\* The messages known among the first of a frame, and those of the first frames.
Picks(msgs) ==
  [i \in DOMAIN msgs |->
     IF msgs[i].id \in DOMAIN BuiltIn THEN <<msgs[i]>> ELSE <<>>]

FrameParts ==
  [i \in DOMAIN sent |->
     IF sent[i].header \in Accepted THEN Known(sent[i].msgs) ELSE <<>>]

LEMMA KnownStep ==
  ASSUME NEW msgs \in Seq(Messages)
  PROVE  /\ Joined(Picks(msgs), 0) = <<>>
         /\ Joined(Picks(msgs), Len(msgs)) = Known(msgs)
         /\ \A j \in 0 .. Len(msgs) : Joined(Picks(msgs), j) \in Seq(Messages)
         /\ \A j \in 1 .. Len(msgs) :
              Joined(Picks(msgs), j)
                = Joined(Picks(msgs), j - 1)
                    \o IF msgs[j].id \in DOMAIN BuiltIn THEN <<msgs[j]>> ELSE <<>>
<1> HIDE FormatAssumption, WireLenAssumption, MsgAssumption, LinkAssumption
<1> DEFINE s == Picks(msgs)
           n == Len(msgs)
           pick(j) == IF msgs[j].id \in DOMAIN BuiltIn THEN <<msgs[j]>> ELSE <<>>
<1>1. n \in Nat /\ \A j \in 1 .. n : msgs[j] \in Messages
  BY LenProperties, ElementOfSeq
<1>2. \A j \in 1 .. n : pick(j) \in Seq(Messages)
  BY <1>1
<1>3. s = [j \in 1 .. n |-> pick(j)]
  BY LenProperties DEF Picks
<1>4. Known(msgs) = Flatten(s)
  BY DEF Known, Picks
<1> HIDE DEF s, n, pick
<1>5. s \in Seq(Seq(Messages)) /\ Len(s) = n
  <2>1. s \in [1 .. n -> Seq(Messages)]
    BY <1>2, <1>3
  <2>2. s \in Seq(Seq(Messages))
    BY <1>1, <2>1, SeqDef
  <2>3. DOMAIN s = 1 .. n
    BY <2>1
  <2> QED BY <1>1, <2>2, <2>3, LenProperties
<1>6. /\ Joined(s, 0) = <<>> /\ Joined(s, Len(s)) = Flatten(s)
      /\ \A j \in 0 .. Len(s) : Joined(s, j) \in Seq(Messages)
      /\ \A j \in 1 .. Len(s) : Joined(s, j) = Joined(s, j - 1) \o s[j]
  BY <1>5, JoinedStep
<1>7. \A j \in 1 .. n : s[j] = pick(j)
  BY <1>3
<1>8. \A j \in 1 .. n : Joined(s, j) = Joined(s, j - 1) \o pick(j)
  BY <1>5, <1>6, <1>7
<1> QED BY <1>4, <1>5, <1>6, <1>8 DEF s, n, pick

LEMMA FramesStep ==
  ASSUME SentOnLine
  PROVE  /\ FrameParts \in Seq(Seq(Messages)) /\ Len(FrameParts) = Len(sent)
         /\ Joined(FrameParts, 0) = <<>>
         /\ \A j \in 0 .. Len(sent) : Joined(FrameParts, j) \in Seq(Messages)
         /\ \A j \in 1 .. Len(sent) :
              Joined(FrameParts, j)
                = Joined(FrameParts, j - 1)
                    \o IF sent[j].header \in Accepted THEN Known(sent[j].msgs) ELSE <<>>
<1> DEFINE s == FrameParts
           n == Len(sent)
           part(j) == IF sent[j].header \in Accepted THEN Known(sent[j].msgs) ELSE <<>>
<1>1. n \in Nat
  BY LenProperties DEF SentOnLine
<1>2. ASSUME NEW j \in 1 .. n PROVE part(j) \in Seq(Messages)
  <2>1. sent[j].msgs \in Seq(Messages)
    BY <1>2, FramePlace
  <2> DEFINE msgs == sent[j].msgs
             l == Len(msgs)
  <2>2. l \in Nat
    BY <2>1, LenProperties
  <2>3. l \in 0 .. l
    BY <2>2
  <2> HIDE DEF msgs
  <2>4. Known(msgs) \in Seq(Messages)
    BY <2>1, <2>3, KnownStep DEF msgs
  <2>5. <<>> \in Seq(Messages)
    OBVIOUS
  <2> QED BY <2>4, <2>5 DEF msgs
<1>3. s = [j \in 1 .. n |-> part(j)]
  BY LenProperties DEF FrameParts, SentOnLine
<1> HIDE DEF s, n, part
<1>5. s \in Seq(Seq(Messages)) /\ Len(s) = n
  <2>1. s \in [1 .. n -> Seq(Messages)]
    BY <1>2, <1>3
  <2>2. s \in Seq(Seq(Messages))
    BY <1>1, <2>1, SeqDef
  <2>3. DOMAIN s = 1 .. n
    BY <2>1
  <2> QED BY <1>1, <2>2, <2>3, LenProperties
<1>6. /\ Joined(s, 0) = <<>>
      /\ \A j \in 0 .. Len(s) : Joined(s, j) \in Seq(Messages)
      /\ \A j \in 1 .. Len(s) : Joined(s, j) = Joined(s, j - 1) \o s[j]
  BY <1>5, JoinedStep
<1>7. \A j \in 1 .. n : s[j] = part(j)
  BY <1>3
<1>8. \A j \in 1 .. n : Joined(s, j) = Joined(s, j - 1) \o part(j)
  BY <1>5, <1>6, <1>7
<1> QED BY <1>5, <1>6, <1>8 DEF s, n, part

\* What ends in nothing is what it begins with.
LEMMA FlattenCut ==
  ASSUME NEW V, NEW s \in Seq(Seq(V)), NEW t \in Seq(Seq(V)), Len(t) = Len(s),
         NEW k \in 0 .. Len(s), \A i \in 1 .. k : t[i] = s[i],
         \A i \in k + 1 .. Len(s) : t[i] = <<>>
  PROVE  Flatten(t) = Joined(s, k)
<1> DEFINE n == Len(s)
           Cut(m) == IF m <= k THEN m ELSE k
           Q == {m \in Nat : m <= n => Joined(t, m) = Joined(s, Cut(m))}
<1>1. n \in Nat /\ Len(t) = n /\ k \in 0 .. n
  BY LenProperties
<1>2. /\ Joined(s, 0) = <<>>
      /\ \A m \in 0 .. n : Joined(s, m) \in Seq(V)
      /\ \A m \in 1 .. n : Joined(s, m) = Joined(s, m - 1) \o s[m]
  BY JoinedStep
<1>3. /\ Joined(t, 0) = <<>> /\ Joined(t, n) = Flatten(t)
      /\ \A m \in 1 .. n : Joined(t, m) = Joined(t, m - 1) \o t[m]
  BY <1>1, JoinedStep
<1> HIDE DEF n
<1>4. 0 \in Q
  BY <1>1, <1>2, <1>3
<1>5. ASSUME NEW m \in Q PROVE m + 1 \in Q
  <2> SUFFICES ASSUME m + 1 <= n PROVE Joined(t, m + 1) = Joined(s, Cut(m + 1))
    OBVIOUS
  <2> DEFINE j == m + 1
  <2>1. /\ j \in 1 .. n /\ j - 1 = m /\ Joined(t, m) = Joined(s, Cut(m))
        /\ Cut(m) \in 0 .. n
    BY <1>1
  <2>2. CASE j <= k
    <3>1. Cut(j) = j /\ Cut(m) = m /\ j \in 1 .. k
      BY <1>1, <2>1, <2>2
    <3> HIDE DEF j, Q, Cut
    <3>2. t[j] = s[j]
      BY <3>1
    <3>3. Joined(t, j) = Joined(s, j)
      BY <1>2, <1>3, <2>1, <3>1, <3>2
    <3> QED BY <3>1, <3>3 DEF j
  <2>3. CASE ~(j <= k)
    <3>1. Cut(j) = k /\ Cut(m) = k /\ j \in k + 1 .. n
      BY <1>1, <2>1, <2>3
    <3> HIDE DEF j, Q, Cut
    <3>2. t[j] = <<>>
      BY <3>1 DEF n
    <3>3. Joined(s, k) \in Seq(V)
      BY <1>1, <1>2
    <3>4. Joined(s, k) \o <<>> = Joined(s, k)
      BY <3>3
    <3> QED BY <1>3, <2>1, <3>1, <3>2, <3>4 DEF j
  <2> QED BY <2>2, <2>3
<1>6. Q = Nat
  <2>1. Q \subseteq Nat
    OBVIOUS
  <2> HIDE DEF Q
  <2> QED BY <1>4, <1>5, <2>1, SetInduction
<1>7. n \in Q
  <2> HIDE DEF Q
  <2> QED BY <1>1, <1>6
<1>8. Cut(n) = k
  BY <1>1
<1> QED BY <1>1, <1>3, <1>7, <1>8

\* The payload of the i-th frame.
PayloadOf(i) == Delivered(sent[i].header, sent[i].msgs)

\* The parser is after the first messages of the k-th frame, an accepted one.
Reading(k) ==
  /\ k \in 1 .. Len(sent) /\ sent[k].header \in Accepted
  /\ payload = PayloadOf(k)
  /\ \E j \in 0 .. Len(sent[k].msgs) :
       /\ offset = MsgAt(sent[k].msgs, j)
       /\ received = Joined(FrameParts, k - 1) \o Joined(Picks(sent[k].msgs), j)

ReceiverInv ==
  /\ registered = {"begin", "msg", "end"} /\ hooked = FALSE
  /\ \E V : calls \in Seq(V)
  /\ parsing => Reading(Len(delivered))
  /\ ~parsing => received = Joined(FrameParts, Len(delivered))

LEMMA ReceiverQuiet ==
  ASSUME ReceiverInv, UNCHANGED <<parserVars, sent, received>>,
         delivered' = delivered
  PROVE  ReceiverInv'
<1>1. UNCHANGED <<registered, hooked, payload, offset, parsing, calls, sent, received>>
  BY DEF parserVars
<1>2. FrameParts' = FrameParts
  BY <1>1 DEF FrameParts
<1>3. \A k : PayloadOf(k)' = PayloadOf(k)
  BY <1>1 DEF PayloadOf, SentBody
<1>4. Reading(Len(delivered))' <=> Reading(Len(delivered))
  BY <1>1, <1>2, <1>3 DEF Reading
<1> QED BY <1>1, <1>2, <1>4 DEF ReceiverInv

LEMMA IntervalCount ==
  ASSUME NEW n \in Nat
  PROVE  Cardinality(0 .. n - 1) = n
  BY FS_Interval

\* The parser's operators are those of the format and of the library.
LEMMA ParserFormat ==
  /\ \A f, o : Parser!MsgSize(f, o) = MsgSize(f, o)
  /\ Parser!MsgHeaderSize = MsgHeaderSize
BY DEF Parser!MsgSize, MsgSize, Parser!MsgHeaderSize, MsgHeaderSize,
       Parser!MsgPayloadSize, MsgPayloadSize

LEMMA ParserCount == \A S : Parser!Cardinality(S) = Cardinality(S)
BY DEF Parser!Cardinality, Cardinality

LEMMA ReceiverFrame ==
  ASSUME BufferInv, SentOnLine, ScanOnLine, ReceiverInv, FrameStep
  PROVE  ReceiverInv'
<1> DEFINE k == Len(delivered)
           i == k + 1
           p == PayloadOf(i)
           l == Len(SentBody(i))
<1>1. /\ ~parsing /\ ExtractFrame /\ UNCHANGED sent /\ received' = received
      /\ k \in Nat
  BY Counts DEF FrameStep, BufferInv
<1>2. i \in 1 .. Len(sent) /\ Len(delivered') = i /\ delivered'[i].payload = p
  BY <1>1, LineExtract DEF PayloadOf, Delivered, SentBody
<1>3. /\ Parser!OnFrame(p)
      /\ calls' # <<>> =>
           calls'[1].accept = ([x \in 1 .. HeaderSize |-> p[x - 1]] \in Accepted)
  BY <1>2 DEF FrameStep
<1>4. /\ sent[i].header \in Headers /\ sent[i].msgs \in Seq(Messages) /\ l \in Nat
  BY <1>2, FramePlace
<1>5. /\ \A x \in 1 .. HeaderSize : SentBody(i)[x] = sent[i].header[x]
      /\ HeaderSize <= l /\ MsgAt(sent[i].msgs, 0) = HeaderSize
  <2> DEFINE header == sent[i].header
             msgs == sent[i].msgs
             n == Len(msgs)
  <2>1. n \in Nat
    BY <1>4, LenProperties
  <2>2. 0 \in 0 .. n
    BY <2>1
  <2> HIDE DEF header, msgs
  <2>3. /\ \A x \in 1 .. HeaderSize : Body(header, msgs)[x] = header[x]
        /\ MsgAt(msgs, 0) = HeaderSize /\ MsgAt(msgs, 0) <= Len(Body(header, msgs))
    BY <1>4, <2>2, BodyLayout DEF header, msgs
  <2> QED BY <2>3 DEF SentBody, header, msgs
<1>6. [x \in 1 .. HeaderSize |-> p[x - 1]] = sent[i].header
  <2>1. ASSUME NEW x \in 1 .. HeaderSize PROVE p[x - 1] = sent[i].header[x]
    <3> DEFINE y == x - 1
    <3>1. y \in 0 .. l - 1 /\ y + 1 = x
      BY <1>4, <1>5
    <3> HIDE DEF y
    <3>2. p[y] = SentBody(i)[y + 1]
      BY <3>1 DEF PayloadOf, Delivered, SentBody
    <3> QED BY <1>5, <3>1, <3>2 DEF y
  <2>2. sent[i].header = [x \in 1 .. HeaderSize |-> sent[i].header[x]]
    BY <1>4
  <2> HIDE DEF p
  <2> QED BY <2>1, <2>2
<1>7. Cardinality(DOMAIN p) = l
  <2>1. DOMAIN p = 0 .. l - 1
    BY DEF PayloadOf, Delivered, SentBody
  <2> HIDE DEF p, l
  <2>2. Cardinality(0 .. l - 1) = l
    BY <1>4, IntervalCount
  <2> QED BY <2>1, <2>2
<1> HIDE DEF p, l
<1>8. /\ payload' = p /\ offset' = HeaderSize
      /\ registered' = registered /\ hooked' = hooked
  BY <1>3 DEF Parser!OnFrame
<1>9. PICK accept \in BOOLEAN :
        /\ parsing' = ("begin" \in registered => accept)
        /\ calls' = Parser!Call("begin", Parser!BeginRecord(p, accept))
  <2>1. ~(Cardinality(DOMAIN p) < HeaderSize)
    BY <1>4, <1>5, <1>7
  <2> QED BY <1>3, <2>1, ParserCount DEF Parser!OnFrame
<1>10. /\ parsing' = accept
       /\ calls' = <<Parser!BeginRecord(p, accept)>>
       /\ Parser!BeginRecord(p, accept).accept = accept
  BY <1>9 DEF ReceiverInv, Parser!Call, Parser!BeginRecord
<1>11. parsing' = (sent[i].header \in Accepted)
  <2> DEFINE record == Parser!BeginRecord(p, accept)
  <2>1. calls' # <<>> /\ calls'[1] = record
    BY <1>10
  <2> HIDE DEF record
  <2> QED BY <1>3, <1>6, <1>10, <2>1 DEF record
<1>12. \E V : calls' \in Seq(V)
  <2> DEFINE record == Parser!BeginRecord(p, accept)
  <2>1. calls' = <<record>>
    BY <1>10
  <2> HIDE DEF record
  <2>2. calls' \in Seq({record})
    BY <2>1
  <2> QED BY <2>2
<1>13. FrameParts' = FrameParts /\ \A x : PayloadOf(x)' = PayloadOf(x)
  BY <1>1 DEF FrameParts, PayloadOf, SentBody
<1>14. /\ i - 1 = k /\ i \in 0 .. Len(sent)
       /\ received = Joined(FrameParts, k) /\ received \in Seq(Messages)
       /\ Joined(FrameParts, i)
            = received \o IF sent[i].header \in Accepted
                          THEN Known(sent[i].msgs) ELSE <<>>
  <2>1. i - 1 = k /\ i \in 0 .. Len(sent) /\ k \in 0 .. Len(sent)
    BY <1>1, <1>2
  <2>2. received = Joined(FrameParts, k)
    BY <1>1 DEF ReceiverInv
  <2> HIDE DEF k, i
  <2> QED BY <1>2, <2>1, <2>2, FramesStep
<1> HIDE DEF k, i
<1>15. CASE sent[i].header \in Accepted
  <2> DEFINE msgs == sent[i].msgs
             n == Len(msgs)
  <2>1. n \in Nat /\ msgs \in Seq(Messages)
    BY <1>4, LenProperties
  <2>2. 0 \in 0 .. n
    BY <2>1
  <2> HIDE DEF msgs
  <2>3. Joined(Picks(msgs), 0) = <<>>
    BY <2>1, KnownStep
  <2>4. received \o <<>> = received
    BY <1>14
  <2>5. /\ offset' = MsgAt(msgs, 0)
        /\ received' = Joined(FrameParts, i - 1) \o Joined(Picks(msgs), 0)
    BY <1>1, <1>5, <1>8, <1>14, <2>3, <2>4 DEF msgs
  <2>6. Reading(Len(delivered))'
    BY <1>1, <1>2, <1>8, <1>13, <1>15, <2>2, <2>5 DEF Reading, msgs, p
  <2>7. registered' = {"begin", "msg", "end"} /\ hooked' = FALSE /\ parsing'
    BY <1>8, <1>11, <1>15 DEF ReceiverInv
  <2> QED BY <1>12, <2>6, <2>7 DEF ReceiverInv
<1>16. CASE sent[i].header \notin Accepted
  <2>1. received \o <<>> = received
    BY <1>14
  <2>2. received' = Joined(FrameParts, i)
    BY <1>1, <1>14, <1>16, <2>1
  <2> QED BY <1>2, <1>8, <1>11, <1>12, <1>13, <1>16, <2>2 DEF ReceiverInv
<1> QED BY <1>15, <1>16

\* What the parser does in the k-th frame, after its first j messages.
LEMMA ParserAt ==
  ASSUME SentOnLine, NEW k \in 1 .. Len(sent), payload = PayloadOf(k),
         NEW j \in 0 .. Len(sent[k].msgs), offset = MsgAt(sent[k].msgs, j)
  PROVE  /\ sent[k].msgs \in Seq(Messages) /\ Len(sent[k].msgs) \in Nat
         /\ Parser!MessageAtOffset <=> j < Len(sent[k].msgs)
         /\ j < Len(sent[k].msgs) =>
              LET m == sent[k].msgs[j + 1]
              IN  /\ m \in Messages /\ payload[offset] = m.id
                  /\ MsgAt(sent[k].msgs, j + 1) = offset + Parser!MsgSize(payload, offset)
                  /\ [x \in 1 .. MsgPayloadSize(payload, offset) |->
                        payload[offset + MsgHeaderSize + x - 1]] = m.raw
<1> DEFINE header == sent[k].header
           msgs == sent[k].msgs
           n == Len(msgs)
           l == Len(Body(header, msgs))
<1>1. header \in Headers /\ msgs \in Seq(Messages) /\ l \in Nat /\ n \in Nat
  BY FramePlace, LenProperties DEF SentBody
<1>2. payload = Delivered(header, msgs)
  BY DEF PayloadOf
<1>3. Parser!Length = l
  <2>1. DOMAIN payload = 0 .. l - 1
    BY <1>2 DEF Delivered
  <2>2. l \in Nat
    BY <1>1
  <2> HIDE DEF l
  <2>3. Cardinality(0 .. l - 1) = l
    BY <2>2, IntervalCount
  <2> QED BY <2>1, <2>3, ParserCount DEF Parser!Length
<1>4. j \in 0 .. n /\ offset = MsgAt(msgs, j)
  OBVIOUS
<1> HIDE DEF header, msgs
<1>5. ASSUME j < n
      PROVE  LET m == msgs[j + 1]
             IN  /\ m \in Messages /\ payload[offset] = m.id
                 /\ Parser!MessageAtOffset
                 /\ MsgAt(msgs, j + 1) = offset + Parser!MsgSize(payload, offset)
                 /\ [x \in 1 .. MsgPayloadSize(payload, offset) |->
                       payload[offset + MsgHeaderSize + x - 1]] = m.raw
  <2>1. j \in Nat
    BY <1>4
  <2> DEFINE p == Delivered(header, msgs)
  <2>2. LET o == MsgAt(msgs, j)
            m == msgs[j + 1]
        IN  /\ m \in Messages /\ p[o] = m.id
            /\ o + MsgHeaderSize <= Len(Body(header, msgs))
            /\ o + MsgSize(p, o) <= Len(Body(header, msgs))
            /\ MsgAt(msgs, j + 1) = o + MsgSize(p, o)
            /\ [x \in 1 .. MsgPayloadSize(p, o) |->
                  p[o + MsgHeaderSize + x - 1]] = m.raw
    BY <1>1, <1>5, <2>1, MsgHere
  <2> HIDE DEF p
  <2>3. payload = p
    BY <1>2 DEF p
  <2> QED BY <1>3, <1>4, <2>2, <2>3, ParserFormat DEF Parser!MessageAtOffset
<1>6. ASSUME ~(j < n) PROVE ~Parser!MessageAtOffset
  <2>1. j = n
    BY <1>1, <1>4, <1>6
  <2>2. MsgAt(msgs, n) = l
    BY <1>1, BodyLayout
  <2>3. ~(l + 2 <= l)
    BY <1>1
  <2> QED BY <1>3, <1>4, <2>1, <2>2, <2>3, ParserFormat
          DEF Parser!MessageAtOffset, MsgHeaderSize
<1> QED BY <1>1, <1>5, <1>6 DEF msgs

LEMMA AppendToLast ==
  ASSUME NEW V, NEW s \in Seq(V), NEW t \in Seq(V), NEW e \in V
  PROVE  Append(s \o t, e) = s \o (t \o <<e>>)
<1> HIDE FormatAssumption, WireLenAssumption, MsgAssumption, LinkAssumption
<1> DEFINE last == <<e>>
<1>1. s \o t \in Seq(V) /\ last \in Seq(V)
  BY ConcatProperties
<1>2. Append(s \o t, e) = (s \o t) \o last
  BY <1>1, AppendIsConcat
<1> HIDE DEF last
<1>3. (s \o t) \o last = s \o (t \o last)
  BY <1>1, ConcatAssociative
<1> QED BY <1>2, <1>3 DEF last

LEMMA ReceiverMsg ==
  ASSUME SentOnLine, ReceiverInv, MsgStep
  PROVE  ReceiverInv'
<1> HIDE MsgAssumption, LinkAssumption
<1> DEFINE k == Len(delivered)
           msgs == sent[k].msgs
           n == Len(msgs)
           before == Joined(FrameParts, k - 1)
<1>1. /\ parsing /\ Parser!MessageAtOffset
      /\ offset' = offset + Parser!MsgSize(payload, offset)
      /\ calls' = calls \o Parser!MsgCall
      /\ UNCHANGED <<registered, hooked, payload, parsing, vars, sent>>
      /\ received' = IF calls' = calls THEN received
                     ELSE Append(received,
                            [id |-> payload[offset],
                             raw |-> [x \in 1 .. MsgPayloadSize(payload, offset) |->
                                        payload[offset + MsgHeaderSize + x - 1]]])
  BY DEF MsgStep, Parser!OnMsg
<1>2. Reading(k)
  BY <1>1 DEF ReceiverInv
<1>3. PICK j \in 0 .. n :
        /\ offset = MsgAt(msgs, j)
        /\ received = before \o Joined(Picks(msgs), j)
  BY <1>2 DEF Reading
<1>4. k \in 1 .. Len(sent) /\ payload = PayloadOf(k)
  BY <1>2 DEF Reading
<1> HIDE DEF k
<1> DEFINE m == msgs[j + 1]
<1>5. msgs \in Seq(Messages) /\ n \in Nat /\ j < n
  BY <1>1, <1>3, <1>4, ParserAt
<1>6. /\ m \in Messages /\ payload[offset] = m.id
      /\ MsgAt(msgs, j + 1) = offset + Parser!MsgSize(payload, offset)
      /\ [x \in 1 .. MsgPayloadSize(payload, offset) |->
            payload[offset + MsgHeaderSize + x - 1]] = m.raw
  BY <1>3, <1>4, <1>5, ParserAt
<1>7. m.id \in DOMAIN BuiltIn => BuiltIn[m.id] \in Nat
  BY LinkAssumption
<1>8. m = [id |-> m.id, raw |-> m.raw]
  BY <1>6, MsgLayout
<1>9. j + 1 \in 1 .. n /\ j + 1 \in 0 .. n /\ j + 1 - 1 = j /\ j \in 0 .. n
  BY <1>3, <1>5
<1>10. /\ Joined(Picks(msgs), j) \in Seq(Messages)
       /\ Joined(Picks(msgs), j + 1)
            = Joined(Picks(msgs), j)
                \o IF m.id \in DOMAIN BuiltIn THEN <<m>> ELSE <<>>
  <2> DEFINE i == j + 1
  <2>1. i \in 1 .. n /\ i - 1 = j
    BY <1>9
  <2> HIDE DEF i, msgs, m
  <2>2. Joined(Picks(msgs), i)
          = Joined(Picks(msgs), i - 1)
              \o IF msgs[i].id \in DOMAIN BuiltIn THEN <<msgs[i]>> ELSE <<>>
    BY <1>5, <2>1, KnownStep
  <2>3. Joined(Picks(msgs), j) \in Seq(Messages)
    BY <1>5, <1>9, KnownStep
  <2> QED BY <2>1, <2>2, <2>3 DEF i, m
<1>11. before \in Seq(Messages)
  <2>1. k - 1 \in 0 .. Len(sent)
    BY <1>4, FramesStep, LenProperties DEF SentOnLine
  <2> QED BY <2>1, FramesStep
<1> DEFINE got == Joined(Picks(msgs), j)
<1>12. PICK V : calls \in Seq(V)
  BY DEF ReceiverInv
<1>13. registered = {"begin", "msg", "end"} /\ hooked = FALSE
  BY DEF ReceiverInv
<1>14. /\ received' = before \o Joined(Picks(msgs), j + 1)
       /\ \E W : calls' \in Seq(W)
  <2>1. CASE m.id \in DOMAIN BuiltIn
    <3> DEFINE record == [kind |-> "msg", at |-> offset, id |-> m.id,
                          size |-> BuiltIn[m.id]]
    <3>1. Parser!MsgCall = <<record>>
      <4>1. Parser!Decoded(m.id) = BuiltIn[m.id] /\ BuiltIn[m.id] # Parser!Unknown
        BY <1>7, <2>1 DEF Parser!Decoded, Parser!Unknown
      <4> QED BY <1>6, <1>13, <4>1 DEF Parser!MsgCall, Parser!Call
    <3> HIDE DEF record
    <3>2. calls' \in Seq(V \cup {record}) /\ Len(calls') = Len(calls) + 1
      <4> DEFINE W == V \cup {record}
      <4>1. V \subseteq W /\ record \in W
        OBVIOUS
      <4> HIDE DEF W
      <4>2. calls \in Seq(W) /\ <<record>> \in Seq(W) /\ Len(<<record>>) = 1
        BY <1>12, <4>1, SeqWidens
      <4>3. calls \o <<record>> \in Seq(W)
            /\ Len(calls \o <<record>>) = Len(calls) + Len(<<record>>)
        BY <4>2, ConcatAt
      <4> QED BY <1>1, <3>1, <4>2, <4>3 DEF W
    <3>3. calls' # calls
      <4>1. Len(calls) \in Nat
        BY <1>12, LenProperties
      <4> QED BY <3>2, <4>1
    <3> HIDE DEF m, msgs, before, n
    <3>4. received' = Append(received, m)
      BY <1>1, <1>6, <1>8, <3>3
    <3>5. Append(before \o got, m) = before \o (got \o <<m>>)
      <4>1. before \in Seq(Messages) /\ got \in Seq(Messages) /\ m \in Messages
        BY <1>6, <1>10, <1>11
      <4> HIDE DEF got
      <4>2. \A s, t \in Seq(Messages), e \in Messages :
              Append(s \o t, e) = s \o (t \o <<e>>)
        BY AppendToLast
      <4> HIDE DEF before
      <4> QED BY <4>1, <4>2
    <3>6. Joined(Picks(msgs), j + 1) = got \o <<m>>
      BY <1>10, <2>1
    <3> QED BY <1>3, <3>2, <3>4, <3>5, <3>6
  <2>2. CASE m.id \notin DOMAIN BuiltIn
    <3>1. Parser!MsgCall = <<>>
      <4>1. Parser!Decoded(m.id) = Parser!Unknown
        BY <1>13, <2>2 DEF Parser!Decoded
      <4> QED BY <1>6, <4>1 DEF Parser!MsgCall
    <3>2. calls' = calls
      <4>1. calls \o <<>> = calls
        BY <1>12
      <4> QED BY <1>1, <3>1, <4>1
    <3> HIDE DEF m, msgs, before, n
    <3>3. received' = received
      BY <1>1, <3>2
    <3>4. Joined(Picks(msgs), j + 1) = got
      <4>1. got \o <<>> = got
        <5> HIDE DEF got
        <5> QED BY <1>10 DEF got
      <4> QED BY <1>10, <2>2, <4>1
    <3> QED BY <1>3, <1>12, <3>2, <3>3, <3>4
  <2> QED BY <2>1, <2>2
<1> HIDE DEF m, got
<1>15. UNCHANGED <<registered, hooked, payload, parsing, sent, delivered>>
  BY <1>1 DEF vars
<1>16. FrameParts' = FrameParts /\ PayloadOf(k)' = PayloadOf(k) /\ Len(delivered') = k
  BY <1>15 DEF FrameParts, PayloadOf, SentBody, k
<1>17. offset' = MsgAt(msgs, j + 1)
  BY <1>1, <1>6
<1>18. Reading(k)'
  <2>1. sent[k].header \in Accepted
    BY <1>2 DEF Reading
  <2>2. k' = k
    BY <1>16 DEF k
  <2> QED BY <1>4, <1>9, <1>14, <1>15, <1>16, <1>17, <2>1, <2>2 DEF Reading
<1>19. Reading(Len(delivered))'
  BY <1>18 DEF k
<1> QED BY <1>1, <1>13, <1>14, <1>15, <1>19 DEF ReceiverInv

LEMMA ReceiverEnd ==
  ASSUME SentOnLine, ReceiverInv, EndStep
  PROVE  ReceiverInv'
<1> DEFINE k == Len(delivered)
           msgs == sent[k].msgs
           n == Len(msgs)
<1>1. /\ parsing /\ ~Parser!MessageAtOffset /\ parsing' = FALSE
      /\ calls' = calls \o Parser!Call("end", [kind |-> "end"])
      /\ UNCHANGED <<registered, hooked, payload, offset, vars, sent, received>>
  BY DEF EndStep, Parser!OnEnd
<1>2. Reading(k)
  BY <1>1 DEF ReceiverInv
<1>3. PICK j \in 0 .. n :
        /\ offset = MsgAt(msgs, j)
        /\ received = Joined(FrameParts, k - 1) \o Joined(Picks(msgs), j)
  BY <1>2 DEF Reading
<1>4. k \in 1 .. Len(sent) /\ payload = PayloadOf(k) /\ sent[k].header \in Accepted
  BY <1>2 DEF Reading
<1> HIDE DEF k
<1>5. msgs \in Seq(Messages) /\ n \in Nat /\ ~(j < n)
  BY <1>1, <1>3, <1>4, ParserAt
<1>6. j = n
  BY <1>3, <1>5
<1>7. Joined(Picks(msgs), n) = Known(msgs)
  BY <1>5, KnownStep
<1>8. Joined(FrameParts, k) = Joined(FrameParts, k - 1) \o Known(msgs)
  BY <1>4, FramesStep
<1>9. received = Joined(FrameParts, k)
  BY <1>3, <1>6, <1>7, <1>8
<1>10. \E W : calls' \in Seq(W)
  <2> DEFINE record == [kind |-> "end"]
  <2> HIDE DEF record
  <2>1. PICK V : calls \in Seq(V)
    BY DEF ReceiverInv
  <2>2. calls' = calls \o <<record>>
    BY <1>1 DEF ReceiverInv, Parser!Call, record
  <2> DEFINE W == V \cup {record}
  <2>3. V \subseteq W /\ record \in W
    OBVIOUS
  <2> HIDE DEF W
  <2>4. calls \in Seq(W) /\ <<record>> \in Seq(W)
    BY <2>1, <2>3, SeqWidens
  <2>5. calls' \in Seq(W)
    BY <2>2, <2>4, ConcatAt
  <2> QED BY <2>5
<1>11. UNCHANGED <<registered, hooked, sent, delivered, received>>
  BY <1>1 DEF vars
<1>12. FrameParts' = FrameParts /\ Len(delivered)' = k
  BY <1>11 DEF FrameParts, k
<1> QED BY <1>1, <1>9, <1>10, <1>11, <1>12 DEF ReceiverInv
-----------------------------------------------------------------------------
(* What has arrived. *)

\* When a call has returned, the frames that have ended are those delivered.
LEMMA EndedDelivered ==
  ASSUME BufferInv, ScanInv, CompleteFramesDelivered, SentOnLine, ScanOnLine,
         pc = "idle", NEW i \in 1 .. Len(sent)
  PROVE  sent[i].end <= fed <=> i <= Len(delivered)
<1> HIDE FormatAssumption, MsgAssumption, LinkAssumption
<1> DEFINE k == Len(delivered)
           n == Len(sent)
<1>1. TypeOK /\ BufferIsWireTail /\ k \in Nat /\ n \in Nat /\ WireLen \in Nat
  BY Counts DEF BufferInv
<1>2. /\ Position \in Nat /\ Size \in Nat /\ Position + Size <= WireLen
      /\ Position <= fed /\ fed \in Nat /\ fed <= WireLen
  BY LiveBytes DEF BufferInv, TypeOK
<1>3. /\ i \in 1 .. n /\ k <= n /\ Ended(k) <= Position
      /\ k < n => Position <= Start(k + 1)
  BY DEF ScanOnLine
<1>4. /\ Start(i) \in Nat /\ sent[i].end = Start(i) + Len(Frame(i))
      /\ Len(Frame(i)) \in Nat /\ Len(Frame(i)) >= 4
      /\ Ended(i) = sent[i].end /\ Ended(i - 1) <= Start(i)
      /\ Ended(i - 1) \in Nat /\ Ended(i) \in Nat
  <2>1. Len(SentBody(i)) \in Nat /\ Len(Frame(i)) = Len(SentBody(i)) + 4
    BY FramePlace
  <2>2. Len(Frame(i)) \in Nat /\ Len(Frame(i)) >= 4
    BY <2>1
  <2> QED BY <2>2, FramePlace
<1> HIDE DEF k, n
<1>5. ASSUME i <= k PROVE sent[i].end <= fed
  <2>1. k \in 0 .. n /\ i \in 0 .. k
    BY <1>1, <1>3, <1>5
  <2>2. Ended(i) <= Ended(k)
    BY <2>1, FramesApart DEF n
  <2>3. Ended(k) \in Nat
    <3>1. k \in 1 .. n
      BY <1>1, <1>3, <1>5
    <3> QED BY <3>1, FramePlace DEF n
  <2>4. Ended(k) <= Position
    BY <1>3
  <2> QED BY <1>2, <1>4, <2>2, <2>3, <2>4
<1>6. ASSUME sent[i].end <= fed, ~(i <= k) PROVE FALSE
  <2> DEFINE p == Start(i)
             m == k + 1
  <2>1. sent[i].end <= WireLen
    BY <1>2, <1>4, <1>6
  <2>2. ValidFrameAt(p)
    BY <1>1, <2>1, FrameValid
  <2>3. FrameSize(wire, p) = Len(Frame(i))
    <3>1. Start(i) + 4 <= WireLen
      BY <1>1, <1>4, <2>1
    <3> QED BY <1>1, <3>1, FrameHeader
  <2>4. p \in 0 .. WireLen - 1 /\ p + FrameSize(wire, p) <= fed
    <3> DEFINE l == Len(Frame(i))
               e == sent[i].end
    <3>1. e = p + l /\ p \in Nat /\ l \in Nat /\ l >= 4 /\ e <= WireLen /\ e <= fed
      BY <1>4, <1>6, <2>1
    <3>2. FrameSize(wire, p) = l
      BY <2>3
    <3> HIDE DEF p, l, e
    <3> QED BY <1>1, <1>2, <3>1, <3>2
  <2>5. /\ m \in 1 .. n /\ m <= i /\ k < n /\ k \in 0 .. n /\ i \in 0 .. n
        /\ m \in 0 .. i /\ i - 1 \in 0 .. n /\ (m # i => m \in 0 .. i - 1)
    BY <1>1, <1>3, <1>6 DEF n
  <2> HIDE DEF p, m
  <2>6. /\ Start(m) \in Nat /\ Ended(m) = Start(m) + Len(Frame(m))
        /\ Len(Frame(m)) \in Nat /\ Ended(m) \in Nat
    <3>1. /\ Start(m) \in Nat /\ Ended(m) = Start(m) + Len(Frame(m))
          /\ Ended(m) \in Nat /\ Len(SentBody(m)) \in Nat
          /\ Len(Frame(m)) = Len(SentBody(m)) + 4
      BY <2>5, FramePlace DEF n
    <3> QED BY <3>1
  <2>7. Position <= Start(m) /\ Start(m) <= p
    <3>1. Position <= Start(m)
      <4>1. Position <= Start(k + 1)
        BY <1>3, <2>5
      <4> QED BY <4>1 DEF m
    <3>2. CASE m = i
      BY <1>4, <3>1, <3>2 DEF p
    <3>3. CASE m # i
      <4> DEFINE j == i - 1
      <4>1. j \in 0 .. n /\ m \in 0 .. j
        BY <2>5, <3>3
      <4> HIDE DEF j
      <4>2. Ended(m) <= Ended(j)
        BY <4>1, FramesApart DEF n
      <4>3. Ended(j) \in Nat /\ Ended(j) <= Start(i)
        BY <1>4 DEF j
      <4>4. Start(m) <= Start(i)
        BY <1>4, <2>6, <4>2, <4>3
      <4> QED BY <3>1, <4>4 DEF p
    <3> QED BY <3>2, <3>3
  <2>8. CASE \E j \in DOMAIN delivered : Covers(j, p)
    <3>1. PICK j \in DOMAIN delivered : Covers(j, p)
      BY <2>8
    <3> DEFINE at == delivered[j].at
               size == FrameSize(wire, delivered[j].at)
    <3>2. at \in Nat /\ size \in Nat /\ at + size <= Position
      BY DeliveredFrame
    <3>3. p < at + size
      BY <3>1 DEF Covers
    <3> HIDE DEF at, size
    <3> QED BY <1>2, <1>4, <2>6, <2>7, <3>2, <3>3 DEF p
  <2>9. CASE PendingCandidate /\ Position < p
    <3>1. /\ Size >= 4 /\ wire[Position] = FrameSOF
          /\ Position + FrameSize(wire, Position) > fed
      BY <2>9 DEF PendingCandidate, FrameSizeMin
    <3>2. Position < WireLen /\ Position + 4 <= WireLen
      BY <1>1, <1>2, <3>1
    <3>3. Position = Start(m)
      <4>1. /\ k \in 0 .. Len(sent) /\ Ended(k) <= Position
            /\ k < Len(sent) => Position <= Start(k + 1)
        BY <1>3, <2>5 DEF n
      <4>2. Position = Start(k + 1)
        BY <1>2, <3>1, <3>2, <4>1, SOFStartsFrame
      <4> QED BY <4>2 DEF m
    <3>4. FrameSize(wire, Position) = Len(Frame(m))
      BY <1>1, <2>5, <3>2, <3>3, FrameHeader DEF n
    <3>5. Ended(m) <= Ended(i)
      BY <2>5, FramesApart DEF n
    <3> DEFINE l == Len(Frame(m))
    <3>6. /\ Ended(m) = Start(m) + l /\ l \in Nat /\ Start(m) \in Nat
          /\ Start(m) + l > fed
      BY <2>6, <3>1, <3>3, <3>4
    <3> HIDE DEF l
    <3>7. Ended(i) \in Nat /\ Ended(i) <= fed /\ fed \in Nat
      BY <1>2, <1>4, <1>6
    <3> QED BY <3>5, <3>6, <3>7
  <2> QED BY <2>2, <2>4, <2>8, <2>9 DEF CompleteFramesDelivered
<1> QED BY <1>5, <1>6 DEF k

LEMMA ExpectedFrames ==
  ASSUME TypeOK, SentOnLine, Len(delivered) <= Len(sent),
         \A i \in 1 .. Len(sent) : sent[i].end <= fed <=> i <= Len(delivered)
  PROVE  Expected(fed) = Joined(FrameParts, Len(delivered))
<1> DEFINE k == Len(delivered)
           n == Len(sent)
           s == FrameParts
           t == [i \in 1 .. n |-> IF i <= k THEN s[i] ELSE <<>>]
<1>1. k \in 0 .. n /\ n \in Nat
  BY Counts
<1>2. s \in Seq(Seq(Messages)) /\ Len(s) = n
  BY FramesStep
<1>3. Expected(fed) = Flatten(t)
  <2>1. DOMAIN sent = 1 .. n
    BY LenProperties DEF SentOnLine
  <2>2. ASSUME NEW i \in 1 .. n
        PROVE  (IF sent[i].end <= fed /\ sent[i].header \in Accepted
                THEN Known(sent[i].msgs) ELSE <<>>)
                 = IF i <= k THEN s[i] ELSE <<>>
    BY <2>1 DEF FrameParts
  <2> HIDE DEF s, k, n
  <2>3. [i \in DOMAIN sent |->
           IF sent[i].end <= fed /\ sent[i].header \in Accepted
           THEN Known(sent[i].msgs) ELSE <<>>] = t
    BY <2>1, <2>2
  <2> QED BY <2>3 DEF Expected
<1> HIDE DEF s, k, n
<1>4. t \in Seq(Seq(Messages)) /\ Len(t) = n
  <2>1. \A i \in 1 .. n : s[i] \in Seq(Messages)
    BY <1>2, ElementOfSeq
  <2>2. <<>> \in Seq(Messages)
    OBVIOUS
  <2>3. t \in [1 .. n -> Seq(Messages)]
    BY <2>1, <2>2
  <2> HIDE DEF t
  <2>4. t \in Seq(Seq(Messages))
    BY <1>1, <2>3, SeqDef
  <2>5. DOMAIN t = 1 .. n
    BY <2>3
  <2> QED BY <1>1, <2>4, <2>5, LenProperties
<1>5. /\ \A i \in 1 .. k : t[i] = s[i]
      /\ \A i \in k + 1 .. n : t[i] = <<>>
  BY <1>1
<1> HIDE DEF t
<1>6. Flatten(t) = Joined(s, k)
  <2>1. /\ Len(t) = Len(s) /\ k \in 0 .. Len(s)
        /\ \A i \in k + 1 .. Len(s) : t[i] = <<>>
    BY <1>1, <1>2, <1>4, <1>5
  <2>2. s \in Seq(Seq(Messages)) /\ t \in Seq(Seq(Messages))
    BY <1>2, <1>4
  <2> QED BY <1>5, <2>1, <2>2, FlattenCut
<1> QED BY <1>3, <1>6 DEF s, k

\* The frame buffer of the link is the frame buffer.
LEMMA LinkBuffer == LinkSpec => Spec
<1>1. LinkInit => Init
  BY DEF LinkInit
<1>2. [LinkNext]_linkVars => [Next]_vars
  <2> SUFFICES ASSUME [LinkNext]_linkVars PROVE [Next]_vars
    OBVIOUS
  <2>1. CASE BufferStep
    BY <2>1 DEF BufferStep, Next, FeedStep
  <2>2. CASE FrameStep
    BY <2>2 DEF FrameStep, Next, FeedStep
  <2>3. CASE MsgStep
    BY <2>3 DEF MsgStep
  <2>4. CASE EndStep
    BY <2>4 DEF EndStep
  <2>5. CASE UNCHANGED linkVars
    BY <2>5 DEF linkVars
  <2> QED BY <2>1, <2>2, <2>3, <2>4, <2>5 DEF LinkNext
<1> QED BY <1>1, <1>2, PTL DEF LinkSpec, Spec

\* The line, the scan along it, and what has been received.
LinkInv == SentOnLine /\ ScanOnLine /\ ReceiverInv

LEMMA LinkInitInv == LinkInit => LinkInv
<1> SUFFICES ASSUME LinkInit PROVE LinkInv
  OBVIOUS
<1>1. SentOnLine
  BY LineLayout
<1>2. delivered = <<>> /\ Position = 0 /\ Len(delivered) = 0
  BY DEF LinkInit, Init, Position, Size
<1>3. ScanOnLine
  <2>1. Len(sent) \in Nat
    BY <1>1, LenProperties DEF SentOnLine
  <2>2. ASSUME 0 < Len(sent) PROVE Position <= Start(0 + 1)
    <3>1. 1 \in 1 .. Len(sent)
      BY <2>1, <2>2
    <3>2. Start(1) \in Nat
      BY <1>1, <3>1, FramePlace
    <3> QED BY <1>2, <3>2
  <2>3. Ended(0) <= Position
    BY <1>2 DEF Ended
  <2>4. \A i \in 1 .. 0 : delivered[i].at = Start(i)
    OBVIOUS
  <2> QED BY <1>2, <2>1, <2>2, <2>3, <2>4 DEF ScanOnLine
<1>4. ReceiverInv
  <2>1. registered = {"begin", "msg", "end"} /\ hooked = FALSE /\ parsing = FALSE
        /\ received = <<>> /\ calls = <<>>
    BY DEF LinkInit
  <2>2. calls \in Seq({})
    BY <2>1
  <2>3. Joined(FrameParts, 0) = <<>>
    BY <1>1, FramesStep
  <2> QED BY <1>2, <2>1, <2>2, <2>3 DEF ReceiverInv
<1> QED BY <1>1, <1>3, <1>4 DEF LinkInv

LEMMA LinkNextInv == BufferInv /\ LinkInv /\ [LinkNext]_linkVars => LinkInv'
<1> HIDE FormatAssumption, WireLenAssumption, MsgAssumption, LinkAssumption
<1> SUFFICES ASSUME BufferInv, LinkInv, [LinkNext]_linkVars PROVE LinkInv'
  OBVIOUS
<1>1. SentOnLine /\ ScanOnLine /\ ReceiverInv
  BY DEF LinkInv
<1>2. wire' = wire /\ sent' = sent
  <2>1. [Next]_vars => wire' = wire
    BY DEF Next, FeedStep, Feed, AppendChunk, SkipByte, ExtractFrame, Compact,
           inputVars, vars
  <2> QED BY <2>1 DEF LinkNext, BufferStep, FrameStep, MsgStep, EndStep, linkVars,
                      Next, FeedStep
<1>3. SentOnLine'
  BY <1>1, <1>2 DEF SentOnLine, FrameOnLine, Ended, Start, Frame
<1>4. CASE BufferStep /\ ~SkipByte
  <2>1. Feed \/ AppendChunk \/ Compact
    BY <1>4 DEF BufferStep
  <2>2. Position' = Position /\ delivered' = delivered
    BY <2>1, PositionFixed
  <2>3. ScanOnLine'
    BY <1>1, <1>2, <2>2, LineQuiet
  <2>4. ReceiverInv'
    BY <1>1, <1>4, <2>2, ReceiverQuiet DEF BufferStep
  <2> QED BY <1>3, <2>3, <2>4 DEF LinkInv
<1>5. CASE BufferStep /\ SkipByte
  <2>1. ScanOnLine'
    BY <1>1, <1>2, <1>5, LineSkip
  <2>2. ReceiverInv'
    BY <1>1, <1>5, ReceiverQuiet DEF BufferStep, SkipByte
  <2> QED BY <1>3, <2>1, <2>2 DEF LinkInv
<1>6. CASE FrameStep
  <2>1. ExtractFrame
    BY <1>6 DEF FrameStep
  <2>2. ScanOnLine'
    BY <1>1, <1>2, <2>1, LineExtract
  <2>3. ReceiverInv'
    BY <1>1, <1>6, ReceiverFrame
  <2> QED BY <1>3, <2>2, <2>3 DEF LinkInv
<1>7. CASE MsgStep \/ EndStep
  <2>1. UNCHANGED vars
    BY <1>7 DEF MsgStep, EndStep
  <2>2. Position' = Position /\ delivered' = delivered
    BY <2>1, PositionFixed
  <2>3. ScanOnLine'
    BY <1>1, <1>2, <2>2, LineQuiet
  <2>4. ReceiverInv'
    BY <1>1, <1>7, ReceiverMsg, ReceiverEnd
  <2> QED BY <1>3, <2>3, <2>4 DEF LinkInv
<1>8. CASE UNCHANGED linkVars
  <2>1. UNCHANGED vars /\ UNCHANGED <<parserVars, sent, received>>
    BY <1>8 DEF linkVars
  <2>2. Position' = Position /\ delivered' = delivered
    BY <2>1, PositionFixed
  <2>3. ScanOnLine'
    BY <1>1, <1>2, <2>2, LineQuiet
  <2>4. ReceiverInv'
    BY <1>1, <2>1, <2>2, ReceiverQuiet
  <2> QED BY <1>3, <2>3, <2>4 DEF LinkInv
<1> QED BY <1>4, <1>5, <1>6, <1>7, <1>8 DEF LinkNext

(***************************************************************************)
(* Along the line the frame buffer delivers exactly the frames sent, and   *)
(* the parser turns each accepted one into exactly its known messages.     *)
(***************************************************************************)
THEOREM LinkInvariant == LinkSpec => []LinkInv
<1>1. LinkSpec => []BufferInv
  BY LinkBuffer, BufferInvariant, PTL
<1> QED BY <1>1, LinkInitInv, LinkNextInv, PTL DEF LinkSpec

(***************************************************************************)
(* Whatever the frames, the noise without an SOF and the chunks, a reader  *)
(* has at every return of handle_data exactly the known messages of the    *)
(* accepted frames that have ended, in order and byte for byte.            *)
(***************************************************************************)
THEOREM MessagesArrive == LinkSpec => []EndToEnd
<1>1. BufferInv /\ ScanInv /\ CompleteFramesDelivered /\ LinkInv => EndToEnd
  <2> SUFFICES ASSUME BufferInv, ScanInv, CompleteFramesDelivered, LinkInv,
                      pc = "idle", ~parsing
               PROVE  received = Expected(fed)
    BY DEF EndToEnd
  <2>1. SentOnLine /\ ScanOnLine /\ ReceiverInv /\ TypeOK
    BY DEF LinkInv, BufferInv
  <2>2. \A i \in 1 .. Len(sent) : sent[i].end <= fed <=> i <= Len(delivered)
    BY <2>1, EndedDelivered
  <2>3. Len(delivered) <= Len(sent)
    BY <2>1 DEF ScanOnLine
  <2>4. Expected(fed) = Joined(FrameParts, Len(delivered))
    BY <2>1, <2>2, <2>3, ExpectedFrames
  <2> QED BY <2>1, <2>4 DEF ReceiverInv
<1> QED BY <1>1, LinkBuffer, LinkInvariant, BufferInvariant, ScanInvariant,
           CompleteFramesAreDelivered, PTL
=============================================================================
