----------------------------- MODULE FrameFormat -----------------------------
(***************************************************************************)
(* Layout of a frame on the serial wire, shared by the receive side        *)
(* (FrameBuffer) and the build side (FrameBuilder):                        *)
(*                                                                         *)
(*    SOF | payload size, 2 bytes little endian | payload | checksum       *)
(*                                                                         *)
(* Source: src/src/ubeacon_frame.h, ubeacon_frame.c, ubeacon_checksum.h.   *)
(* The sizes of the program (256 values per byte, frames of at most 1024   *)
(* bytes) are parameters, so that small instances exercise every boundary  *)
(* and the proofs hold for the real sizes as well.                         *)
(***************************************************************************)
EXTENDS Naturals

CONSTANTS
  ByteBase,      \* number of values of a byte: 256 in the program
  FrameSOF,      \* UB_FRAME_SOF: the byte every frame begins with
  FrameSizeMax   \* UB_FRAME_SIZE_MAX: longest frame, and the buffer's capacity

FrameSizeMin == 4           \* UB_FRAME_SIZE_MIN: a frame with an empty payload
FramePayloadOffset == 3     \* UB_FRAME_PAYLOAD_OFFSET
FramePayloadSizeMax == FrameSizeMax - FrameSizeMin

(***************************************************************************)
(* A byte has at least two values, the capacity holds at least an empty    *)
(* frame, and the two size bytes can express the longest payload.          *)
(***************************************************************************)
ASSUME FormatAssumption ==
  /\ ByteBase \in Nat /\ ByteBase >= 2
  /\ FrameSOF \in 0 .. ByteBase - 1
  /\ FrameSizeMax \in Nat /\ FrameSizeMax >= FrameSizeMin
  /\ FrameSizeMax - FrameSizeMin < ByteBase * ByteBase

Byte == 0 .. ByteBase - 1

\* The n bytes of memory (or wire) f from index `from` on, numbered from 0.
Slice(f, from, n) == [k \in 0 .. n - 1 |-> f[from + k]]

\* Little-endian 16-bit size field of the frame that begins at index `from`.
PayloadSize(f, from) == f[from + 1] + ByteBase * f[from + 2]

FrameSize(f, from) == FrameSizeMin + PayloadSize(f, from)

\* Sum of the first n bytes, in a byte: the additive checksum.
Checksum(bytes, n) ==
  LET sum[k \in 0 .. n] == IF k = 0 THEN 0
                           ELSE (sum[k - 1] + bytes[k - 1]) % ByteBase
  IN  sum[n]

\* The last of the n bytes of a frame is the checksum of those before it.
ChecksumVerify(bytes, n) ==
  bytes[n - 1] = Checksum(Slice(bytes, 0, n - 1), n - 1)
==============================================================================
