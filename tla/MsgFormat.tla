------------------------------ MODULE MsgFormat ------------------------------
(***************************************************************************)
(* Layout of a message inside a frame's payload (src/src/ubeacon_msg.h):   *)
(*                                                                         *)
(*    id | payload size in the low bits, one reserved bit | payload        *)
(*                                                                         *)
(* Messages follow one another without separators after the direction's    *)
(* header.  MsgSizeBase is 128 in the program (a 7-bit size).              *)
(***************************************************************************)
EXTENDS FrameFormat, Sequences

CONSTANT MsgSizeBase

ASSUME MsgAssumption == MsgSizeBase \in Nat \ {0} /\ ByteBase = 2 * MsgSizeBase

MsgHeaderSize == 2
MsgPayloadSizeMax == MsgSizeBase - 1

\* payload_size of the message whose header is at index i: the reserved bit
\* is the top bit of the byte and does not count.
MsgPayloadSize(f, i) == f[i + 1] % MsgSizeBase

MsgSize(f, i) == MsgHeaderSize + MsgPayloadSize(f, i)
==============================================================================
