---------------------------- MODULE FrameBuilder ----------------------------
(***************************************************************************)
(* Frame construction: ub_prepare_msg_to_{dev,user}_{begin,try_append,end} *)
(* (src/src/ubeacon_driver.c), ub_frame_write_{begin,end} and ub_msg_write.*)
(* The only state is the caller's memory: how far a frame has got is its   *)
(* own payload size field.  Every call gets frame_size_max anew, and the   *)
(* caller may pass a different value each time, as long as so much memory  *)
(* really is there.  The one-shot functions are these calls in a row.      *)
(***************************************************************************)
EXTENDS MsgFormat, Integers

CONSTANTS
  Header,     \* payload header: frame_id to the device, uid + frame_id to the user
  MemSize,    \* bytes of memory the caller owns
  Ids,        \* message ids callers try to send
  Encodable,  \* those the direction's table, or the extension hook, knows
  Raws        \* wire forms of their payloads

ASSUME BuilderAssumption ==
  /\ Header \in Seq(Byte)
  /\ MemSize \in Nat
  /\ Ids \subseteq Byte
  /\ Encodable \subseteq Ids
  /\ Raws \subseteq Seq(Byte)
  /\ FrameSizeMin + Len(Header) <= FrameSizeMax

VARIABLES
  frame,      \* the caller's memory
  begun,      \* begin has succeeded on it
  accepted,   \* messages appended since: where, id and wire form
  call        \* the latest call: name, frame_size_max and result

vars == <<frame, begun, accepted, call>>

Failed == -1

\* The memory after bytes have been copied to it from index base on.
Written(base, bytes) ==
  [i \in 0 .. MemSize - 1 |->
     IF i >= base /\ i < base + Len(bytes) THEN bytes[i - base + 1] ELSE frame[i]]

\* ub_frame_set_payload_size: a 16-bit field, low byte first.
WithPayloadSize(mem, n) ==
  [mem EXCEPT ![1] = n % ByteBase, ![2] = n \div ByteBase]

Min2(a, b) == IF a <= b THEN a ELSE b
-----------------------------------------------------------------------------
Init ==
  /\ frame = [i \in 0 .. MemSize - 1 |-> 0]
  /\ begun = FALSE
  /\ accepted = <<>>
  /\ call = [op |-> "none", max |-> 0, ret |-> 0]

Begin(max) ==
  IF max < FrameSizeMin + Len(Header)
  THEN /\ call' = [op |-> "begin", max |-> max, ret |-> Failed]
       /\ UNCHANGED <<frame, begun, accepted>>
  ELSE /\ frame' = WithPayloadSize([Written(FramePayloadOffset, Header)
                                      EXCEPT ![0] = FrameSOF], Len(Header))
       /\ begun' = TRUE
       /\ accepted' = <<>>
       /\ call' = [op |-> "begin", max |-> max, ret |-> 0]

\* Mutant: the format's limit forgotten.
SpaceOfCaller(max) == max - FrameSize(frame, 0)

\* Room for one more message: the caller's and the format's limit.
Space(max) ==
  Min2(max - FrameSize(frame, 0), FramePayloadSizeMax - PayloadSize(frame, 0))

\* Mutants: no limit by the size field; no limit by the space.
FitsAnyLength(id, raw, max) ==
  id \in Encodable /\ MsgHeaderSize + Len(raw) <= Space(max)
FitsAnySpace(id, raw, max) ==
  Space(max) > 0 /\ id \in Encodable /\ Len(raw) <= MsgPayloadSizeMax

\* Space, then encode(): raw_size stays -1 for an id the direction lacks, and
\* ub_msg_write refuses a payload its size field or the space cannot hold.
Fits(id, raw, max) ==
  /\ Space(max) > 0
  /\ id \in Encodable
  /\ Len(raw) <= MsgPayloadSizeMax
  /\ MsgHeaderSize + Len(raw) <= Space(max)

\* ub_msg_write at index at: header, then payload; the reserved bit is 0.
WithMsg(at, id, raw) ==
  [Written(at + MsgHeaderSize, raw) EXCEPT ![at] = id, ![at + 1] = Len(raw)]

\* Mutant: the -1 of encode() is added to the payload size unchecked.
AppendFailsUnchecked(max) ==
  LET spoilt == IF Space(max) > 0 THEN 1 ELSE 0
  IN  /\ frame' = WithPayloadSize(frame, PayloadSize(frame, 0) - spoilt)
      /\ call' = [op |-> "append", max |-> max, ret |-> spoilt - 1]
      /\ UNCHANGED accepted

\* No space, an unknown id or a message too long: not even the size field is
\* touched.
AppendFails(max) ==
  /\ call' = [op |-> "append", max |-> max, ret |-> Failed]
  /\ UNCHANGED <<frame, accepted>>

TryAppend(id, raw, max) ==
  /\ begun
  /\ IF Fits(id, raw, max)
     THEN LET size == PayloadSize(frame, 0)
              at == FramePayloadOffset + size
          IN  /\ frame' = WithPayloadSize(WithMsg(at, id, raw),
                                          size + MsgHeaderSize + Len(raw))
              /\ accepted' = Append(accepted, [at |-> at, id |-> id, raw |-> raw])
              /\ call' = [op |-> "append", max |-> max, ret |-> 0]
     ELSE AppendFails(max)
  /\ UNCHANGED begun

End(max) ==
  /\ begun
  /\ LET size == FrameSize(frame, 0)
     IN  IF size > max
         THEN /\ call' = [op |-> "end", max |-> max, ret |-> Failed]
              /\ UNCHANGED frame
         ELSE /\ frame' = [frame EXCEPT ![size - 1] =
                             Checksum(Slice(frame, 0, size - 1), size - 1)]
              /\ call' = [op |-> "end", max |-> max, ret |-> size]
  /\ UNCHANGED <<begun, accepted>>

Next ==
  \E max \in 0 .. MemSize :
    \/ Begin(max)
    \/ \E id \in Ids, raw \in Raws : TryAppend(id, raw, max)
    \/ End(max)

Spec == Init /\ [][Next]_vars
-----------------------------------------------------------------------------
\* By its own size field the frame holds the header at least, and lies whole in
\* the format and in the memory.
FrameInBounds ==
  /\ PayloadSize(frame, 0) \in Len(Header) .. FramePayloadSizeMax
  /\ FrameSize(frame, 0) <= MemSize

(***************************************************************************)
(* The types, the size field's included: it is the only state between two  *)
(* calls, so a failing one must leave a size from which the next goes on   *)
(* inside the frame (ubeacon_driver.c:641-646).                            *)
(***************************************************************************)
TypeOK ==
  /\ frame \in [0 .. MemSize - 1 -> Byte]
  /\ begun \in BOOLEAN
  /\ accepted \in Seq([at : Nat, id : Byte, raw : Seq(Byte)])
  /\ call \in [op : {"none", "begin", "append", "end"},
               max : 0 .. MemSize, ret : Int]
  /\ begun => FrameInBounds

(***************************************************************************)
(* What `end` returns is a frame the receive side accepts: it begins with  *)
(* the SOF, its size is in range and equals the returned length, and the   *)
(* checksum verifies (the tests of frame_buffer_append).                   *)
(***************************************************************************)
BuiltFrameReceivable ==
  call.op = "end" /\ call.ret # Failed =>
    /\ call.ret = FrameSize(frame, 0)
    /\ call.ret <= call.max
    /\ call.ret <= FrameSizeMax
    /\ frame[0] = FrameSOF
    /\ ChecksumVerify(Slice(frame, 0, call.ret), call.ret)

\* End of the k-th accepted message; the header's end for k = 0.
MsgEnd(k) ==
  IF k = 0 THEN FramePayloadOffset + Len(Header)
  ELSE accepted[k].at + MsgHeaderSize + Len(accepted[k].raw)

(***************************************************************************)
(* The frame holds the header and then exactly the accepted messages, back *)
(* to back and unharmed, whatever failed, was retried or came after an     *)
(* `end`: walking it with ub_msg_size, as the parser does, visits them.    *)
(***************************************************************************)
MessagesIntact ==
  begun =>
    /\ \A i \in DOMAIN Header : frame[FramePayloadOffset + i - 1] = Header[i]
    /\ \A k \in DOMAIN accepted :
         LET m == accepted[k]
         IN  /\ m.at = MsgEnd(k - 1)
             /\ frame[m.at] = m.id
             /\ MsgSize(frame, m.at) = MsgHeaderSize + Len(m.raw)
             /\ \A i \in DOMAIN m.raw :
                  frame[m.at + MsgHeaderSize + i - 1] = m.raw[i]
    /\ MsgEnd(Len(accepted)) = FramePayloadOffset + PayloadSize(frame, 0)

(***************************************************************************)
(* `end` cannot fail unless it is given less room than the last call that  *)
(* succeeded on the frame had: at every moment the frame, checksum         *)
(* included, fits what that call was granted.                              *)
(***************************************************************************)
RoomForChecksum ==
  begun /\ call.op \in {"begin", "append"} /\ call.ret # Failed =>
    FrameSize(frame, 0) <= Min2(call.max, FrameSizeMax)

\* No call writes outside the frame_size_max bytes it was given.
WritesWithinMax ==
  [][\A i \in 0 .. MemSize - 1 : i >= call'.max => frame'[i] = frame[i]]_vars
==============================================================================
