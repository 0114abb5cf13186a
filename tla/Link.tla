-------------------------------- MODULE Link --------------------------------
(***************************************************************************)
(* The driver end to end, in one direction: one side builds frames of      *)
(* messages with ub_prepare_msg_to_*, the bytes cross a serial line that   *)
(* may add noise between frames and cut the last one short, and the other  *)
(* side feeds what arrives, in any chunks, to ub_parser_from_*_handle_data,*)
(* that is to FrameBuffer whose callback is FrameParser.                   *)
(***************************************************************************)
EXTENDS FrameBuffer, MsgFormat, Integers, FiniteSets

CONSTANTS
  HeaderSize, BuiltIn, Extension,   \* as in FrameParser
  Headers,      \* headers of the frames on the line
  Accepted,     \* those whose frame id on_frame_begin accepts
  Messages,     \* messages sent: id and raw payload
  Noise,        \* what the line may add before a frame; no SOF in it
  MsgsSent,     \* messages at most in a frame (bound)
  FramesSent    \* frames sent in a behaviour (bound)

\* A decoder returns how many bytes it wrote; a message's size fits its field;
\* zeros, which pad the line, are no SOF either.
ASSUME LinkAssumption ==
  /\ HeaderSize \in Nat \ {0}
  /\ \A id \in DOMAIN BuiltIn : BuiltIn[id] \in Nat
  /\ Headers \subseteq [1 .. HeaderSize -> Byte]
  /\ Messages \subseteq [id : Byte, raw : Seq(Byte)]
  /\ \A m \in Messages : Len(m.raw) <= MsgPayloadSizeMax
  /\ Noise \subseteq Seq(Byte \ {FrameSOF}) /\ FrameSOF # 0
  /\ MsgsSent \in Nat /\ FramesSent \in Nat

VARIABLES
  registered, hooked, payload, offset, parsing, calls,   \* of FrameParser
  sent,       \* frames sent: header, messages, end on the wire
  received    \* what on_frame_msg got: id and raw payload

parserVars == <<registered, hooked, payload, offset, parsing, calls>>
linkVars == <<vars, parserVars, sent, received>>

Parser == INSTANCE FrameParser

\* Bytes of a message as ub_msg_write leaves them.
MsgBytes(m) == <<m.id, Len(m.raw)>> \o m.raw

Flatten(seqs) ==
  LET upto[n \in 0 .. Len(seqs)] ==
        IF n = 0 THEN <<>> ELSE upto[n - 1] \o seqs[n]
  IN  upto[Len(seqs)]

\* Mutant: the header is not counted in the payload size.
FrameBytesUncounted(header, msgs) ==
  LET body == Flatten([i \in DOMAIN msgs |-> MsgBytes(msgs[i])])
      open == <<FrameSOF, Len(body) % ByteBase, Len(body) \div ByteBase>>
                \o header \o body
  IN  Append(open, Checksum([k \in 0 .. Len(open) - 1 |-> open[k + 1]], Len(open)))

\* The frame ub_prepare_msg_to_*_end returns for messages appended in order.
FrameBytes(header, msgs) ==
  LET body == header \o Flatten([i \in DOMAIN msgs |-> MsgBytes(msgs[i])])
      open == <<FrameSOF, Len(body) % ByteBase, Len(body) \div ByteBase>> \o body
  IN  Append(open, Checksum([k \in 0 .. Len(open) - 1 |-> open[k + 1]], Len(open)))
-----------------------------------------------------------------------------
\* One transmission: noise, then a frame of messages, none or as many as fit.
Transmissions ==
  {t \in [noise : Noise, header : Headers,
          msgs : UNION {[1 .. n -> Messages] : n \in 0 .. MsgsSent}] :
     Len(FrameBytes(t.header, t.msgs)) <= FrameSizeMax}

\* The line: WireLen bytes of it, padded with zeros or cut.
LineBytes(ts) ==
  LET bytes == Flatten([i \in DOMAIN ts |->
                          ts[i].noise \o FrameBytes(ts[i].header, ts[i].msgs)])
  IN  [k \in 0 .. WireLen - 1 |-> IF k < Len(bytes) THEN bytes[k + 1] ELSE 0]

EndOf(ts, i) ==
  Len(Flatten([j \in 1 .. i |->
                 ts[j].noise \o FrameBytes(ts[j].header, ts[j].msgs)]))

LinkInit ==
  /\ \E ts \in [1 .. FramesSent -> Transmissions] :
       /\ wire = LineBytes(ts)
       /\ sent = [i \in DOMAIN ts |-> [header |-> ts[i].header, msgs |-> ts[i].msgs,
                                       end |-> EndOf(ts, i)]]
  /\ Init
  /\ registered = {"begin", "msg", "end"}
  /\ hooked = FALSE
  /\ payload = <<>> /\ offset = 0 /\ parsing = FALSE /\ calls = <<>>
  /\ received = <<>>

\* The frame buffer works while no callback of its is running.
BufferStep ==
  /\ ~parsing
  /\ Feed \/ AppendChunk \/ SkipByte \/ Compact
  /\ UNCHANGED <<parserVars, sent, received>>

\* A frame is found and its callback begins.
FrameStep ==
  /\ ~parsing
  /\ ExtractFrame
  /\ LET found == delivered'[Len(delivered')].payload
     IN  /\ Parser!OnFrame(found)
         /\ calls' # <<>> =>
              calls'[1].accept = ([k \in 1 .. HeaderSize |-> found[k - 1]] \in Accepted)
  /\ UNCHANGED <<sent, received>>

\* on_frame_msg copies what it is given: the pointer is into the buffer.
MsgStep ==
  /\ Parser!OnMsg
  /\ received' = IF calls' = calls THEN received
                 ELSE Append(received,
                        [id |-> payload[offset],
                         raw |-> [k \in 1 .. MsgPayloadSize(payload, offset) |->
                                    payload[offset + MsgHeaderSize + k - 1]]])
  /\ UNCHANGED <<vars, sent>>

EndStep ==
  /\ Parser!OnEnd
  /\ UNCHANGED <<vars, sent, received>>

LinkNext == BufferStep \/ FrameStep \/ MsgStep \/ EndStep

\* The reader keeps reading, and a call it makes runs to its end.
LinkSpec == LinkInit /\ [][LinkNext]_linkVars /\ WF_linkVars(LinkNext)
-----------------------------------------------------------------------------
\* Those of the messages that the receiver's table knows.
Known(msgs) ==
  Flatten([i \in DOMAIN msgs |->
             IF msgs[i].id \in DOMAIN BuiltIn THEN <<msgs[i]>> ELSE <<>>])

\* The messages of the accepted frames that end within the first n bytes.
Expected(n) ==
  Flatten([i \in DOMAIN sent |->
             IF sent[i].end <= n /\ sent[i].header \in Accepted
             THEN Known(sent[i].msgs) ELSE <<>>])

(***************************************************************************)
(* On a line whose noise holds no SOF, when a handle_data call returns the *)
(* user has got every message of every frame complete so far, in order,    *)
(* once, byte for byte, and nothing else: neither the chunks nor the noise *)
(* nor refused frames between them make a difference.                      *)
(***************************************************************************)
EndToEnd ==
  pc = "idle" /\ ~parsing => received = Expected(fed)

\* Whatever was sent completely is received, as long as the reader reads.
EverythingArrives == <>(received = Expected(WireLen))
==============================================================================
