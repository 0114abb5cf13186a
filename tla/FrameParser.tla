---------------------------- MODULE FrameParser ----------------------------
(***************************************************************************)
(* What the frame buffer's callback does with a payload, in either         *)
(* direction: parser_from_{dev,user}_on_frame and _on_msg of               *)
(* src/src/ubeacon_driver.c and ub_msg_parser_handle_data of ubeacon_msg.h.*)
(* A payload is a header whose last byte is the frame id (uid + id from a  *)
(* device, id alone from the host) followed by messages.  The user's three *)
(* callbacks run one after another inside one call; the extension hook is  *)
(* a global that any of them may install or remove meanwhile.              *)
(***************************************************************************)
EXTENDS MsgFormat, Integers, FiniteSets

CONSTANTS
  HeaderSize,   \* UB_FRAME_PAYLOAD_TO_{USER,DEV}_HEADER_SIZE
  Payloads,     \* payloads the frame buffer may deliver
  BuiltIn,      \* built-in message table: id -> bytes of its UBData struct
  Extension     \* what the extension hook decodes: id -> bytes

ASSUME ParserAssumption ==
  /\ HeaderSize \in Nat \ {0}
  /\ \A p \in Payloads : 
       \E n \in 0 .. FramePayloadSizeMax : p \in [0 .. n - 1 -> Byte]
  /\ DOMAIN BuiltIn \subseteq Byte /\ DOMAIN Extension \subseteq Byte
  /\ \A id \in DOMAIN BuiltIn : BuiltIn[id] \in Nat
  /\ \A id \in DOMAIN Extension : Extension[id] \in Nat

VARIABLES
  registered,   \* which of the three callbacks are not NULL
  hooked,       \* whether the decode hook is installed
  payload,      \* the payload being parsed, or parsed last
  offset,       \* of the next message header in it
  parsing,      \* inside ub_msg_parser_handle_data
  calls         \* callbacks made for this payload, in order

parserVars == <<registered, hooked, payload, offset, parsing, calls>>

\* payload_size
Length == Cardinality(DOMAIN payload)

Unknown == -1

\* ub_decode_{dev_to_user,user_to_dev}: bytes decoded, or Unknown.
Decoded(id) ==
  IF id \in DOMAIN BuiltIn THEN BuiltIn[id]
  ELSE IF hooked /\ id \in DOMAIN Extension THEN Extension[id]
  ELSE Unknown

\* Made only if the user has registered it.
Call(kind, record) == IF kind \in registered THEN <<record>> ELSE <<>>

\* on_frame_begin gets uid and frame id, and answers accept.
BeginRecord(p, accept) ==
  [kind |-> "begin", header |-> Slice(p, 0, HeaderSize), accept |-> accept]

\* on_frame_msg for the message at offset, if anything can decode it.
MsgCall ==
  LET id == payload[offset]
  IN  IF Decoded(id) = Unknown THEN <<>>
      ELSE Call("msg", [kind |-> "msg", at |-> offset, id |-> id,
                        size |-> Decoded(id)])
-----------------------------------------------------------------------------
Init ==
  /\ registered \in SUBSET {"begin", "msg", "end"}
  /\ hooked = FALSE
  /\ payload = <<>>
  /\ offset = 0
  /\ parsing = FALSE
  /\ calls = <<>>

\* ub_set_decode_*_extend, at any moment.
SetHook ==
  /\ hooked' = ~hooked
  /\ UNCHANGED <<registered, payload, offset, parsing, calls>>

\* Mutant: the veto of on_frame_begin is not heeded.
OnFrameUnfiltered(p) ==
  /\ ~parsing
  /\ payload' = p
  /\ offset' = HeaderSize
  /\ UNCHANGED <<registered, hooked>>
  /\ IF Cardinality(DOMAIN p) < HeaderSize
     THEN UNCHANGED parsing /\ calls' = <<>>
     ELSE \E accept \in BOOLEAN :
            /\ parsing' = TRUE
            /\ calls' = Call("begin", BeginRecord(p, accept))

\* on_frame: too short a payload is ignored; on_frame_begin decides, if there
\* is one, whether the messages are parsed.
OnFrame(p) ==
  /\ ~parsing
  /\ payload' = p
  /\ offset' = HeaderSize
  /\ UNCHANGED <<registered, hooked>>
  /\ IF Cardinality(DOMAIN p) < HeaderSize
     THEN UNCHANGED parsing /\ calls' = <<>>
     ELSE \E accept \in BOOLEAN :
            /\ parsing' = ("begin" \in registered => accept)
            /\ calls' = Call("begin", BeginRecord(p, accept))

\* Mutant: only the header of a message has to be there.
HeaderAtOffset == offset + MsgHeaderSize <= Length

\* A whole message lies at offset.
MessageAtOffset ==
  /\ offset + MsgHeaderSize <= Length
  /\ offset + MsgSize(payload, offset) <= Length

\* One iteration over the messages: on_msg ignores those it cannot decode.
OnMsg ==
  /\ parsing
  /\ MessageAtOffset
  /\ calls' = calls \o MsgCall
  /\ offset' = offset + MsgSize(payload, offset)
  /\ UNCHANGED <<registered, hooked, payload, parsing>>

\* What is left is no whole message: dropped, and the frame ends.
OnEnd ==
  /\ parsing
  /\ ~MessageAtOffset
  /\ calls' = calls \o Call("end", [kind |-> "end"])
  /\ parsing' = FALSE
  /\ UNCHANGED <<registered, hooked, payload, offset>>

ParseStep == OnMsg \/ OnEnd

Next == (\E p \in Payloads : OnFrame(p)) \/ ParseStep \/ SetHook

Spec == Init /\ [][Next]_parserVars
-----------------------------------------------------------------------------
Kinds(kind) == {i \in DOMAIN calls : calls[i].kind = kind}

(***************************************************************************)
(* The user sees begin, then the messages, then end, once each per frame:  *)
(* a frame whose parse is over has its on_frame_end even if bytes were     *)
(* left; one that on_frame_begin refused, or too short for a header, gets  *)
(* neither a message nor an end (ubeacon_driver_for_user.h:16-22).  A      *)
(* callback that is not registered is not called.                          *)
(***************************************************************************)
CallbackOrder ==
  /\ \A i \in DOMAIN calls : calls[i].kind \in registered
  /\ \A i \in Kinds("begin") : i = 1
  /\ \A i \in Kinds("end") : i = Len(calls) /\ ~parsing
  /\ "begin" \in registered /\ calls # <<>> => calls[1].kind = "begin"
  /\ \A i \in Kinds("begin") : ~calls[i].accept => Len(calls) = 1 /\ ~parsing
  /\ "end" \in registered /\ ~parsing /\ Length >= HeaderSize =>
       \/ Kinds("end") # {}
       \/ \E i \in Kinds("begin") : ~calls[i].accept
  /\ Length < HeaderSize => calls = <<>> /\ ~parsing

(***************************************************************************)
(* Offsets at which the payload holds messages, by the layout alone: the   *)
(* first follows the header, each next one the end of a whole message.     *)
(***************************************************************************)
MessageStarts ==
  LET Whole(o) == /\ o + MsgHeaderSize <= Length
                  /\ o + MsgSize(payload, o) <= Length
      walk[n \in 0 .. Length] ==
        IF n = 0 THEN {o \in {HeaderSize} : Whole(o)}
        ELSE walk[n - 1] \cup
               {o \in 0 .. Length :
                  /\ Whole(o)
                  /\ \E q \in walk[n - 1] : o = q + MsgSize(payload, q)}
  IN  walk[Length]

(***************************************************************************)
(* When a frame is over, on_frame_msg has been called for exactly its      *)
(* whole messages that a table knows, in wire order, each once; trailing   *)
(* bytes, unknown ids and a NULL callback cost nothing else.  An extension *)
(* cannot change what a built-in message decodes to; ids only the hook     *)
(* knows depend on whether it was installed at that moment                 *)
(* (ubeacon_driver_common.h:69-73).                                        *)
(***************************************************************************)
EveryMessageOnce ==
  /\ \A i, j \in Kinds("msg") : i < j => calls[i].at < calls[j].at
  /\ \A i \in Kinds("msg") :
       /\ calls[i].at \in MessageStarts
       /\ calls[i].id = payload[calls[i].at]
       /\ LET id == calls[i].id
          IN  IF id \in DOMAIN BuiltIn THEN calls[i].size = BuiltIn[id]
              ELSE id \in DOMAIN Extension /\ calls[i].size = Extension[id]
  /\ "msg" \in registered /\ Kinds("end") # {} =>
       \A o \in MessageStarts :
         payload[o] \in DOMAIN BuiltIn => \E i \in Kinds("msg") : calls[i].at = o
==============================================================================
