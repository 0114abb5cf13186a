----------------------------- MODULE RosBridge -----------------------------
(***************************************************************************)
(* A ROS converter between the driver and the topics of its node: what a   *)
(* device reports is decoded (Codec) and published, a command or a write   *)
(* from a topic is encoded and sent, and a user may relay what was         *)
(* published to the topic that writes it.  Both converters are here, each  *)
(* with its own tables.                                                    *)
(***************************************************************************)
EXTENDS Codec, DataStructs

R1 == INSTANCE Ros1Handle
R2 == INSTANCE Ros2Handle

Converters == {"ros1", "ros2"}

VARIABLES
  converter,   \* whose node the message passes through, "none" if none
  published    \* the ROS messages of the report decoded last

bridgeVars == <<codecVars, converter, published>>

BridgeInit == Init /\ converter = "none" /\ published = {}
-----------------------------------------------------------------------------
Advertised(ros) == IF ros = "ros1" THEN R1!Advertised ELSE R2!Advertised
Subscribed(ros) == IF ros = "ros1" THEN R1!Subscribed ELSE R2!Subscribed
Commands(ros)   == IF ros = "ros1" THEN R1!Commands   ELSE R2!Commands
OnFrameMsg(ros) == IF ros = "ros1" THEN R1!OnFrameMsg ELSE R2!OnFrameMsg
Dispatch(ros, id, struct) ==
  IF ros = "ros1" THEN R1!Dispatch(id, struct) ELSE R2!Dispatch(id, struct)

\* The values of a member of a head or of an element, in order.
ValuesOf(fields, values, member) ==
  LET at == SelectSeq([i \in DOMAIN fields |-> i],
                      LAMBDA i : fields[i].name = member /\ ~IsHidden(fields[i]))
  IN  [j \in DOMAIN at |-> values[at[j]]]

\* The fields a handler fills of a head or of an element.
Filled(copies, fields, values) ==
  [to \in {c.to : c \in copies} |->
     LET c   == CHOOSE x \in copies : x.to = to
         all == ValuesOf(fields, values, c.from)
     IN  IF c.n = R1!Counted
         THEN SubSeq(all, 1, CountOf(fields, values, Len(all)))
         ELSE SubSeq(all, 1, ub_min_int(c.n, Len(all)))]

\* datas.resize(count), and every element of it.
RosMessage(m, s, d) ==
  [topic |-> m.topic,
   head  |-> Filled(m.head, s.head, d.head),
   items |-> [k \in 1 .. (IF m.item = {} THEN 0 ELSE Present(s, d.head)) |->
                Filled(m.item, s.item, d.items[k])]]

\* The value field i of a struct takes from a ROS message: 0 if the handler
\* copies nothing there.
Taken(copies, fields, i, from) ==
  LET place == Cardinality({j \in 1 .. i : fields[j].name = fields[i].name})
      c     == {x \in copies : x.from = fields[i].name /\ place <= x.n}
  IN  IF IsHidden(fields[i]) \/ c = {} THEN 0
      ELSE from[(CHOOSE x \in c : TRUE).to][place]

\* A subscriber's "UBData* data{}", filled from a ROS message.
Received(command, msg) ==
  LET s == Layout[command.struct]
      n == ub_min_int(Len(msg.items), s.max)
  IN  [head  |-> [i \in DOMAIN s.head |->
                    IF i \in CountIndex(s.head) THEN n
                    ELSE Taken(command.head, s.head, i, msg.head)],
       items |-> [k \in 1 .. s.max |->
                    [i \in DOMAIN s.item |->
                       IF k > n THEN 0
                       ELSE Taken(command.item, s.item, i, msg.items[k])]]]

\* External: a user's message that says what d says.  Its payload may be
\* longer than the struct's.
UserMessage(topic, struct, d) ==
  LET s == Layout[struct]
  IN  [topic |-> topic,
       head  |-> [m \in DOMAIN UBData[struct].head |-> ValuesOf(s.head, d.head, m)],
       items |-> [k \in 1 .. (IF s.max = 0 THEN 0 ELSE CountOf(s.head, d.head, 0)) |->
                    [m \in DOMAIN UBData[struct].item |->
                       ValuesOf(s.item, d.items[ub_min_int(k, s.max)], m)]]]
-----------------------------------------------------------------------------
\* on_frame_msg after the decoding: nothing without data or for other ids.
Publish(ros) ==
  /\ stage \in {"known", "unknown"} /\ route.dir = "dev_to_user"
  /\ stage' = "published"
  /\ converter' = ros
  /\ published' =
       IF stage = "unknown" \/ ReadAs = Empty \/ route.id \notin DOMAIN OnFrameMsg(ros)
       THEN {}
       ELSE LET struct == OnFrameMsg(ros)[route.id]
            IN  {RosMessage(m, Layout[struct], got) :
                   m \in Dispatch(ros, route.id, struct)}
  /\ UNCHANGED <<route, data, wire, size, arrived, got, back>>

\* A subscriber gets the user's message, and main_common_send_msg sends it.
RosCommand(ros, topic) ==
  /\ stage = "idle"
  /\ LET command == Commands(ros)[topic]
         s       == Layout[EncodeUserToDev[command.id]]
     IN  /\ route' = Route("user_to_dev", command.id,
                             EncodeUserToDev[command.id], "none")
         /\ \E d \in Data(command.struct) :
              LET u == Received(command, UserMessage(topic, command.struct, d))
              IN  /\ data' = d
                  /\ wire' = Encoded(s, u)
                  /\ size' = EncodedSize(s, u.head)
  /\ stage' = "sent"
  /\ converter' = ros
  /\ UNCHANGED <<arrived, got, back, published>>

\* The topics whose messages can be sent back as they are.
WriteTopic ==
  [param |-> "param_write", run_time_param |-> "run_time_param_write",
   peripheral_config |-> "peripheral_config_write"]

\* The user relays a message from the one topic to the other.
RosWriteBack ==
  /\ stage = "published"
  /\ \E m \in published :
       /\ m.topic \in DOMAIN WriteTopic
       /\ LET command == Commands(converter)[WriteTopic[m.topic]]
          IN  back' = Encoded(Layout[EncodeUserToDev[command.id]],
                              Received(command, m))
  /\ stage' = "written"
  /\ UNCHANGED <<route, data, wire, size, arrived, got, converter, published>>

BridgeNext ==
  \/ Next /\ UNCHANGED <<converter, published>>
  \/ \E ros \in Converters : Publish(ros)
  \/ \E ros \in Converters : \E topic \in Subscribed(ros) : RosCommand(ros, topic)
  \/ RosWriteBack

BridgeSpec == BridgeInit /\ [][BridgeNext]_bridgeVars
-----------------------------------------------------------------------------
\* What devices only echo of a command has no topic.
Echoes == {"RESTART", "FIND", "RESET_PARAM", "Z_MEASUREMENT", "STATE_CONTROL",
           "MAP_MEASUREMENT"}

TopicsOf(ros, id) ==
  IF id \in DOMAIN OnFrameMsg(ros)
  THEN {m.topic : m \in Dispatch(ros, id, OnFrameMsg(ros)[id])}
  ELSE {}

\* A message that has all the values of all the members of a struct.
Whole(m, name, s, d) ==
  /\ \A x \in DOMAIN UBData[name].head :
       /\ Len(ValuesOf(s.head, d.head, x)) = UBData[name].head[x]
       /\ m.head[x] = ValuesOf(s.head, d.head, x)
  /\ Len(m.items) = IF s.max = 0 THEN 0 ELSE CountOf(s.head, d.head, 0)
  /\ \A k \in DOMAIN m.items, x \in DOMAIN UBData[name].item :
       LET all == ValuesOf(s.item, d.items[k], x)
           n   == IF UBData[name].item[x] = 1 THEN 1
                  ELSE CountOf(s.item, d.items[k], Len(all))
       IN  /\ Len(all) = UBData[name].item[x]
           /\ m.items[k][x] = SubSeq(all, 1, n)

(***************************************************************************)
(* What a device reports is published whole: every id but the echoes has   *)
(* topics of its own, advertised; exactly one message of them carries all  *)
(* values of all members of the struct that was decoded and the elements   *)
(* counted, and a location also gives the pose; nothing else is published. *)
(* The id, the cast, the members, the loop bounds and the topic are four   *)
(* lists written by hand, twice.                                           *)
(***************************************************************************)
PublishedWhole ==
  stage = "published" =>
    LET topics == {m.topic : m \in published}
    IN  IF route.id \in DOMAIN DecodeDevToUser \ Echoes
        THEN /\ topics \subseteq Advertised(converter)
             /\ \A id \in DOMAIN DecodeDevToUser \ {route.id} :
                  topics \cap TopicsOf(converter, id) = {}
             /\ Cardinality(published) =
                  IF route.id = "LOCATION_RESULT" THEN 2 ELSE 1
             /\ \A m \in published :
                  IF m.topic = "location_result_pose"
                  THEN m.head.position = ValuesOf(ReadAs.head, got.head, "pos")
                  ELSE Whole(m, DecodeDevToUser[route.id], ReadAs, got)
        ELSE published = {}
==============================================================================
