------------------------------- MODULE Codec -------------------------------
(***************************************************************************)
(* One message between two programs that both use the driver: a struct is  *)
(* encoded by the direction's table (src/src/ubeacon_driver.c), arrives    *)
(* with the length the sender's version gives it, is decoded by the        *)
(* direction's other table, and what a device reported may be sent back to *)
(* it as a write.  A device's report may also be of its firmware's own     *)
(* making, with any bits in the fields the driver hides.                   *)
(***************************************************************************)
EXTENDS WireStructs, MsgTables

CONSTANTS
  Data(_),      \* struct name -> values of a UBData* to send
  Reports(_),   \* struct name -> wire values a device's firmware may make
  Lengths(_)    \* payload size -> the sizes it may arrive with

VARIABLES
  stage,    \* how far the message is
  route,    \* its direction and id, the structs it is sent and read as
  data,     \* the UBData* encoded, <<>> for a firmware's own report
  wire,     \* the UBRawData* sent
  size,     \* payload bytes sent
  arrived,  \* payload bytes that arrive
  got,      \* the UBData* decoded
  back      \* the UBRawData* of the write that returns it

codecVars == <<stage, route, data, wire, size, arrived, got, back>>

Directions == {"dev_to_user", "user_to_dev"}

EncodeTable(dir) ==
  IF dir = "dev_to_user" THEN EncodeDevToUser ELSE EncodeUserToDev
DecodeTable(dir) ==
  IF dir = "dev_to_user" THEN DecodeDevToUser ELSE DecodeUserToDev

\* What the user's hooks know: nothing, a message of their own beyond the
\* built-in table, or one for every id, those of the table included.
ExtensionId == "EXTENSION"
Extension == Fixed(<<Plain("value", 8)>>)
Hooks == {{}, {ExtensionId},
          DOMAIN EncodeDevToUser \cup DOMAIN EncodeUserToDev \cup {ExtensionId}}

Layout ==
  [Restart |-> Restart, Find |-> Find, EncryptParamWrite |-> EncryptParamWrite,
   EncryptParam |-> EncryptParam, Param |-> Param,
   RunTimeParam |-> RunTimeParam, LocationResult |-> LocationResult,
   PeripheralConfig |-> PeripheralConfig,
   UartInterfaceParam |-> UartInterfaceParam,
   IicInterfaceParam |-> IicInterfaceParam,
   UwbInterfaceParam |-> UwbInterfaceParam, TwrParam |-> TwrParam,
   TwrResult |-> TwrResult, Heartbeat |-> Heartbeat, UserData |-> UserData,
   Anchor2TagDdoa |-> Anchor2TagDdoa, Anchor2TagSignal |-> Anchor2TagSignal,
   Tag2AnchorDis |-> Tag2AnchorDis, Tag2AnchorPdoa |-> Tag2AnchorPdoa,
   Imu |-> Imu, Attitude |-> Attitude, ZMeasurement |-> ZMeasurement,
   StateControl |-> StateControl, MapMeasurement |-> MapMeasurement,
   GlobalTimeStatus |-> GlobalTimeStatus, AnchorPos |-> AnchorPos,
   Empty |-> Empty, Extension |-> Extension]

\* The values of all the fields of a struct.
Typed(s, d) ==
  /\ \A i \in DOMAIN s.head : HasType(s.head[i], d.head[i])
  /\ \A k \in 1 .. s.max, i \in DOMAIN s.item : HasType(s.item[i], d.items[k][i])
RawBits(s, raw) ==
  /\ \A i \in DOMAIN s.head : IsRaw(s.head[i], raw.head[i])
  /\ \A k \in 1 .. s.max, i \in DOMAIN s.item : IsRaw(s.item[i], raw.items[k][i])

ASSUME CodecAssumption ==
  \A name \in DOMAIN Layout :
    /\ \A d \in Data(name) : Typed(Layout[name], d)
    /\ \A raw \in Reports(name) : RawBits(Layout[name], raw)

\* Mutant: the hook is asked first, and replaces what the table knows.
LookedHookFirst(table, id, hook) ==
  IF id \in hook THEN "Extension"
  ELSE IF id \in DOMAIN table THEN table[id]
  ELSE "Unknown"

\* The struct a table gives an id; the hook is asked only if it has none, and
\* "Unknown" is the hook's -1 or that there is no hook.
Looked(table, id, hook) ==
  IF id \in DOMAIN table THEN table[id]
  ELSE IF id \in hook THEN "Extension"
  ELSE "Unknown"
-----------------------------------------------------------------------------
\* Elements that are sent or read.
Present(s, head) == ub_min_int(CountOf(s.head, head, s.max), s.max)

\* ub_data_*_to_raw: the struct is cleared, then filled.
Encoded(s, d) ==
  [head  |-> [i \in DOMAIN s.head |-> ToRaw(s.head[i], d.head[i])],
   items |-> [k \in 1 .. s.max |->
     [i \in DOMAIN s.item |->
        IF k <= Present(s, d.head) /\ Live(s.item, d.items[k], i)
        THEN ToRaw(s.item[i], d.items[k][i])
        ELSE 0]]]

\* The size ub_data_*_to_raw returns: the elements present, or sizeof.
EncodedSize(s, head) == HeadBytes(s) + Present(s, head) * ItemBytes(s)

\* A little-endian value of which n payload bytes leave only the low ones;
\* the rest reads as zero.  (Sampled values are below 2^31.)
Kept(value, start, bits, n) ==
  LET have == 8 * n - start
  IN  IF have >= bits \/ have > 30 THEN value
      ELSE IF have <= 0 THEN 0
      ELSE value % 2^have

\* Mutant: what a short payload does not cover is whatever was there.
CopiedStale(s, raw, n) == raw

\* ub_msg_copy_payload into an UBRawData*: too long is cut, too short is
\* filled with zeros.
Copied(s, raw, n) ==
  [head  |-> [i \in DOMAIN s.head |->
     Kept(raw.head[i], s.headAt[i], s.head[i].bits, n)],
   items |-> [k \in 1 .. s.max |->
     [i \in DOMAIN s.item |->
        Kept(raw.items[k][i],
             8 * (HeadBytes(s) + (k - 1) * ItemBytes(s)) + s.itemAt[i],
             s.item[i].bits, n)]]]

\* ub_data_*_from_raw into a cleared UBData*.
Decoded(s, raw) ==
  [head  |-> [i \in DOMAIN s.head |-> FromRaw(s.head[i], raw.head[i])],
   items |-> [k \in 1 .. s.max |->
     [i \in DOMAIN s.item |->
        IF k <= Present(s, raw.head) /\ Live(s.item, raw.items[k], i)
        THEN FromRaw(s.item[i], raw.items[k][i])
        ELSE 0]]]
-----------------------------------------------------------------------------
\* Where a message goes, and the names of the structs at its two ends.
Route(dir, id, sent, read) ==
  [dir |-> dir, id |-> id, sent |-> sent, read |-> read]

Init ==
  /\ stage = "idle"
  /\ route = Route("none", "none", "none", "none")
  /\ data = <<>> /\ wire = <<>> /\ got = <<>> /\ back = <<>>
  /\ size = 0 /\ arrived = 0

\* ub_encode_*: an id the direction does not know is refused.
Encode(dir, id, hook) ==
  /\ stage = "idle"
  /\ UNCHANGED <<arrived, got, back>>
  /\ LET name == Looked(EncodeTable(dir), id, hook)
     IN  /\ route' = Route(dir, id, name, "none")
         /\ IF name = "Unknown"
            THEN stage' = "refused" /\ UNCHANGED <<data, wire, size>>
            ELSE \E d \in Data(name) :
                   /\ stage' = "sent"
                   /\ data' = d
                   /\ wire' = Encoded(Layout[name], d)
                   /\ size' = EncodedSize(Layout[name], d.head)

\* A device's firmware fills the wire struct itself.
Report(id) ==
  /\ stage = "idle"
  /\ stage' = "sent"
  /\ route' = Route("dev_to_user", id, DecodeDevToUser[id], "none")
  /\ \E raw \in Reports(DecodeDevToUser[id]) :
       /\ wire' = raw
       /\ size' = EncodedSize(Layout[DecodeDevToUser[id]], raw.head)
  /\ UNCHANGED <<data, arrived, got, back>>

\* ub_decode_*, of a payload whose sender may be an older or newer version.
Decode(n, hook) ==
  /\ stage = "sent"
  /\ arrived' = n
  /\ UNCHANGED <<data, wire, size, back>>
  /\ LET name == Looked(DecodeTable(route.dir), route.id, hook)
     IN  /\ route' = Route(route.dir, route.id, route.sent, name)
         /\ IF name = "Unknown"
            THEN stage' = "unknown" /\ UNCHANGED got
            ELSE /\ stage' = "known"
                 /\ got' = Decoded(Layout[name], Copied(Layout[name], wire, n))

\* The host writes what it has read, unchanged, under the same id.
WriteBack ==
  /\ stage = "known"
  /\ route.dir = "dev_to_user"
  /\ route.id \in DOMAIN EncodeUserToDev
  /\ EncodeUserToDev[route.id] = route.read
  /\ stage' = "written"
  /\ back' = Encoded(Layout[EncodeUserToDev[route.id]], got)
  /\ UNCHANGED <<route, data, wire, size, arrived, got>>

Next ==
  \/ \E dir \in Directions, hook \in Hooks :
       \E id \in DOMAIN EncodeTable(dir) \cup {ExtensionId, "OTHER"} :
         Encode(dir, id, hook)
  \/ \E id \in DOMAIN DecodeDevToUser : Report(id)
  \/ \E n \in Lengths(size) \cap Nat, hook \in Hooks : Decode(n, hook)
  \/ WriteBack

Spec == Init /\ [][Next]_codecVars
-----------------------------------------------------------------------------
\* The struct the message was sent as, and that it is read as.
SentAs == Layout[route.sent]
ReadAs == Layout[route.read]

(***************************************************************************)
(* What one side's built-in table sends, the other side's knows, and as    *)
(* the same struct; READ_X, ENCRYPT_PARAM and the other ids that mean      *)
(* different things by direction included (ubeacon_driver_data.h:22-23).   *)
(* No hook changes that, on either side, not even one that has a message   *)
(* of its own for the id (ubeacon_driver_common.h:67-75).                  *)
(***************************************************************************)
TablesAgree ==
  route.id \in DOMAIN EncodeTable(route.dir) =>
    /\ stage \notin {"refused", "unknown"}
    /\ route.sent = EncodeTable(route.dir)[route.id]
    /\ stage = "known" => route.read = route.sent

\* The most wire steps of an int32_t field that no float error makes too large
\* for the cast.
CastSafe == Int32Max - 2048

\* A millionth of x, for what float loses of it on its way there and back.
Drift(x) == Magnitude(x) \div 2^20

\* A value the field's width can hold, after rounding.
InRange(f, v) ==
  CASE f.kind = "masked" -> Fits(v, f.bits)
    [] f.kind = "scaled" -> v >= 0 /\ v <= 4 * (2^f.bits - 1) + 1
    [] f.kind = "signed" ->
         IF f.bits = 32 THEN Magnitude(v \div 4) <= CastSafe
         ELSE v >= -4 * 2^(f.bits - 1) /\ v <= 4 * (2^(f.bits - 1) - 1) + 1
    [] f.kind = "ratio"  -> v < f.arg * 2^f.bits
    [] OTHER -> ~IsHidden(f)

Distance(a, b) == IF a < b THEN b - a ELSE a - b

\* What the receiver may see of v: the value itself, or the nearest the wire
\* has: within half a step (and a millionth, which no field of 16 bits or less
\* is large enough for), or 50 ms below; a ppm saturated at 127.
Faithful(f, v, g) ==
  CASE f.kind \in {"plain", "flag", "masked"} -> g = v
    [] f.kind \in {"scaled", "signed"} -> Distance(g, v) <= 2 + Drift(v)
    [] f.kind = "ppm" ->
         /\ (v = NaN) = (g = NaN)
         /\ v # NaN => \/ Distance(g, v) <= 2
                       \/ v > 508 /\ g = 508
                       \/ v < -508 /\ g = -508
    [] f.kind = "ratio" -> g <= v /\ v < g + f.arg
    [] f.kind = "count" -> g = ub_min_int(v, f.arg)

(***************************************************************************)
(* Between two programs of one version, or with bytes of a newer sender    *)
(* behind, every value in range arrives as near as its wire step allows;   *)
(* NaN stays NaN and no ppm becomes it; the elements the count covers      *)
(* arrive and the rest read as zero (ubeacon_driver_data.h:355-356).       *)
(***************************************************************************)
RoundTrip ==
  stage = "known" /\ data # <<>> /\ arrived >= size =>
    LET s == SentAs
        n == ub_min_int(CountOf(s.head, data.head, s.max), s.max)
    IN  /\ \A i \in DOMAIN s.head :
             InRange(s.head[i], data.head[i]) =>
               Faithful(s.head[i], data.head[i], got.head[i])
        /\ \A k \in 1 .. s.max, i \in DOMAIN s.item :
             IF k <= n /\ Live(s.item, data.items[k], i)
             THEN InRange(s.item[i], data.items[k][i]) =>
                    Faithful(s.item[i], data.items[k][i], got.items[k][i])
             ELSE got.items[k][i] = 0

(***************************************************************************)
(* A count the application reads never exceeds the array it counts, not    *)
(* even one out of range on the wire, in a head or in an element           *)
(* (test_ubeacon_driver.cpp:751-762).                                      *)
(***************************************************************************)
CountsInBounds ==
  stage = "known" =>
    /\ \A i \in CountIndex(ReadAs.head) : got.head[i] <= ReadAs.head[i].arg
    /\ \A k \in 1 .. ReadAs.max, i \in CountIndex(ReadAs.item) :
         got.items[k][i] <= ReadAs.item[i].arg

(***************************************************************************)
(* Whatever length arrives, a field that arrived whole reads as in the     *)
(* complete message and one of which nothing arrived reads as zero: no     *)
(* field takes a neighbour's bytes or the stack's (test_version_compat).   *)
(***************************************************************************)
ShortReadsZero ==
  stage = "known" =>
    LET s == ReadAs
        Whole(start, f)   == start + f.bits <= 8 * arrived
        Missing(start, f) == start >= 8 * arrived
        ItemStart(k, i) == 8 * (HeadBytes(s) + (k - 1) * ItemBytes(s)) + s.itemAt[i]
    IN  /\ \A i \in DOMAIN s.head :
             /\ Whole(s.headAt[i], s.head[i]) =>
                  got.head[i] = FromRaw(s.head[i], wire.head[i])
             /\ Missing(s.headAt[i], s.head[i]) => got.head[i] = 0
        /\ \A k \in 1 .. s.max, i \in DOMAIN s.item :
             /\ /\ Whole(ItemStart(k, i), s.item[i])
                /\ k <= Present(s, wire.head)
                /\ Live(s.item, wire.items[k], i)
                => got.items[k][i] = FromRaw(s.item[i], wire.items[k][i])
             /\ Missing(ItemStart(k, i), s.item[i]) => got.items[k][i] = 0

\* What a write gives back of r: a count is brought in range, the 32-bit scaled
\* fields are true to a millionth, from 2^20 wire steps (10 km) on.
Returned(f, r, b) ==
  CASE IsHidden(f)        -> b = f.arg
    [] f.kind = "count"   -> b = ub_min_int(r, f.arg)
    [] f.kind = "signed" /\ f.bits = 32 ->
         Magnitude(r) <= CastSafe => Distance(b, r) <= Drift(r)
    [] OTHER              -> b = r

(***************************************************************************)
(* Reading a device's parameters and writing them back changes none of     *)
(* those the driver shows, however often: the write carries bit for bit    *)
(* what the device reported, but for z and pos in centimeters beyond what  *)
(* a float can tell apart.  It resets the fields the driver hides to the   *)
(* firmware's defaults, whatever they were (ubeacon_driver_data_raw.h:     *)
(* 75-78).                                                                 *)
(***************************************************************************)
WriteBackExact ==
  stage = "written" /\ arrived >= size =>
    LET s == ReadAs
    IN  /\ \A i \in DOMAIN s.head :
             Returned(s.head[i], wire.head[i], back.head[i])
        /\ \A k \in 1 .. Present(s, wire.head), i \in DOMAIN s.item :
             Live(s.item, wire.items[k], i) =>
               Returned(s.item[i], wire.items[k][i], back.items[k][i])
==============================================================================
