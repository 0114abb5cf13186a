------------------------- MODULE FrameParserProofs -------------------------
(***************************************************************************)
(* Proofs about FrameParser, for every header, payload, table, hook and    *)
(* choice of callbacks.  MessageStarts is a recursion that climbs up the   *)
(* payload level by level; the parser is one loop.  That the loop misses   *)
(* none of its messages comes from one fact: a message that begins before  *)
(* the loop's offset ends there at the latest.                             *)
(***************************************************************************)
EXTENDS FrameParser, InductionFacts, SequenceTheorems, FiniteSetTheorems

USE FormatAssumption, MsgAssumption, ParserAssumption

\* The payload is so many bytes, numbered from 0.
PayloadOK ==
  /\ Length \in Nat
  /\ DOMAIN payload = 0 .. Length - 1
  /\ \A i \in 0 .. Length - 1 : payload[i] \in Byte

\* A whole message, by its header, lies at o: MessageAtOffset for any offset.
Whole(o) == /\ o + MsgHeaderSize <= Length
            /\ o + MsgSize(payload, o) <= Length

LEMMA PayloadLength ==
  ASSUME NEW p \in Payloads
  PROVE  /\ Cardinality(DOMAIN p) \in Nat
         /\ DOMAIN p = 0 .. Cardinality(DOMAIN p) - 1
         /\ \A i \in DOMAIN p : p[i] \in Byte
<1>1. PICK n \in 0 .. FramePayloadSizeMax : p \in [0 .. n - 1 -> Byte]
  OBVIOUS
<1>2. n \in Nat /\ DOMAIN p = 0 .. n - 1
  BY <1>1
<1>3. Cardinality(0 .. n - 1) = n
  BY <1>2, FS_Interval
<1> QED BY <1>1, <1>2, <1>3

\* A message has at least its header.
LEMMA WholeSize ==
  ASSUME PayloadOK, NEW o \in Nat, Whole(o)
  PROVE  /\ MsgSize(payload, o) \in Nat /\ MsgSize(payload, o) >= 2
         /\ o + MsgSize(payload, o) <= Length
         /\ payload[o] \in Byte
<1> DEFINE n == Length
<1>1. n \in Nat /\ o + 2 <= n /\ \A i \in 0 .. n - 1 : payload[i] \in Byte
  BY DEF Whole, MsgHeaderSize, PayloadOK
<1> HIDE DEF n
<1>4. o \in 0 .. n - 1 /\ o + 1 \in 0 .. n - 1
  BY SMTT(30), <1>1
<1>2. payload[o] \in Byte /\ payload[o + 1] \in Nat
  BY <1>1, <1>4 DEF Byte
<1>3. payload[o + 1] % MsgSizeBase \in Nat
  BY <1>2
<1> DEFINE size == payload[o + 1] % MsgSizeBase
<1>5. MsgSize(payload, o) = 2 + size /\ o + MsgSize(payload, o) <= Length
  BY DEF Whole, MsgSize, MsgPayloadSize, MsgHeaderSize
<1> HIDE DEF size
<1>6. size \in Nat
  BY <1>3 DEF size
<1> QED BY <1>2, <1>5, <1>6
-----------------------------------------------------------------------------
(* The walk of MessageStarts. *)

\* The body of its recursive function, of the function f.
WalkStep(f, n) ==
  IF n = 0 THEN {o \in {HeaderSize} : Whole(o)}
  ELSE f[n - 1] \cup
         {o \in 0 .. Length :
            /\ Whole(o)
            /\ \E q \in f[n - 1] : o = q + MsgSize(payload, q)}

IsWalk(f) == f = [n \in 0 .. Length |-> WalkStep(f, n)]

Walk == CHOOSE f : IsWalk(f)

LEMMA StartsAreWalk == MessageStarts = Walk[Length]
BY DEF MessageStarts, Walk, IsWalk, WalkStep, Whole

\* The recursion has a solution.
LEMMA WalkExists ==
  ASSUME PayloadOK
  PROVE  \A n \in 0 .. Length : Walk[n] = WalkStep(Walk, n)
<1> DEFINE SolvesTo(f, m) == f = [n \in 0 .. m |-> WalkStep(f, n)]
           Solved == {m \in Nat : \E f : SolvesTo(f, m)}
<1>1. 0 \in Solved
  <2> DEFINE f == [n \in 0 .. 0 |-> {o \in {HeaderSize} : Whole(o)}]
  <2>1. SolvesTo(f, 0)
    BY DEF WalkStep
  <2> QED BY <2>1
<1>2. ASSUME NEW m \in Solved PROVE m + 1 \in Solved
  <2>1. PICK f : SolvesTo(f, m)
    OBVIOUS
  <2> DEFINE new == WalkStep(f, m + 1)
             g == [n \in 0 .. m + 1 |-> IF n <= m THEN f[n] ELSE new]
             h == [n \in 0 .. m + 1 |-> WalkStep(g, n)]
  <2>2. m \in Nat /\ \A n \in 0 .. m : f[n] = WalkStep(f, n)
    BY <2>1
  <2> HIDE DEF new
  <2>3. /\ g = [n \in 0 .. m + 1 |-> g[n]] /\ h = [n \in 0 .. m + 1 |-> h[n]]
        /\ \A n \in 0 .. m + 1 : h[n] = WalkStep(g, n)
        /\ \A n \in 0 .. m : g[n] = f[n]
        /\ g[m + 1] = new
    BY <2>2
  <2> HIDE DEF g, h
  <2>4. ASSUME NEW n \in 0 .. m + 1 PROVE g[n] = h[n]
    <3>0. n # 0 => n - 1 \in 0 .. m
      BY SMTT(30), <2>2
    <3>1. n # 0 => g[n - 1] = f[n - 1]
      BY <3>0, <2>3
    <3>2. WalkStep(g, n) = WalkStep(f, n)
      BY <3>1 DEF WalkStep
    <3>3. CASE n \in 0 .. m
      BY <3>2, <3>3, <2>2, <2>3
    <3>4. CASE n = m + 1
      BY <3>2, <3>4, <2>3 DEF new
    <3>5. n \in 0 .. m \/ n = m + 1
      BY <2>2
    <3> QED BY <3>3, <3>4, <3>5
  <2>5. g = h
    BY <2>3, <2>4
  <2>6. SolvesTo(g, m + 1)
    BY <2>5 DEF h
  <2> HIDE DEF SolvesTo
  <2>7. m + 1 \in Nat
    BY <2>2
  <2> QED BY <2>6, <2>7
<1>3. Length \in Solved
  <2> HIDE DEF Solved
  <2>1. Solved \subseteq Nat
    BY DEF Solved
  <2>2. Solved = Nat
    BY <1>1, <1>2, <2>1, SetInduction
  <2> QED BY <2>2 DEF PayloadOK
<1>4. \E f : IsWalk(f)
  BY <1>3 DEF IsWalk
<1>5. IsWalk(Walk)
  BY <1>4 DEF Walk
<1>6. Walk = [n \in 0 .. Length |-> WalkStep(Walk, n)]
  BY <1>5 DEF IsWalk
<1> QED BY <1>6

\* A level adds to the one below it the messages that follow its own.
LEMMA WalkLevels ==
  ASSUME PayloadOK
  PROVE  /\ Walk[0] = {o \in {HeaderSize} : Whole(o)}
         /\ \A n \in 0 .. Length - 1 :
              Walk[n + 1] = Walk[n] \cup
                {o \in 0 .. Length :
                   /\ Whole(o)
                   /\ \E q \in Walk[n] : o = q + MsgSize(payload, q)}
<1>1. 0 \in 0 .. Length
  BY DEF PayloadOK
<1>2. ASSUME NEW n \in 0 .. Length - 1
      PROVE  /\ n + 1 \in 0 .. Length /\ n + 1 # 0 /\ (n + 1) - 1 = n
             /\ Walk[n + 1] = WalkStep(Walk, n + 1)
  <2>1. n + 1 \in 0 .. Length /\ n + 1 # 0 /\ (n + 1) - 1 = n
    BY DEF PayloadOK
  <2> QED BY <2>1, WalkExists
<1>3. Walk[0] = WalkStep(Walk, 0)
  BY <1>1, WalkExists
<1>4. ASSUME NEW n \in 0 .. Length - 1
      PROVE  Walk[n + 1] = Walk[n] \cup
               {o \in 0 .. Length :
                  /\ Whole(o)
                  /\ \E q \in Walk[n] : o = q + MsgSize(payload, q)}
  <2> DEFINE m == n + 1
  <2>1. Walk[m] = WalkStep(Walk, m) /\ ~(m = 0) /\ m - 1 = n
    BY <1>2
  <2> HIDE DEF m
  <2>2. WalkStep(Walk, m) = Walk[m - 1] \cup
               {o \in 0 .. Length :
                  /\ Whole(o)
                  /\ \E q \in Walk[m - 1] : o = q + MsgSize(payload, q)}
    BY <2>1, Zenon DEF WalkStep
  <2>3. Walk[m] = Walk[n] \cup
               {o \in 0 .. Length :
                  /\ Whole(o)
                  /\ \E q \in Walk[n] : o = q + MsgSize(payload, q)}
    BY <2>1, <2>2, Zenon
  <2> QED BY <2>3 DEF m
<1>5. Walk[0] = {o \in {HeaderSize} : Whole(o)}
  BY <1>3 DEF WalkStep
<1> QED BY <1>4, <1>5

\* What there is on a level, and that a level adds nothing early in the payload.
LEMMA WalkContents ==
  ASSUME PayloadOK, NEW n \in 0 .. Length
  PROVE  /\ Whole(HeaderSize) => HeaderSize \in Walk[n]
         /\ \A o \in Walk[n] :
              /\ o \in 0 .. Length /\ Whole(o) /\ o >= HeaderSize
              /\ o = HeaderSize \/ \E q \in Walk[n] : o = q + MsgSize(payload, q)
         /\ n > 0 => \A o \in Walk[n] : o < 2 * n => o \in Walk[n - 1]
<1> DEFINE Contents(m) ==
             /\ Whole(HeaderSize) => HeaderSize \in Walk[m]
             /\ \A o \in Walk[m] :
                  /\ o \in 0 .. Length /\ Whole(o) /\ o >= HeaderSize
                  /\ o = HeaderSize \/ \E q \in Walk[m] : o = q + MsgSize(payload, q)
             /\ m > 0 => \A o \in Walk[m] : o < 2 * m => o \in Walk[m - 1]
           Good == {m \in Nat : m <= Length => Contents(m)}
<1>1. 0 \in Good
  <2>1. Walk[0] = {o \in {HeaderSize} : Whole(o)}
    BY WalkLevels
  <2>2. Whole(HeaderSize) => HeaderSize \in 0 .. Length
    BY DEF Whole, MsgHeaderSize, PayloadOK
  <2>3. Contents(0)
    BY <2>1, <2>2
  <2> QED BY <2>3
<1>2. ASSUME NEW m \in Good PROVE m + 1 \in Good
  <2> SUFFICES ASSUME m + 1 <= Length PROVE Contents(m + 1)
    <3> HIDE DEF Contents
    <3>1. m + 1 \in Nat
      OBVIOUS
    <3> QED BY <3>1
  <2>1. m \in Nat /\ m \in 0 .. Length - 1 /\ Contents(m)
    BY DEF PayloadOK
  <2>2. Walk[m + 1] = Walk[m] \cup
          {o \in 0 .. Length :
             /\ Whole(o)
             /\ \E q \in Walk[m] : o = q + MsgSize(payload, q)}
    BY <2>1, WalkLevels
  <2>3. Whole(HeaderSize) => HeaderSize \in Walk[m + 1]
    BY <2>1, <2>2
  <2>4. ASSUME NEW o \in Walk[m + 1]
        PROVE  /\ o \in 0 .. Length /\ Whole(o) /\ o >= HeaderSize
               /\ o = HeaderSize \/ \E q \in Walk[m + 1] : o = q + MsgSize(payload, q)
    <3>1. CASE o \in Walk[m]
      BY <3>1, <2>1, <2>2
    <3>2. CASE o \notin Walk[m]
      <4>1. /\ o \in 0 .. Length /\ Whole(o)
            /\ \E q \in Walk[m] : o = q + MsgSize(payload, q)
        BY <3>2, <2>2
      <4>2. PICK q \in Walk[m] : o = q + MsgSize(payload, q)
        BY <4>1
      <4>3. q \in Nat /\ Whole(q) /\ q >= HeaderSize /\ q \in Walk[m + 1]
        BY <2>1, <2>2
      <4>4. o >= HeaderSize
        BY <4>2, <4>3, WholeSize
      <4> QED BY <4>1, <4>2, <4>3, <4>4
    <3> QED BY <3>1, <3>2
  <2>5. ASSUME NEW o \in Walk[m + 1], o < 2 * (m + 1)
        PROVE  o \in Walk[m]
    <3> SUFFICES ASSUME o \notin Walk[m] PROVE FALSE
      OBVIOUS
    <3>1. /\ o \in 0 .. Length /\ Whole(o)
          /\ \E q \in Walk[m] : o = q + MsgSize(payload, q)
      BY <2>2
    <3>2. PICK q \in Walk[m] : o = q + MsgSize(payload, q)
      BY <3>1
    <3>3. q \in Nat /\ Whole(q)
      BY <2>1
    <3>4. q < 2 * m /\ m > 0
      BY <2>1, <2>5, <3>2, <3>3, WholeSize
    <3>5. q \in Walk[m - 1]
      BY <2>1, <3>4
    <3>6. m - 1 \in 0 .. Length - 1 /\ (m - 1) + 1 = m
      BY <2>1, <3>4 DEF PayloadOK
    <3>7. Walk[m] = Walk[m - 1] \cup
            {x \in 0 .. Length :
               /\ Whole(x)
               /\ \E r \in Walk[m - 1] : x = r + MsgSize(payload, r)}
      BY <3>6, WalkLevels
    <3> QED BY <3>1, <3>2, <3>5, <3>7
  <2>6. (m + 1) - 1 = m
    BY <2>1
  <2> QED BY <2>3, <2>4, <2>5, <2>6
<1>3. n \in Good
  <2> HIDE DEF Good
  <2>1. Good \subseteq Nat
    BY DEF Good
  <2>2. Good = Nat
    BY <1>1, <1>2, <2>1, SetInduction
  <2> QED BY <2>2 DEF PayloadOK
<1> QED BY <1>3

\* The messages of the payload: a chain of whole messages from the header on.
StartsAreChain ==
  /\ Whole(HeaderSize) => HeaderSize \in MessageStarts
  /\ \A o \in MessageStarts :
       /\ o \in Nat /\ Whole(o) /\ o >= HeaderSize
       /\ \/ o = HeaderSize
          \/ \E q \in MessageStarts : o = q + MsgSize(payload, q)
  /\ \A q \in MessageStarts :
       Whole(q + MsgSize(payload, q)) =>
         q + MsgSize(payload, q) \in MessageStarts

LEMMA StartsFacts == PayloadOK => StartsAreChain
<1> SUFFICES ASSUME PayloadOK PROVE StartsAreChain
  OBVIOUS
<1>1. Length \in 0 .. Length
  BY DEF PayloadOK
<1>2. /\ Whole(HeaderSize) => HeaderSize \in Walk[Length]
      /\ \A o \in Walk[Length] :
           /\ o \in 0 .. Length /\ Whole(o) /\ o >= HeaderSize
           /\ \/ o = HeaderSize
              \/ \E q \in Walk[Length] : o = q + MsgSize(payload, q)
      /\ Length > 0 =>
           \A o \in Walk[Length] : o < 2 * Length => o \in Walk[Length - 1]
  BY <1>1, WalkContents
<1>3. ASSUME NEW q \in Walk[Length], Whole(q + MsgSize(payload, q))
      PROVE  q + MsgSize(payload, q) \in Walk[Length]
  <2> DEFINE o == q + MsgSize(payload, q)
             n == Length - 1
  <2>1. q \in Nat /\ Whole(q)
    BY <1>2
  <2>2. o \in 0 .. Length /\ q < Length /\ Length > 0
    BY <2>1, WholeSize DEF PayloadOK
  <2>3. q \in Walk[n]
    BY <1>2, <2>1, <2>2 DEF PayloadOK
  <2>4. n \in 0 .. Length - 1 /\ n + 1 = Length
    BY <2>2 DEF PayloadOK
  <2>5. Walk[n + 1] = Walk[n] \cup
          {x \in 0 .. Length :
             /\ Whole(x)
             /\ \E r \in Walk[n] : x = r + MsgSize(payload, r)}
    BY <2>4, WalkLevels
  <2> HIDE DEF n
  <2>6. o \in Walk[n + 1]
    BY <1>3, <2>2, <2>3, <2>5
  <2> QED BY <2>4, <2>6
<1> QED BY <1>2, <1>3, StartsAreWalk DEF StartsAreChain

\* The same of the next payload.
LEMMA StartsFactsNext == PayloadOK' => StartsAreChain'
<1>1. PayloadOK => StartsAreChain
  BY StartsFacts
<1> QED BY <1>1, PTL

(***************************************************************************)
(* If every message that begins before `at` ends there at the latest, then *)
(* one that begins after it follows the message at `at`.                   *)
(***************************************************************************)
LEMMA NothingBetween ==
  ASSUME PayloadOK, NEW at \in Nat, at >= HeaderSize,
         \A q \in MessageStarts : q < at => q + MsgSize(payload, q) <= at
  PROVE  \A o \in MessageStarts :
           o > at => at \in MessageStarts /\ at + MsgSize(payload, at) <= o
<1> DEFINE Behind(o) == at \in MessageStarts /\ at + MsgSize(payload, at) <= o
           Bad == {o \in MessageStarts : o > at /\ ~Behind(o)}
<1> SUFFICES ASSUME Bad # {} PROVE FALSE
  OBVIOUS
<1>1. Bad \subseteq Nat
  BY StartsFacts DEF StartsAreChain
<1>2. PICK o \in Bad : \A x \in Bad : o <= x
  BY <1>1, LeastNat
<1>3. PICK q \in MessageStarts : o = q + MsgSize(payload, q)
  BY StartsFacts DEF StartsAreChain
<1>4. /\ q \in Nat /\ MsgSize(payload, q) \in Nat /\ MsgSize(payload, q) >= 2
      /\ o \in Nat /\ q < o /\ o > at
  <2>1. q \in Nat /\ Whole(q)
    BY StartsFacts DEF StartsAreChain
  <2>2. MsgSize(payload, q) \in Nat /\ MsgSize(payload, q) >= 2
    BY <2>1, WholeSize
  <2> QED BY <1>3, <2>1, <2>2
<1>5. CASE q < at
  BY <1>3, <1>4, <1>5
<1>6. CASE q = at
  BY <1>2, <1>3, <1>4, <1>6
<1>7. CASE q > at
  <2>1. Behind(q)
    BY <1>2, <1>4, <1>7
  <2>2. MsgSize(payload, at) \in Nat
    BY <2>1, StartsFacts, WholeSize DEF StartsAreChain
  <2> QED BY <1>2, <1>4, <2>1, <2>2
<1> QED BY <1>4, <1>5, <1>6, <1>7
-----------------------------------------------------------------------------
(* The inductive invariant. *)

CallRecord ==
  [kind : {"begin"}, header : [0 .. HeaderSize - 1 -> Byte], accept : BOOLEAN]
    \cup [kind : {"msg"}, at : Nat, id : Byte, size : Nat]
    \cup [kind : {"end"}]

ParserTypeOK ==
  /\ registered \subseteq {"begin", "msg", "end"}
  /\ hooked \in BOOLEAN /\ parsing \in BOOLEAN
  /\ PayloadOK
  /\ offset \in Nat
  /\ calls \in Seq(CallRecord)

(***************************************************************************)
(* Inside the loop: if a message lies at the offset it is one of the       *)
(* payload's; those that begin earlier end earlier and have been handed    *)
(* over, if a table knows them; nothing further on has.                    *)
(***************************************************************************)
LoopInv ==
  parsing =>
    /\ offset >= HeaderSize
    /\ "begin" \in registered => calls # <<>>
    /\ MessageAtOffset => offset \in MessageStarts
    /\ \A q \in MessageStarts : q < offset => q + MsgSize(payload, q) <= offset
    /\ \A i \in Kinds("msg") : calls[i].at < offset
    /\ "msg" \in registered =>
         \A o \in MessageStarts :
           o < offset /\ payload[o] \in DOMAIN BuiltIn =>
             \E i \in Kinds("msg") : calls[i].at = o

ParserInv == ParserTypeOK /\ CallbackOrder /\ EveryMessageOnce /\ LoopInv

\* A sequence grows by one element, or by none.
LEMMA OneMore ==
  ASSUME NEW S, NEW s \in Seq(S), NEW r \in S
  PROVE  /\ DOMAIN s = 1 .. Len(s) /\ Len(s) \in Nat
         /\ s \o <<r>> \in Seq(S) /\ Len(s \o <<r>>) = Len(s) + 1
         /\ DOMAIN (s \o <<r>>) = 1 .. Len(s) + 1
         /\ \A i \in 1 .. Len(s) : (s \o <<r>>)[i] = s[i]
         /\ (s \o <<r>>)[Len(s) + 1] = r
OBVIOUS

LEMMA NoneMore == ASSUME NEW S, NEW s \in Seq(S) PROVE s \o <<>> = s
OBVIOUS

LEMMA InitInv == Init => ParserInv
<1> SUFFICES ASSUME Init PROVE ParserInv
  OBVIOUS
<1>1. DOMAIN payload = {} /\ Length = 0
  BY FS_EmptySet DEF Init, Length
<1>7. PayloadOK
  BY <1>1 DEF PayloadOK
<1>8. calls \in Seq(CallRecord)
  <2>1. calls = <<>>
    BY DEF Init
  <2> QED BY <2>1
<1>2. ParserTypeOK
  BY <1>7, <1>8 DEF Init, ParserTypeOK
<1>3. \A kind : Kinds(kind) = {}
  BY DEF Init, Kinds
<1>4. CallbackOrder
  BY <1>1, <1>3 DEF Init, CallbackOrder
<1>5. EveryMessageOnce
  BY <1>3 DEF EveryMessageOnce
<1>6. LoopInv
  BY DEF Init, LoopInv
<1> QED BY <1>2, <1>4, <1>5, <1>6 DEF ParserInv

LEMMA OnFrameInv ==
  ASSUME ParserInv, NEW p \in Payloads, OnFrame(p)
  PROVE  ParserInv'
<1>1. /\ PayloadOK' /\ offset' = HeaderSize
      /\ UNCHANGED <<registered, hooked>>
      /\ Length' = Cardinality(DOMAIN p)
  BY PayloadLength DEF OnFrame, PayloadOK, Length
<1>2. /\ parsing' \in BOOLEAN
      /\ Length' < HeaderSize => parsing' = FALSE /\ calls' = <<>>
      /\ ~(Length' < HeaderSize) =>
           \E accept \in BOOLEAN :
             /\ parsing' = ("begin" \in registered => accept)
             /\ calls' = IF "begin" \in registered
                         THEN <<BeginRecord(p, accept)>> ELSE <<>>
  BY <1>1 DEF OnFrame, Call, ParserInv, ParserTypeOK
<1>3. \/ calls' = <<>> /\ (parsing' => "begin" \notin registered)
         /\ (~parsing' => Length' < HeaderSize)
      \/ /\ "begin" \in registered /\ ~(Length' < HeaderSize)
         /\ \E accept \in BOOLEAN :
              calls' = <<BeginRecord(p, accept)>> /\ parsing' = accept
  BY <1>2
<1>10. /\ calls' = <<>> => Len(calls') = 0 /\ DOMAIN calls' = {}
       /\ \A r : calls' = <<r>> => /\ calls' # <<>> /\ Len(calls') = 1
                                 /\ DOMAIN calls' = {1} /\ calls'[1] = r
  <2>1. <<>> = <<>> => Len(<<>>) = 0 /\ DOMAIN <<>> = {}
    OBVIOUS
  <2>2. \A r : <<r>> # <<>> /\ Len(<<r>>) = 1 /\ DOMAIN <<r>> = {1} /\ <<r>>[1] = r
    OBVIOUS
  <2> QED BY <2>1, <2>2
<1>4. calls' \in Seq(CallRecord)
  <2>1. ASSUME NEW accept \in BOOLEAN, ~(Length' < HeaderSize)
        PROVE  BeginRecord(p, accept) \in CallRecord
    <3>1. \A k \in 0 .. HeaderSize - 1 : p[0 + k] \in Byte
      BY <1>1, <2>1, PayloadLength
    <3>2. Slice(p, 0, HeaderSize) \in [0 .. HeaderSize - 1 -> Byte]
      BY <3>1 DEF Slice
    <3> QED BY <3>2 DEF BeginRecord, CallRecord
  <2>2. \A r \in CallRecord : <<r>> \in Seq(CallRecord)
    OBVIOUS
  <2>3. <<>> \in Seq(CallRecord)
    OBVIOUS
  <2> QED BY <1>3, <2>1, <2>2, <2>3
<1>5. ParserTypeOK'
  BY <1>1, <1>2, <1>4 DEF ParserTypeOK, ParserInv
<1>6. /\ \A i \in DOMAIN calls' : calls'[i].kind = "begin" /\ i = 1
      /\ Kinds("msg")' = {} /\ Kinds("end")' = {}
  BY <1>3 DEF BeginRecord, Kinds
<1>7. CallbackOrder'
  <2>1. CASE calls' = <<>>
    <3>1. parsing' => "begin" \notin registered /\ ~(Length' < HeaderSize)
      BY <1>2, <1>3, <1>10, <2>1
    <3>2. ~parsing' => Length' < HeaderSize
      BY <1>3, <1>10, <2>1
    <3>3. Length' \in Nat /\ DOMAIN calls' = {} /\ registered' = registered
      BY <1>1, <1>10, <2>1 DEF PayloadOK
    <3> QED BY <2>1, <3>1, <3>2, <3>3 DEF CallbackOrder, Kinds
  <2>2. ASSUME NEW accept \in BOOLEAN, calls' = <<BeginRecord(p, accept)>>,
               parsing' = accept, "begin" \in registered, ~(Length' < HeaderSize)
        PROVE  CallbackOrder'
    <3>1. /\ Len(calls') = 1 /\ DOMAIN calls' = {1} /\ calls' # <<>>
          /\ calls'[1].kind = "begin" /\ calls'[1].accept = accept
      BY <2>2 DEF BeginRecord
    <3> QED BY <1>1, <1>6, <2>2, <3>1 DEF CallbackOrder, Kinds
  <2> QED BY <1>3, <2>1, <2>2
<1>8. EveryMessageOnce'
  BY <1>6 DEF EveryMessageOnce
<1>9. LoopInv'
  <2>1. StartsAreChain'
    BY <1>1, StartsFactsNext
  <2>2. /\ MessageAtOffset' => HeaderSize \in MessageStarts'
        /\ \A q \in MessageStarts' : q \in Nat /\ q >= HeaderSize
    BY <1>1, <2>1 DEF StartsAreChain, MessageAtOffset, Whole
  <2>3. parsing' /\ "begin" \in registered => calls' # <<>>
    BY <1>3, <1>10
  <2> QED BY <1>1, <1>6, <2>2, <2>3 DEF LoopInv
<1> QED BY <1>5, <1>7, <1>8, <1>9 DEF ParserInv

\* MessageStarts as a function of the payload and its length.
StartsIn(p, length) ==
  LET Fits(o) == /\ o + MsgHeaderSize <= length
                 /\ o + MsgSize(p, o) <= length
      walk[n \in 0 .. length] ==
        IF n = 0 THEN {o \in {HeaderSize} : Fits(o)}
        ELSE walk[n - 1] \cup
               {o \in 0 .. length :
                  /\ Fits(o)
                  /\ \E q \in walk[n - 1] : o = q + MsgSize(p, q)}
  IN  walk[length]

LEMMA StartsOfPayload == MessageStarts = StartsIn(payload, Length)
BY DEF MessageStarts, StartsIn

\* What depends on the payload alone.
LEMMA SamePayload ==
  ASSUME payload' = payload
  PROVE  /\ Length' = Length /\ MessageStarts' = MessageStarts
         /\ PayloadOK => PayloadOK'
<1>1. Length' = Length
  BY DEF Length
<1>2. MessageStarts' = MessageStarts
  <2>1. MessageStarts = StartsIn(payload, Length)
    BY StartsOfPayload
  <2>2. MessageStarts' = StartsIn(payload', Length')
    BY DEF MessageStarts, StartsIn
  <2> QED BY <1>1, <2>1, <2>2
<1> QED BY <1>1, <1>2 DEF PayloadOK

\* The calls made before a step are still there after it.
LEMMA CallsGrow ==
  ASSUME calls \in Seq(CallRecord), NEW r \in CallRecord, calls' = calls \o <<r>>
  PROVE  /\ calls' \in Seq(CallRecord) /\ Len(calls') = Len(calls) + 1
         /\ Len(calls) \in Nat /\ DOMAIN calls = 1 .. Len(calls)
         /\ DOMAIN calls' = 1 .. Len(calls) + 1
         /\ \A i \in 1 .. Len(calls) : calls'[i] = calls[i]
         /\ calls'[Len(calls) + 1] = r
         /\ \A kind : Kinds(kind)' =
              IF r.kind = kind THEN Kinds(kind) \cup {Len(calls) + 1}
              ELSE Kinds(kind)
<1>1. /\ calls' \in Seq(CallRecord) /\ Len(calls') = Len(calls) + 1
      /\ Len(calls) \in Nat /\ DOMAIN calls = 1 .. Len(calls)
      /\ DOMAIN calls' = 1 .. Len(calls) + 1
      /\ \A i \in 1 .. Len(calls) : calls'[i] = calls[i]
      /\ calls'[Len(calls) + 1] = r
  BY OneMore
<1>2. ASSUME NEW kind
      PROVE  Kinds(kind)' = IF r.kind = kind THEN Kinds(kind) \cup {Len(calls) + 1}
                            ELSE Kinds(kind)
  <2>1. Kinds(kind)' = {i \in 1 .. Len(calls) + 1 : calls'[i].kind = kind}
    BY <1>1 DEF Kinds
  <2>2. Kinds(kind) = {i \in 1 .. Len(calls) : calls[i].kind = kind}
    BY <1>1 DEF Kinds
  <2> QED BY <1>1, <2>1, <2>2
<1> QED BY <1>1, <1>2

LEMMA OnMsgInv ==
  ASSUME ParserInv, OnMsg
  PROVE  ParserInv'
<1> DEFINE size == MsgSize(payload, offset)
           id == payload[offset]
           r == [kind |-> "msg", at |-> offset, id |-> id, size |-> Decoded(id)]
<1>1. /\ PayloadOK /\ offset \in Nat /\ calls \in Seq(CallRecord)
      /\ parsing /\ MessageAtOffset /\ offset' = offset + size
      /\ UNCHANGED <<registered, hooked, payload, parsing>>
      /\ calls' = calls \o MsgCall
  BY DEF ParserInv, ParserTypeOK, OnMsg
<1>2. /\ Whole(offset) /\ size \in Nat /\ size >= 2 /\ id \in Byte
  BY <1>1, WholeSize DEF MessageAtOffset, Whole
<1>3. /\ Length' = Length /\ MessageStarts' = MessageStarts /\ PayloadOK'
  BY <1>1, SamePayload
<1>4. StartsAreChain
  BY <1>1, StartsFacts
<1>5. /\ offset \in MessageStarts /\ offset >= HeaderSize
      /\ \A q \in MessageStarts : q < offset => q + MsgSize(payload, q) <= offset
      /\ \A i \in Kinds("msg") : calls[i].at < offset
      /\ Kinds("end") = {}
  BY <1>1 DEF ParserInv, LoopInv, CallbackOrder
<1>6. \A q \in MessageStarts : q < offset' =>
        q <= offset /\ q + MsgSize(payload, q) <= offset'
  <2> SUFFICES ASSUME NEW q \in MessageStarts, q < offset'
               PROVE  q <= offset /\ q + MsgSize(payload, q) <= offset'
    OBVIOUS
  <2>1. q \in Nat /\ MsgSize(payload, q) \in Nat
    BY <1>1, <1>4, WholeSize DEF StartsAreChain
  <2>2. q > offset => offset + size <= q
    BY <1>1, <1>5, NothingBetween
  <2>3. q <= offset
    BY <1>1, <1>2, <2>1, <2>2
  <2>4. CASE q = offset
    BY <1>1, <1>2, <2>4
  <2>5. CASE q < offset
    BY <1>1, <1>2, <1>5, <2>1, <2>5
  <2> QED BY <1>1, <2>1, <2>3, <2>4, <2>5
<1>7. MessageAtOffset' => offset' \in MessageStarts'
  <2>1. MessageAtOffset' => Whole(offset + size)
    BY <1>1, <1>3 DEF MessageAtOffset, Whole
  <2> QED BY <1>1, <1>3, <1>4, <1>5, <2>1 DEF StartsAreChain
<1>8. offset' \in Nat /\ offset' > offset /\ offset' >= HeaderSize
  BY <1>1, <1>2, <1>5
<1>9. \/ /\ calls' = calls
         /\ "msg" \in registered => id \notin DOMAIN BuiltIn
      \/ /\ calls' = calls \o <<r>> /\ "msg" \in registered
         /\ Decoded(id) \in Nat
         /\ IF id \in DOMAIN BuiltIn THEN Decoded(id) = BuiltIn[id]
            ELSE id \in DOMAIN Extension /\ Decoded(id) = Extension[id]
  <2>1. Decoded(id) = Unknown \/ Decoded(id) \in Nat
    BY DEF Decoded, Unknown
  <2>2. Decoded(id) = Unknown => id \notin DOMAIN BuiltIn
    BY DEF Decoded, Unknown
  <2>3. CASE Decoded(id) = Unknown \/ "msg" \notin registered
    <3>1. MsgCall = <<>>
      BY <2>3 DEF MsgCall, Call
    <3>2. calls' = calls
      BY <1>1, <3>1, NoneMore
    <3> QED BY <2>2, <2>3, <3>2
  <2>4. CASE Decoded(id) # Unknown /\ "msg" \in registered
    <3>1. MsgCall = <<r>>
      BY <2>4 DEF MsgCall, Call
    <3>2. IF id \in DOMAIN BuiltIn THEN Decoded(id) = BuiltIn[id]
          ELSE id \in DOMAIN Extension /\ Decoded(id) = Extension[id]
      BY <2>4 DEF Decoded
    <3> QED BY <1>1, <2>1, <2>4, <3>1, <3>2
  <2> QED BY <2>3, <2>4
<1>10. CASE /\ calls' = calls
            /\ "msg" \in registered => id \notin DOMAIN BuiltIn
  <2>1. \A kind : Kinds(kind)' = Kinds(kind)
    BY <1>10 DEF Kinds
  <2>2. ParserTypeOK'
    BY <1>1, <1>3, <1>8, <1>10 DEF ParserInv, ParserTypeOK
  <2>3. CallbackOrder'
    BY <1>1, <1>3, <1>10, <2>1 DEF ParserInv, CallbackOrder
  <2>4. EveryMessageOnce'
    BY <1>1, <1>3, <1>10, <2>1 DEF ParserInv, EveryMessageOnce
  <2>5. \A i \in Kinds("msg") : calls[i].at < offset'
    <3>1. \A i \in Kinds("msg") : calls[i].at \in Nat
      BY <1>1 DEF Kinds, CallRecord
    <3> QED BY <1>1, <1>5, <1>8, <3>1
  <2>6. "msg" \in registered =>
          \A o \in MessageStarts :
            o < offset' /\ payload[o] \in DOMAIN BuiltIn =>
              \E i \in Kinds("msg") : calls[i].at = o
    <3> SUFFICES ASSUME "msg" \in registered, NEW o \in MessageStarts,
                        o < offset', payload[o] \in DOMAIN BuiltIn
                 PROVE  \E i \in Kinds("msg") : calls[i].at = o
      OBVIOUS
    <3>1. o \in Nat /\ o <= offset /\ o # offset
      BY <1>4, <1>6, <1>10 DEF StartsAreChain
    <3> QED BY <1>1, <3>1 DEF ParserInv, LoopInv
  <2>7. LoopInv'
    BY <1>1, <1>3, <1>6, <1>7, <1>8, <1>10, <2>1, <2>5, <2>6
    DEF ParserInv, LoopInv
  <2> QED BY <2>2, <2>3, <2>4, <2>7 DEF ParserInv
<1> HIDE DEF r
<1>11. CASE /\ calls' = calls \o <<r>> /\ "msg" \in registered
            /\ Decoded(id) \in Nat
            /\ IF id \in DOMAIN BuiltIn THEN Decoded(id) = BuiltIn[id]
               ELSE id \in DOMAIN Extension /\ Decoded(id) = Extension[id]
  <2> DEFINE n == Len(calls)
  <2>1. /\ r \in CallRecord /\ r.kind = "msg" /\ r.at = offset
        /\ r.id = id /\ r.size = Decoded(id)
    BY <1>1, <1>2, <1>11 DEF r, CallRecord
  <2>2. /\ calls' \in Seq(CallRecord) /\ Len(calls') = n + 1
        /\ n \in Nat /\ DOMAIN calls = 1 .. n /\ DOMAIN calls' = 1 .. n + 1
        /\ \A i \in 1 .. n : calls'[i] = calls[i]
        /\ calls'[n + 1] = r
        /\ Kinds("begin")' = Kinds("begin") /\ Kinds("end")' = Kinds("end")
        /\ Kinds("msg")' = Kinds("msg") \cup {n + 1}
    BY <1>1, <1>11, <2>1, CallsGrow
  <2>3. \A kind : Kinds(kind) \subseteq 1 .. n
    BY <2>2 DEF Kinds
  <2> HIDE DEF n
  <2>4. ParserTypeOK'
    BY <1>1, <1>3, <1>8, <2>2 DEF ParserInv, ParserTypeOK
  <2>5. CallbackOrder'
    <3>1. "begin" \in registered => calls # <<>> /\ calls[1].kind = "begin"
      BY <1>1 DEF ParserInv, LoopInv, CallbackOrder
    <3>2. "begin" \in registered => 1 \in 1 .. n
      BY <1>1, <2>2, <3>1 DEF n
    <3>3. "begin" \in registered => calls'[1].kind = "begin"
      BY <2>2, <3>1, <3>2
    <3>4. \A i \in DOMAIN calls' : calls'[i].kind \in registered'
      BY <1>1, <1>11, <2>1, <2>2 DEF ParserInv, CallbackOrder
    <3>5. \A i \in Kinds("begin")' : i = 1 /\ calls'[i].accept
      BY <1>1, <2>2, <2>3 DEF ParserInv, CallbackOrder
    <3>6. ~(Length' < HeaderSize)
      BY <1>1, <1>3 DEF ParserInv, CallbackOrder
    <3> QED BY <1>1, <1>5, <2>2, <3>3, <3>4, <3>5, <3>6 DEF CallbackOrder
  <2>6. EveryMessageOnce'
    <3>1. ASSUME NEW i \in Kinds("msg")', NEW j \in Kinds("msg")', i < j
          PROVE  calls'[i].at < calls'[j].at
      <4>1. i \in Kinds("msg") /\ calls'[i] = calls[i] /\ i \in 1 .. n
        BY <2>2, <2>3, <3>1
      <4>2. CASE j \in Kinds("msg")
        <5>1. calls'[j] = calls[j]
          BY <2>2, <2>3, <4>2
        <5> QED BY <3>1, <4>1, <4>2, <5>1 DEF ParserInv, EveryMessageOnce
      <4>3. CASE j = n + 1
        BY <1>5, <2>1, <2>2, <4>1, <4>3
      <4> QED BY <2>2, <4>2, <4>3
    <3>2. \A i \in Kinds("msg")' :
            /\ calls'[i].at \in MessageStarts'
            /\ calls'[i].id = payload'[calls'[i].at]
            /\ IF calls'[i].id \in DOMAIN BuiltIn
               THEN calls'[i].size = BuiltIn[calls'[i].id]
               ELSE /\ calls'[i].id \in DOMAIN Extension
                    /\ calls'[i].size = Extension[calls'[i].id]
      BY SMTT(30), <1>1, <1>3, <1>5, <1>11, <2>1, <2>2, <2>3
      DEF ParserInv, EveryMessageOnce
    <3> QED BY <1>5, <2>2, <3>1, <3>2 DEF EveryMessageOnce
  <2>7. LoopInv'
    <3>1. \A i \in Kinds("msg")' : calls'[i].at < offset'
      <4>1. \A i \in Kinds("msg") : calls[i].at \in Nat
        BY <1>1 DEF Kinds, CallRecord
      <4> QED BY SMTT(30), <1>1, <1>5, <1>8, <2>1, <2>2, <2>3, <4>1
    <3>2. ASSUME NEW o \in MessageStarts, o < offset', payload[o] \in DOMAIN BuiltIn
          PROVE  \E i \in Kinds("msg")' : calls'[i].at = o
      <4>1. o \in Nat /\ o <= offset
        BY <1>4, <1>6, <3>2 DEF StartsAreChain
      <4>2. CASE o = offset
        BY <2>1, <2>2, <4>2
      <4>3. CASE o < offset
        <5>1. PICK i \in Kinds("msg") : calls[i].at = o
          BY <1>1, <1>11, <3>2, <4>3 DEF ParserInv, LoopInv
        <5> QED BY <2>2, <2>3, <5>1
      <4>4. offset \in Nat
        BY <1>1
      <4> QED BY <4>1, <4>2, <4>3, <4>4
    <3>3. calls' # <<>>
      BY <2>2
    <3> QED BY <1>1, <1>3, <1>6, <1>7, <1>8, <3>1, <3>2, <3>3 DEF LoopInv
  <2> QED BY <2>4, <2>5, <2>6, <2>7 DEF ParserInv
<1> QED BY <1>9, <1>10, <1>11 DEF r

\* At the end of the loop nothing is left: every message has begun before the
\* offset.
LEMMA OnEndInv ==
  ASSUME ParserInv, OnEnd
  PROVE  ParserInv'
<1> DEFINE r == [kind |-> "end"]
<1>1. /\ PayloadOK /\ offset \in Nat /\ calls \in Seq(CallRecord)
      /\ parsing /\ ~MessageAtOffset /\ parsing' = FALSE
      /\ UNCHANGED <<registered, hooked, payload, offset>>
      /\ calls' = calls \o Call("end", r)
  BY DEF ParserInv, ParserTypeOK, OnEnd
<1>2. /\ Length' = Length /\ MessageStarts' = MessageStarts /\ PayloadOK'
  BY <1>1, SamePayload
<1>3. StartsAreChain
  BY <1>1, StartsFacts
<1>4. /\ offset >= HeaderSize
      /\ \A q \in MessageStarts : q < offset => q + MsgSize(payload, q) <= offset
      /\ Kinds("end") = {}
      /\ \A i \in Kinds("begin") : i = 1 /\ calls[i].accept
      /\ "begin" \in registered => calls # <<>> /\ calls[1].kind = "begin"
      /\ ~(Length < HeaderSize)
  BY <1>1 DEF ParserInv, LoopInv, CallbackOrder
<1>5. offset \notin MessageStarts
  BY <1>1, <1>3 DEF StartsAreChain, MessageAtOffset, Whole
<1>6. \A o \in MessageStarts : o < offset
  <2> SUFFICES ASSUME NEW o \in MessageStarts PROVE o < offset
    OBVIOUS
  <2>1. ~(o > offset)
    BY <1>1, <1>4, <1>5, NothingBetween
  <2>2. o \in Nat /\ o # offset
    BY <1>3, <1>5 DEF StartsAreChain
  <2> QED BY <1>1, <2>1, <2>2
<1>7. "msg" \in registered =>
        \A o \in MessageStarts :
          payload[o] \in DOMAIN BuiltIn => \E i \in Kinds("msg") : calls[i].at = o
  BY <1>1, <1>6 DEF ParserInv, LoopInv
<1>8. LoopInv'
  BY <1>1 DEF LoopInv
<1>9. \/ calls' = calls /\ "end" \notin registered
      \/ calls' = calls \o <<r>> /\ "end" \in registered
  BY <1>1, NoneMore DEF Call
<1>10. CASE calls' = calls /\ "end" \notin registered
  <2>1. \A kind : Kinds(kind)' = Kinds(kind)
    BY <1>10 DEF Kinds
  <2>2. ParserTypeOK'
    BY <1>1, <1>2, <1>10 DEF ParserInv, ParserTypeOK
  <2>3. CallbackOrder'
    BY <1>1, <1>2, <1>10, <2>1 DEF ParserInv, CallbackOrder
  <2>4. EveryMessageOnce'
    BY <1>1, <1>2, <1>10, <2>1 DEF ParserInv, EveryMessageOnce
  <2> QED BY <1>8, <2>2, <2>3, <2>4 DEF ParserInv
<1> HIDE DEF r
<1>11. CASE calls' = calls \o <<r>> /\ "end" \in registered
  <2> DEFINE n == Len(calls)
  <2>1. r \in CallRecord /\ r.kind = "end"
    BY DEF r, CallRecord
  <2>2. /\ calls' \in Seq(CallRecord) /\ Len(calls') = n + 1
        /\ n \in Nat /\ DOMAIN calls = 1 .. n /\ DOMAIN calls' = 1 .. n + 1
        /\ \A i \in 1 .. n : calls'[i] = calls[i]
        /\ calls'[n + 1] = r
        /\ Kinds("begin")' = Kinds("begin") /\ Kinds("msg")' = Kinds("msg")
        /\ Kinds("end")' = Kinds("end") \cup {n + 1}
    BY <1>1, <1>11, <2>1, CallsGrow
  <2>3. \A kind : Kinds(kind) \subseteq 1 .. n
    BY <2>2 DEF Kinds
  <2>4. "begin" \in registered => 1 \in 1 .. n
    BY <1>1, <1>4, <2>2
  <2> HIDE DEF n
  <2>5. ParserTypeOK'
    BY <1>1, <1>2, <2>2 DEF ParserInv, ParserTypeOK
  <2>6. CallbackOrder'
    <3>1. "begin" \in registered => calls'[1].kind = "begin"
      BY <1>4, <2>2, <2>4
    <3>2. \A i \in DOMAIN calls' : calls'[i].kind \in registered'
      BY SMTT(30), <1>1, <1>11, <2>1, <2>2 DEF ParserInv, CallbackOrder
    <3>3. \A i \in Kinds("begin")' : i = 1 /\ calls'[i].accept
      BY <1>4, <2>2, <2>3
    <3>4. Kinds("end")' = {n + 1} /\ n + 1 = Len(calls')
      BY <1>4, <2>2
    <3> QED BY <1>1, <1>2, <1>4, <3>1, <3>2, <3>3, <3>4 DEF CallbackOrder
  <2>7. EveryMessageOnce'
    <3>1. \A i \in Kinds("msg") : calls'[i] = calls[i]
      BY <2>2, <2>3
    <3>2. \A i, j \in Kinds("msg")' : i < j => calls'[i].at < calls'[j].at
      BY <2>2, <3>1 DEF ParserInv, EveryMessageOnce
    <3>3. ASSUME NEW i \in Kinds("msg")'
          PROVE  /\ calls'[i].at \in MessageStarts'
                 /\ calls'[i].id = payload'[calls'[i].at]
                 /\ IF calls'[i].id \in DOMAIN BuiltIn
                    THEN calls'[i].size = BuiltIn[calls'[i].id]
                    ELSE /\ calls'[i].id \in DOMAIN Extension
                         /\ calls'[i].size = Extension[calls'[i].id]
      <4>1. i \in Kinds("msg") /\ calls'[i] = calls[i]
        BY <2>2, <3>1
      <4>2. payload' = payload /\ MessageStarts' = MessageStarts
        BY <1>1, <1>2
      <4>3. /\ calls[i].at \in MessageStarts
            /\ calls[i].id = payload[calls[i].at]
            /\ IF calls[i].id \in DOMAIN BuiltIn
               THEN calls[i].size = BuiltIn[calls[i].id]
               ELSE /\ calls[i].id \in DOMAIN Extension
                    /\ calls[i].size = Extension[calls[i].id]
        BY <4>1 DEF ParserInv, EveryMessageOnce
      <4> QED BY <4>1, <4>2, <4>3
    <3>4. "msg" \in registered' =>
            \A o \in MessageStarts' :
              payload'[o] \in DOMAIN BuiltIn =>
                \E i \in Kinds("msg")' : calls'[i].at = o
      BY <1>1, <1>2, <1>7, <2>2, <3>1
    <3> QED BY <3>2, <3>3, <3>4 DEF EveryMessageOnce
  <2> QED BY <1>8, <2>5, <2>6, <2>7 DEF ParserInv
<1> QED BY <1>9, <1>10, <1>11 DEF r

\* The hook decides what is decoded from now on, not what has been.
LEMMA QuietInv ==
  ASSUME ParserInv, SetHook \/ UNCHANGED parserVars
  PROVE  ParserInv'
<1>1. /\ UNCHANGED <<registered, payload, offset, parsing, calls>>
      /\ hooked' \in BOOLEAN
  BY DEF SetHook, parserVars, ParserInv, ParserTypeOK
<1>2. /\ Length' = Length /\ MessageStarts' = MessageStarts
      /\ PayloadOK => PayloadOK'
  BY <1>1, SamePayload
<1>3. \A kind : Kinds(kind)' = Kinds(kind)
  BY <1>1 DEF Kinds
<1>4. ParserTypeOK'
  BY <1>1, <1>2 DEF ParserInv, ParserTypeOK
<1>5. CallbackOrder'
  BY <1>1, <1>2, <1>3 DEF ParserInv, CallbackOrder
<1>6. EveryMessageOnce'
  BY <1>1, <1>2, <1>3 DEF ParserInv, EveryMessageOnce
<1>7. MessageAtOffset' = MessageAtOffset
  BY <1>1, <1>2 DEF MessageAtOffset
<1>8. LoopInv'
  BY <1>1, <1>2, <1>3, <1>7 DEF ParserInv, LoopInv
<1> QED BY <1>4, <1>5, <1>6, <1>8 DEF ParserInv
-----------------------------------------------------------------------------
(***************************************************************************)
(* The parser's inductive invariant: the types, both properties below, and *)
(* what its loop has done so far.                                          *)
(***************************************************************************)
THEOREM ParserInvariant == Spec => []ParserInv
<1>1. Init => ParserInv
  BY InitInv
<1>2. ASSUME ParserInv, [Next]_parserVars PROVE ParserInv'
  <2>1. ASSUME NEW p \in Payloads, OnFrame(p) PROVE ParserInv'
    BY <1>2, <2>1, OnFrameInv
  <2>2. CASE OnMsg
    BY <1>2, <2>2, OnMsgInv
  <2>3. CASE OnEnd
    BY <1>2, <2>3, OnEndInv
  <2>4. CASE SetHook \/ UNCHANGED parserVars
    BY <1>2, <2>4, QuietInv
  <2> QED BY <1>2, <2>1, <2>2, <2>3, <2>4 DEF Next, ParseStep
<1> QED BY <1>1, <1>2, PTL DEF Spec

(***************************************************************************)
(* Whatever the payload, the callbacks registered and on_frame_begin's     *)
(* answer, the user sees begin, the messages and the end in that order,    *)
(* and nothing after a refusal.                                            *)
(***************************************************************************)
THEOREM CallbacksInOrder == Spec => []CallbackOrder
<1>1. ParserInv => CallbackOrder
  BY DEF ParserInv
<1> QED BY <1>1, ParserInvariant, PTL

(***************************************************************************)
(* Whatever the payload and whenever the hook is set, on_frame_msg is      *)
(* called once for each whole message a table knows, in wire order, for no *)
(* other, and a built-in message is decoded by its own table.              *)
(***************************************************************************)
THEOREM MessagesOnce == Spec => []EveryMessageOnce
<1>1. ParserInv => EveryMessageOnce
  BY DEF ParserInv
<1> QED BY <1>1, ParserInvariant, PTL
==============================================================================
