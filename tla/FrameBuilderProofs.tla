------------------------- MODULE FrameBuilderProofs -------------------------
(***************************************************************************)
(* Proofs about FrameBuilder: for every header, memory size, set of        *)
(* messages and sequence of calls, what `end` returns is receivable and    *)
(* holds exactly the accepted messages.                                    *)
(***************************************************************************)
EXTENDS FrameBuilder, InductionFacts, SequenceTheorems

USE FormatAssumption, MsgAssumption, BuilderAssumption

-----------------------------------------------------------------------------
(* Arithmetic of the format. *)

(***************************************************************************)
(* The checksum of bytes is a byte: the running sum of ubeacon_checksum.h  *)
(* exists, for every length, and each of its values fits the accumulator.  *)
(***************************************************************************)
THEOREM ChecksumIsByte ==
  ASSUME NEW n \in Nat, NEW bytes, \A k \in 0 .. n - 1 : bytes[k] \in Byte
  PROVE  Checksum(bytes, n) \in Byte
<1> DEFINE Step(f, k) == IF k = 0 THEN 0 ELSE (f[k - 1] + bytes[k - 1]) % ByteBase
           IsSum(f, m) == f = [k \in 0 .. m |-> Step(f, k)]
           Sums == {m \in Nat : \E f : IsSum(f, m)}
<1>1. 0 \in Sums
  <2> DEFINE f == [k \in 0 .. 0 |-> 0]
  <2>1. IsSum(f, 0)
    OBVIOUS
  <2> QED BY <2>1
<1>2. ASSUME NEW m \in Sums PROVE m + 1 \in Sums
  <2>1. PICK f : IsSum(f, m)
    OBVIOUS
  <2> DEFINE g == [k \in 0 .. m + 1 |->
                     IF k <= m THEN f[k] ELSE (f[m] + bytes[m]) % ByteBase]
  <2>2. ASSUME NEW k \in 0 .. m + 1 PROVE g[k] = Step(g, k)
    <3>1. CASE k = 0
      BY <3>1, <2>1
    <3>2. CASE k # 0 /\ k <= m
      <4>1. f[k] = (f[k - 1] + bytes[k - 1]) % ByteBase
        BY <3>2, <2>1
      <4>2. g[k] = f[k] /\ g[k - 1] = f[k - 1]
        BY <3>2
      <4> QED BY <3>2, <4>1, <4>2
    <3>3. CASE k = m + 1
      BY <3>3
    <3> QED BY <3>1, <3>2, <3>3
  <2>3. g = [k \in 0 .. m + 1 |-> Step(g, k)]
    <3> DEFINE h == [k \in 0 .. m + 1 |-> Step(g, k)]
    <3>1. \A k \in 0 .. m + 1 : g[k] = h[k]
      BY <2>2
    <3>2. /\ DOMAIN g = 0 .. m + 1 /\ DOMAIN h = 0 .. m + 1
          /\ g = [k \in DOMAIN g |-> g[k]] /\ h = [k \in DOMAIN h |-> h[k]]
      OBVIOUS
    <3> HIDE DEF g, h
    <3>3. g = h
      BY <3>1, <3>2
    <3> QED BY <3>3 DEF h
  <2>4. IsSum(g, m + 1)
    BY <2>3
  <2> HIDE DEF g, IsSum
  <2> QED BY <2>4
<1>3. n \in Sums
  <2> HIDE DEF Sums
  <2>1. Sums \subseteq Nat
    BY DEF Sums
  <2> QED BY <1>1, <1>2, <2>1, SetInduction
<1> DEFINE sum == CHOOSE f : IsSum(f, n)
<1>4. IsSum(sum, n)
  <2> HIDE DEF IsSum
  <2>1. \E f : IsSum(f, n)
    BY <1>3
  <2> QED BY <2>1
<1>5. Checksum(bytes, n) = sum[n]
  BY DEF Checksum
<1> HIDE DEF sum
<1> DEFINE Good == {k \in Nat : k <= n => sum[k] \in Byte}
<1>6. 0 \in Good
  BY <1>4 DEF Byte
<1>7. ASSUME NEW k \in Good PROVE k + 1 \in Good
  <2> SUFFICES ASSUME k + 1 <= n PROVE sum[k + 1] \in Byte
    OBVIOUS
  <2>1. sum[k] \in Byte /\ bytes[k] \in Byte
    OBVIOUS
  <2>2. sum[k + 1] = (sum[k] + bytes[k]) % ByteBase
    BY <1>4
  <2> DEFINE x == sum[k] + bytes[k]
  <2>3. x \in Nat
    BY <2>1 DEF Byte
  <2>4. sum[k + 1] = x % ByteBase
    BY <2>2
  <2> HIDE DEF x
  <2>5. x % ByteBase \in 0 .. ByteBase - 1
    BY <2>3
  <2> QED BY <2>4, <2>5 DEF Byte
<1>8. n \in Good
  <2> HIDE DEF Good
  <2>1. Good \subseteq Nat
    BY DEF Good
  <2> QED BY <1>6, <1>7, <2>1, SetInduction
<1> QED BY <1>5, <1>8

\* A size within the field's range is read back as it was written.
LEMMA SizeFieldBytes ==
  ASSUME NEW n \in Nat, n < ByteBase * ByteBase
  PROVE  /\ n % ByteBase \in Byte /\ n \div ByteBase \in Byte
         /\ (n % ByteBase) + ByteBase * (n \div ByteBase) = n
<1>1. ByteBase \in Nat /\ ByteBase >= 2
  OBVIOUS
<1>2. n % ByteBase \in 0 .. ByteBase - 1
  BY <1>1
<1>3. n \div ByteBase \in 0 .. ByteBase - 1
  BY <1>1
<1>4. ByteBase * (n \div ByteBase) + (n % ByteBase) = n
  BY <1>1
<1> QED BY <1>2, <1>3, <1>4 DEF Byte
-----------------------------------------------------------------------------
\* While a frame is under construction its head is that of a frame, it fits
\* memory and format, and every accepted message lies inside its payload.
HeadInv ==
  begun =>
    /\ frame[0] = FrameSOF
    /\ PayloadSize(frame, 0) \in Len(Header) .. FramePayloadSizeMax
    /\ FrameSize(frame, 0) <= MemSize
    /\ \A k \in DOMAIN accepted :
         /\ accepted[k].at >= FramePayloadOffset + Len(Header)
         /\ accepted[k].at + MsgHeaderSize + Len(accepted[k].raw)
              <= FramePayloadOffset + PayloadSize(frame, 0)

BuilderInv ==
  /\ TypeOK
  /\ HeadInv
  /\ MessagesIntact
  /\ RoomForChecksum
  /\ BuiltFrameReceivable
-----------------------------------------------------------------------------
\* The header is no longer than a payload may be, and so on: the arithmetic
\* of the constants.
LEMMA ConstantFacts ==
  /\ Len(Header) \in 0 .. FramePayloadSizeMax
  /\ FramePayloadSizeMax \in Nat
  /\ FramePayloadSizeMax < ByteBase * ByteBase
  /\ FramePayloadSizeMax + 4 = FrameSizeMax
  /\ MsgSizeBase \in Nat /\ MsgSizeBase > 0 /\ MsgSizeBase <= ByteBase
<1>1. Len(Header) \in Nat
  BY LenProperties
<1> QED BY <1>1 DEF FramePayloadSizeMax, FrameSizeMin

\* What writing the size field does to memory, and what it reads back as.
LEMMA SizeWritten ==
  ASSUME NEW mem \in [0 .. MemSize - 1 -> Byte], MemSize >= 4,
         NEW n \in 0 .. FramePayloadSizeMax
  PROVE  /\ WithPayloadSize(mem, n) \in [0 .. MemSize - 1 -> Byte]
         /\ PayloadSize(WithPayloadSize(mem, n), 0) = n
         /\ \A i \in 0 .. MemSize - 1 :
              i # 1 /\ i # 2 => WithPayloadSize(mem, n)[i] = mem[i]
<1>1. n \in Nat /\ n < ByteBase * ByteBase
  BY ConstantFacts
<1>2. /\ n % ByteBase \in Byte /\ n \div ByteBase \in Byte
      /\ (n % ByteBase) + ByteBase * (n \div ByteBase) = n
  BY <1>1, SizeFieldBytes
<1>3. 0 \in 0 .. MemSize - 1 /\ 1 \in 0 .. MemSize - 1 /\ 2 \in 0 .. MemSize - 1
  OBVIOUS
<1> DEFINE lo == n % ByteBase
           hi == n \div ByteBase
           w == [mem EXCEPT ![1] = lo, ![2] = hi]
<1>4. lo \in Byte /\ hi \in Byte /\ lo + ByteBase * hi = n
  BY <1>2
<1> HIDE DEF lo, hi
<1>5. /\ w \in [0 .. MemSize - 1 -> Byte] /\ w[1] = lo /\ w[2] = hi
      /\ \A i \in 0 .. MemSize - 1 : i # 1 /\ i # 2 => w[i] = mem[i]
  BY <1>3, <1>4
<1>6. WithPayloadSize(mem, n) = w
  BY DEF WithPayloadSize, lo, hi
<1> HIDE DEF w
<1>7. PayloadSize(w, 0) = n
  <2>1. w[0 + 1] = lo /\ w[0 + 2] = hi
    BY <1>5
  <2> QED BY <2>1, <1>4 DEF PayloadSize
<1> QED BY <1>5, <1>6, <1>7

\* What copying bytes into memory does.
LEMMA BytesWritten ==
  ASSUME TypeOK, NEW base \in Nat, NEW bytes \in Seq(Byte),
         base + Len(bytes) <= MemSize
  PROVE  /\ Written(base, bytes) \in [0 .. MemSize - 1 -> Byte]
         /\ \A i \in DOMAIN bytes : Written(base, bytes)[base + i - 1] = bytes[i]
         /\ \A i \in 0 .. MemSize - 1 :
              i < base \/ i >= base + Len(bytes) => Written(base, bytes)[i] = frame[i]
<1>1. /\ Len(bytes) \in Nat /\ DOMAIN bytes = 1 .. Len(bytes)
      /\ \A i \in 1 .. Len(bytes) : bytes[i] \in Byte
      /\ frame \in [0 .. MemSize - 1 -> Byte] /\ MemSize \in Nat
  BY LenProperties, ElementOfSeq DEF TypeOK
<1>2. ASSUME NEW i \in 0 .. MemSize - 1
      PROVE  (IF i >= base /\ i < base + Len(bytes)
              THEN bytes[i - base + 1] ELSE frame[i]) \in Byte
  <2>1. CASE i >= base /\ i < base + Len(bytes)
    <3>1. i - base + 1 \in 1 .. Len(bytes)
      BY <2>1, <1>1
    <3> QED BY <2>1, <3>1, <1>1
  <2>2. CASE ~(i >= base /\ i < base + Len(bytes))
    BY <2>2, <1>1
  <2> QED BY <2>1, <2>2
<1>3. ASSUME NEW i \in DOMAIN bytes
      PROVE  Written(base, bytes)[base + i - 1] = bytes[i]
  <2>1. /\ base + i - 1 \in 0 .. MemSize - 1
        /\ base + i - 1 >= base /\ base + i - 1 < base + Len(bytes)
        /\ (base + i - 1) - base + 1 = i
    BY <1>1
  <2> QED BY <2>1 DEF Written
<1>4. ASSUME NEW i \in 0 .. MemSize - 1, i < base \/ i >= base + Len(bytes)
      PROVE  Written(base, bytes)[i] = frame[i]
  <2>1. ~(i >= base /\ i < base + Len(bytes))
    BY <1>1, <1>4
  <2> QED BY <2>1 DEF Written
<1>5. Written(base, bytes) \in [0 .. MemSize - 1 -> Byte]
  BY <1>2 DEF Written
<1> QED BY <1>3, <1>4, <1>5
-----------------------------------------------------------------------------
LEMMA BuilderInit == Init => BuilderInv
<1> SUFFICES ASSUME Init PROVE BuilderInv
  OBVIOUS
<1>1. TypeOK
  <2>1. 0 \in Byte /\ 0 \in 0 .. MemSize /\ 0 \in Int
    BY DEF Byte
  <2>2. frame \in [0 .. MemSize - 1 -> Byte]
    BY <2>1 DEF Init
  <2>3. begun \in BOOLEAN
    BY DEF Init
  <2>4. accepted \in Seq([at : Nat, id : Byte, raw : Seq(Byte)])
    BY EmptySeq DEF Init
  <2>5. call \in [op : {"none", "begin", "append", "end"},
                  max : 0 .. MemSize, ret : Int]
    BY <2>1 DEF Init
  <2>6. ~begun
    BY DEF Init
  <2> QED BY <2>2, <2>3, <2>4, <2>5, <2>6 DEF TypeOK
<1>2. HeadInv /\ MessagesIntact /\ RoomForChecksum /\ BuiltFrameReceivable
  BY DEF Init, HeadInv, MessagesIntact, RoomForChecksum, BuiltFrameReceivable
<1> QED BY <1>1, <1>2 DEF BuilderInv

\* A call that fails changes nothing the invariant speaks of.
LEMMA BuilderFailed ==
  ASSUME BuilderInv, UNCHANGED <<frame, begun, accepted>>,
         NEW op \in {"begin", "append", "end"}, NEW max \in 0 .. MemSize,
         call' = [op |-> op, max |-> max, ret |-> Failed]
  PROVE  BuilderInv'
<1>1. TypeOK'
  BY DEF BuilderInv, TypeOK, FrameInBounds, Failed
<1>2. HeadInv' /\ MessagesIntact'
  BY DEF BuilderInv, HeadInv, MessagesIntact, MsgEnd
<1>3. RoomForChecksum' /\ BuiltFrameReceivable'
  BY DEF RoomForChecksum, BuiltFrameReceivable
<1> QED BY <1>1, <1>2, <1>3 DEF BuilderInv

LEMMA BuilderBegin ==
  ASSUME BuilderInv, NEW max \in 0 .. MemSize, Begin(max)
  PROVE  BuilderInv'
<1>1. CASE max < FrameSizeMin + Len(Header)
  BY <1>1, BuilderFailed DEF Begin
<1>2. CASE ~(max < FrameSizeMin + Len(Header))
  <2> DEFINE n == Len(Header)
             m0 == Written(FramePayloadOffset, Header)
             m1 == [m0 EXCEPT ![0] = FrameSOF]
  <2>1. /\ frame' = WithPayloadSize(m1, n) /\ begun' = TRUE /\ accepted' = <<>>
        /\ call' = [op |-> "begin", max |-> max, ret |-> 0]
    BY <1>2 DEF Begin
  <2>2. /\ n \in 0 .. FramePayloadSizeMax /\ 4 + n <= max /\ max <= MemSize
        /\ MemSize \in Nat /\ FramePayloadSizeMax + 4 = FrameSizeMax
    BY <1>2, ConstantFacts DEF FrameSizeMin
  <2>3. /\ m0 \in [0 .. MemSize - 1 -> Byte]
        /\ \A i \in DOMAIN Header : m0[FramePayloadOffset + i - 1] = Header[i]
    <3>1. FramePayloadOffset \in Nat /\ FramePayloadOffset + Len(Header) <= MemSize
      BY <2>2 DEF FramePayloadOffset
    <3>2. TypeOK /\ Header \in Seq(Byte)
      BY DEF BuilderInv
    <3> QED BY <3>1, <3>2, BytesWritten
  <2> HIDE DEF m0
  <2>4. /\ m1 \in [0 .. MemSize - 1 -> Byte] /\ m1[0] = FrameSOF
        /\ \A i \in 0 .. MemSize - 1 : i # 0 => m1[i] = m0[i]
    BY <2>2, <2>3 DEF Byte
  <2> HIDE DEF m1
  <2>5. /\ frame' \in [0 .. MemSize - 1 -> Byte]
        /\ PayloadSize(frame', 0) = n
        /\ \A i \in 0 .. MemSize - 1 : i # 1 /\ i # 2 => frame'[i] = m1[i]
    BY <2>1, <2>2, <2>4, SizeWritten
  <2>6. FrameSize(frame', 0) = 4 + n
    BY <2>5 DEF FrameSize, FrameSizeMin
  <2>7. frame'[0] = FrameSOF
    BY <2>2, <2>4, <2>5
  <2>8. \A i \in DOMAIN Header : frame'[FramePayloadOffset + i - 1] = Header[i]
    <3> TAKE i \in DOMAIN Header
    <3>1. i \in 1 .. n
      BY LenProperties
    <3>2. /\ FramePayloadOffset + i - 1 \in 0 .. MemSize - 1
          /\ FramePayloadOffset + i - 1 > 2
      BY <3>1, <2>2 DEF FramePayloadOffset
    <3> QED BY <3>2, <2>3, <2>4, <2>5
  <2>9. TypeOK'
    BY <2>1, <2>2, <2>5, <2>6 DEF BuilderInv, TypeOK, FrameInBounds
  <2>10. HeadInv'
    BY <2>1, <2>2, <2>5, <2>6, <2>7 DEF HeadInv
  <2>11. MessagesIntact'
    <3>1. Len(accepted') = 0 /\ MsgEnd(0)' = FramePayloadOffset + n
      BY <2>1 DEF MsgEnd
    <3>2. \A k \in DOMAIN accepted' : FALSE
      BY <2>1
    <3>3. MsgEnd(Len(accepted))' = FramePayloadOffset + n
      BY <2>1 DEF MsgEnd
    <3> QED BY <3>2, <3>3, <2>5, <2>8 DEF MessagesIntact
  <2>12. RoomForChecksum'
    <3>1. call'.max = max /\ FrameSize(frame', 0) = 4 + n
      BY <2>1, <2>6
    <3>2. 4 + n <= Min2(max, FrameSizeMax)
      BY <2>2, ConstantFacts DEF Min2
    <3> QED BY <3>1, <3>2 DEF RoomForChecksum
  <2>13. BuiltFrameReceivable'
    BY <2>1 DEF BuiltFrameReceivable
  <2> QED BY <2>9, <2>10, <2>11, <2>12, <2>13 DEF BuilderInv
<1> QED BY <1>1, <1>2

\* An append that fits: the numbers of the copy.
LEMMA AppendNumbers ==
  ASSUME BuilderInv, begun, NEW raw \in Seq(Byte), NEW id \in Byte,
         NEW max \in 0 .. MemSize, Fits(id, raw, max)
  PROVE  LET size == PayloadSize(frame, 0)
             new == size + MsgHeaderSize + Len(raw)
         IN  /\ size \in Nat /\ Len(raw) \in Nat /\ MsgHeaderSize = 2
             /\ Len(raw) < MsgSizeBase /\ Len(raw) \in Byte
             /\ new \in 0 .. FramePayloadSizeMax
             /\ 4 + new <= max /\ max <= MemSize /\ 4 + new <= FrameSizeMax
<1> DEFINE size == PayloadSize(frame, 0)
<1>1. size \in Len(Header) .. FramePayloadSizeMax
  BY DEF BuilderInv, HeadInv
<1>2. size \in Nat /\ Len(raw) \in Nat
  BY <1>1, ConstantFacts, LenProperties
<1>3. FrameSize(frame, 0) = 4 + size
  BY DEF FrameSize, FrameSizeMin
<1> HIDE DEF size
<1>4. Space(max) = Min2(max - (4 + size), FramePayloadSizeMax - size)
  BY <1>3 DEF Space, size
<1>5. max \in Nat /\ max <= MemSize /\ MemSize \in Nat
  OBVIOUS
<1>6. /\ Space(max) <= max - (4 + size)
      /\ Space(max) <= FramePayloadSizeMax - size
      /\ Space(max) \in Int
  BY <1>2, <1>4, <1>5, ConstantFacts DEF Min2
<1>7. Len(raw) <= MsgSizeBase - 1 /\ 2 + Len(raw) <= Space(max)
  BY DEF Fits, MsgPayloadSizeMax, MsgHeaderSize
<1>8. Len(raw) < MsgSizeBase /\ Len(raw) \in Byte
  BY <1>2, <1>7, ConstantFacts DEF Byte
<1> DEFINE l == Len(raw)
           new == size + 2 + l
<1>9. /\ l \in Nat /\ 2 + l <= Space(max)
  BY <1>2, <1>7
<1> HIDE DEF l
<1>10. /\ new \in 0 .. FramePayloadSizeMax
       /\ 4 + new <= max /\ 4 + new <= FrameSizeMax
  <2>1. new \in Nat /\ new <= FramePayloadSizeMax /\ 4 + new <= max
    BY <1>2, <1>5, <1>6, <1>9, ConstantFacts
  <2> QED BY <2>1, ConstantFacts
<1>11. MsgHeaderSize = 2
  BY DEF MsgHeaderSize
<1>12. size + MsgHeaderSize + Len(raw) = new
  BY <1>11 DEF l
<1> HIDE DEF new
<1> QED BY <1>2, <1>5, <1>8, <1>10, <1>11, <1>12 DEF size

\* An append that fits: memory afterwards.
LEMMA AppendMemory ==
  ASSUME BuilderInv, begun, NEW raw \in Seq(Byte), NEW id \in Byte,
         NEW max \in 0 .. MemSize, Fits(id, raw, max),
         NEW at, at = FramePayloadOffset + PayloadSize(frame, 0),
         NEW mem, mem = WithPayloadSize(WithMsg(at, id, raw),
                                        PayloadSize(frame, 0) + MsgHeaderSize + Len(raw))
  PROVE  /\ mem \in [0 .. MemSize - 1 -> Byte]
         /\ PayloadSize(mem, 0) = PayloadSize(frame, 0) + MsgHeaderSize + Len(raw)
         /\ mem[at] = id /\ mem[at + 1] = Len(raw)
         /\ \A i \in DOMAIN raw : mem[at + MsgHeaderSize + i - 1] = raw[i]
         /\ \A i \in 0 .. at - 1 : i # 1 /\ i # 2 => mem[i] = frame[i]
         /\ \A i \in 0 .. MemSize - 1 :
              i >= at + MsgHeaderSize + Len(raw) => mem[i] = frame[i]
<1> DEFINE size == PayloadSize(frame, 0)
           len == Len(raw)
           new == size + MsgHeaderSize + len
           w0 == Written(at + MsgHeaderSize, raw)
           w1 == [w0 EXCEPT ![at] = id, ![at + 1] = Len(raw)]
<1>1. /\ size \in Nat /\ len \in Nat /\ len \in Byte /\ MsgHeaderSize = 2
      /\ new \in 0 .. FramePayloadSizeMax /\ 4 + new <= MemSize /\ new = size + 2 + len
      /\ MemSize \in Nat
  BY SMTT(30), AppendNumbers
<1>2. at = 3 + size /\ at + MsgHeaderSize = 5 + size
  BY <1>1 DEF FramePayloadOffset
<1>3. /\ w0 \in [0 .. MemSize - 1 -> Byte]
      /\ \A i \in DOMAIN raw : w0[at + MsgHeaderSize + i - 1] = raw[i]
      /\ \A i \in 0 .. MemSize - 1 :
           i < at + 2 \/ i >= at + 2 + len => w0[i] = frame[i]
  <2>0. TypeOK
    BY DEF BuilderInv
  <2>1. at + MsgHeaderSize \in Nat /\ at + MsgHeaderSize + Len(raw) <= MemSize
    <3> HIDE DEF size, w0, new
    <3>1. at + MsgHeaderSize = 5 + size /\ Len(raw) = len /\ len \in Nat /\ size \in Nat
      BY <1>1, <1>2
    <3>2. 4 + (size + 2 + len) <= MemSize /\ MemSize \in Nat
      BY <1>1
    <3> HIDE DEF len
    <3> QED BY <3>1, <3>2
  <2> HIDE DEF w0
  <2>2. /\ w0 \in [0 .. MemSize - 1 -> Byte]
        /\ \A i \in DOMAIN raw : w0[at + MsgHeaderSize + i - 1] = raw[i]
        /\ \A i \in 0 .. MemSize - 1 :
             i < at + MsgHeaderSize \/ i >= at + MsgHeaderSize + Len(raw)
               => w0[i] = frame[i]
    BY <2>0, <2>1, BytesWritten DEF w0
  <2> QED BY <2>2, <1>1
<1>4. WithMsg(at, id, raw) = w1
  BY DEF WithMsg
<1> HIDE DEF w0, new, size, len
<1>5. at \in 0 .. MemSize - 1 /\ at + 1 \in 0 .. MemSize - 1 /\ at # at + 1
  BY SMTT(30), <1>1, <1>2
<1>6. /\ w1 \in [0 .. MemSize - 1 -> Byte] /\ w1[at] = id /\ w1[at + 1] = len
      /\ \A i \in 0 .. MemSize - 1 : i # at /\ i # at + 1 => w1[i] = w0[i]
  BY <1>1, <1>3, <1>5 DEF len
<1> HIDE DEF w1
<1>7. mem = WithPayloadSize(w1, new)
  BY <1>4 DEF new, size, len
<1>8. /\ mem \in [0 .. MemSize - 1 -> Byte] /\ PayloadSize(mem, 0) = new
      /\ \A i \in 0 .. MemSize - 1 : i # 1 /\ i # 2 => mem[i] = w1[i]
  <2>1. MemSize >= 4 /\ new \in 0 .. FramePayloadSizeMax
    BY <1>1, ConstantFacts
  <2> QED BY SMTT(30), <2>1, <1>6, <1>7, SizeWritten
<1>9. mem[at] = id /\ mem[at + 1] = len
  BY SMTT(30), <1>1, <1>2, <1>5, <1>6, <1>8
<1>10. ASSUME NEW i \in DOMAIN raw
       PROVE  mem[at + MsgHeaderSize + i - 1] = raw[i]
  <2>1. i \in 1 .. len
    BY LenProperties DEF len
  <2>2. /\ at + MsgHeaderSize + i - 1 \in 0 .. MemSize - 1
        /\ at + MsgHeaderSize + i - 1 > at + 1
        /\ at + MsgHeaderSize + i - 1 > 2
    BY SMTT(30), <2>1, <1>1, <1>2
  <2> DEFINE j == at + MsgHeaderSize + i - 1
  <2>3. /\ j \in 0 .. MemSize - 1 /\ j # at /\ j # at + 1 /\ j # 1 /\ j # 2
        /\ w0[j] = raw[i]
    BY <2>2, <1>5, <1>3
  <2> HIDE DEF j
  <2>4. mem[j] = w1[j] /\ w1[j] = w0[j]
    BY <2>3, <1>6, <1>8
  <2> QED BY <2>3, <2>4 DEF j
<1>11. ASSUME NEW i \in 0 .. at - 1, i # 1, i # 2
       PROVE  mem[i] = frame[i]
  <2>1. i \in 0 .. MemSize - 1 /\ i < at + 2 /\ i # at /\ i # at + 1
    BY <1>1, <1>2
  <2> QED BY <2>1, <1>3, <1>6, <1>8, <1>11
<1>12. ASSUME NEW i \in 0 .. MemSize - 1, i >= at + MsgHeaderSize + len
       PROVE  mem[i] = frame[i]
  <2>1. i >= at + 2 + len /\ i # at /\ i # at + 1 /\ i # 1 /\ i # 2
    BY SMTT(30), <1>1, <1>2, <1>12
  <2> QED BY <2>1, <1>3, <1>6, <1>8
<1> QED BY <1>8, <1>9, <1>10, <1>11, <1>12 DEF new, size, len

\* A message appended that fits: the frame gains it and loses nothing.
LEMMA BuilderAppendFits ==
  ASSUME BuilderInv, begun, NEW raw \in Seq(Byte), NEW id \in Byte,
         NEW max \in 0 .. MemSize, Fits(id, raw, max), TryAppend(id, raw, max)
  PROVE  BuilderInv'
<1> DEFINE size == PayloadSize(frame, 0)
           at == FramePayloadOffset + size
           msg == [at |-> at, id |-> id, raw |-> raw]
           n == Len(accepted)
           new == size + MsgHeaderSize + Len(raw)
<1>1. /\ frame' = WithPayloadSize(WithMsg(at, id, raw), new)
      /\ accepted' = Append(accepted, msg) /\ begun' /\ begun' = begun
      /\ call' = [op |-> "append", max |-> max, ret |-> 0]
  BY DEF TryAppend
<1>2. /\ size \in Nat /\ Len(raw) \in Nat /\ MsgHeaderSize = 2
      /\ Len(raw) < MsgSizeBase
      /\ new \in 0 .. FramePayloadSizeMax
      /\ 4 + new <= max /\ max <= MemSize /\ 4 + new <= FrameSizeMax
  BY AppendNumbers
<1>3. /\ frame' \in [0 .. MemSize - 1 -> Byte]
      /\ PayloadSize(frame', 0) = new
      /\ frame'[at] = id /\ frame'[at + 1] = Len(raw)
      /\ \A i \in DOMAIN raw : frame'[at + MsgHeaderSize + i - 1] = raw[i]
      /\ \A i \in 0 .. at - 1 : i # 1 /\ i # 2 => frame'[i] = frame[i]
  <2> DEFINE mem == WithPayloadSize(WithMsg(at, id, raw), new)
  <2>1. /\ mem \in [0 .. MemSize - 1 -> Byte]
        /\ PayloadSize(mem, 0) = new
        /\ mem[at] = id /\ mem[at + 1] = Len(raw)
        /\ \A i \in DOMAIN raw : mem[at + MsgHeaderSize + i - 1] = raw[i]
        /\ \A i \in 0 .. at - 1 : i # 1 /\ i # 2 => mem[i] = frame[i]
    BY AppendMemory
  <2> HIDE DEF mem
  <2>2. frame' = mem
    BY <1>1 DEF mem
  <2> QED BY <2>1, <2>2
<1>4. /\ accepted \in Seq([at : Nat, id : Byte, raw : Seq(Byte)])
      /\ size \in Len(Header) .. FramePayloadSizeMax /\ frame[0] = FrameSOF
      /\ Len(Header) \in Nat /\ FramePayloadSizeMax \in Nat
  BY ConstantFacts DEF BuilderInv, TypeOK, HeadInv
<1>5. at = 3 + size /\ at \in Nat /\ at > 2
  BY SMTT(30), <1>2 DEF FramePayloadOffset
<1>6. msg \in [at : Nat, id : Byte, raw : Seq(Byte)]
  BY <1>5
<1> HIDE DEF msg
<1>7. /\ accepted' \in Seq([at : Nat, id : Byte, raw : Seq(Byte)])
      /\ n \in Nat /\ Len(accepted') = n + 1 /\ DOMAIN accepted = 1 .. n
      /\ DOMAIN accepted' = 1 .. n + 1
      /\ accepted'[n + 1] = msg
      /\ \A k \in 1 .. n : accepted'[k] = accepted[k]
  BY <1>1, <1>4, <1>6, AppendProperties, LenProperties
<1>8. msg.at = at /\ msg.id = id /\ msg.raw = raw
  BY DEF msg
<1>9. FrameSize(frame', 0) = 4 + new
  BY <1>3 DEF FrameSize, FrameSizeMin
<1>10. \A k \in 1 .. n :
         /\ accepted[k].at \in Nat /\ accepted[k].raw \in Seq(Byte)
         /\ Len(accepted[k].raw) \in Nat
         /\ accepted[k].at >= 3 + Len(Header)
         /\ accepted[k].at + 2 + Len(accepted[k].raw) <= at
  <2> TAKE k \in 1 .. n
  <2>1. accepted[k] \in [at : Nat, id : Byte, raw : Seq(Byte)]
    BY <1>4, <1>7, ElementOfSeq
  <2>2. accepted[k].at \in Nat /\ accepted[k].raw \in Seq(Byte) /\ Len(accepted[k].raw) \in Nat
    BY <2>1, LenProperties
  <2>3. /\ accepted[k].at >= FramePayloadOffset + Len(Header)
        /\ accepted[k].at + MsgHeaderSize + Len(accepted[k].raw) <= FramePayloadOffset + size
    BY <1>7 DEF BuilderInv, HeadInv
  <2> QED BY <2>2, <2>3, <1>2 DEF FramePayloadOffset
<1> HIDE DEF size, n, new
<1>11. new = size + 2 + Len(raw)
  BY <1>2 DEF new
<1>12. at + 2 + Len(raw) = 3 + new
  BY <1>2, <1>5, <1>11
<1> HIDE DEF at
<1>13. TypeOK'
  <2>1. new \in Len(Header) .. FramePayloadSizeMax
    BY <1>2, <1>4, <1>11
  <2>2. FrameSize(frame', 0) <= MemSize
    BY <1>2, <1>9
  <2>3. FrameInBounds'
    BY <1>3, <2>1, <2>2 DEF FrameInBounds
  <2> QED BY <1>1, <1>3, <1>7, <2>3 DEF BuilderInv, TypeOK
<1>14. HeadInv'
  <2>1. frame'[0] = FrameSOF
    BY <1>3, <1>4, <1>5
  <2>2. new \in Len(Header) .. FramePayloadSizeMax
    BY <1>2, <1>4, <1>11
  <2>3. FrameSize(frame', 0) <= MemSize
    BY <1>2, <1>9
  <2>4. ASSUME NEW k \in 1 .. n + 1
        PROVE  /\ accepted'[k].at >= 3 + Len(Header)
               /\ accepted'[k].at + 2 + Len(accepted'[k].raw) <= 3 + new
    <3>1. CASE k = n + 1
      <4>1. at >= 3 + Len(Header) /\ at + 2 + Len(raw) <= 3 + new
        BY <1>2, <1>4, <1>5, <1>12
      <4> QED BY <3>1, <4>1, <1>7, <1>8
    <3>2. CASE k \in 1 .. n
      <4>1. at <= 3 + new
        BY <1>2, <1>5, <1>12
      <4>2. accepted'[k] = accepted[k]
        BY <3>2, <1>7
      <4>3. /\ accepted[k].at \in Nat /\ Len(accepted[k].raw) \in Nat
            /\ accepted[k].at >= 3 + Len(Header)
            /\ accepted[k].at + 2 + Len(accepted[k].raw) <= at
        BY <3>2, <1>10
      <4> DEFINE a == accepted[k].at
                 l == Len(accepted[k].raw)
      <4>4. a \in Nat /\ l \in Nat /\ a >= 3 + Len(Header) /\ a + 2 + l <= at
        BY <4>3
      <4>5. at \in Nat /\ new \in Nat
        BY <1>2, <1>4, <1>5
      <4> HIDE DEF a, l
      <4>6. a >= 3 + Len(Header) /\ a + 2 + l <= 3 + new
        BY <4>1, <4>4, <4>5, <1>4
      <4> QED BY <4>2, <4>6 DEF a, l
    <3> QED BY <3>1, <3>2, <1>7
  <2> QED BY <2>1, <2>2, <2>3, <2>4, <1>2, <1>3, <1>7 DEF HeadInv, FramePayloadOffset
<1>15. MessagesIntact'
  <2>1. ASSUME NEW i \in DOMAIN Header
        PROVE  frame'[FramePayloadOffset + i - 1] = Header[i]
    <3>1. i \in 1 .. Len(Header)
      BY LenProperties
    <3>2. /\ FramePayloadOffset + i - 1 \in 0 .. at - 1
          /\ FramePayloadOffset + i - 1 # 1 /\ FramePayloadOffset + i - 1 # 2
      BY SMTT(30), <3>1, <1>4, <1>5, <1>2 DEF FramePayloadOffset
    <3>3. frame[FramePayloadOffset + i - 1] = Header[i]
      BY DEF BuilderInv, MessagesIntact
    <3> QED BY <3>2, <3>3, <1>3
  <2>2. MsgEnd(0)' = MsgEnd(0)
    BY DEF MsgEnd
  <2>3. ASSUME NEW k \in 1 .. n
        PROVE  MsgEnd(k)' = MsgEnd(k)
    <3>1. accepted'[k] = accepted[k] /\ k # 0
      BY <1>7
    <3> QED BY <3>1 DEF MsgEnd
  <2>4. MsgEnd(n) = at
    BY <1>5 DEF BuilderInv, MessagesIntact, n, at, size
  <2>5. ASSUME NEW k \in 1 .. n + 1
        PROVE  LET m == accepted'[k]
               IN  /\ m.at = MsgEnd(k - 1)'
                   /\ frame'[m.at] = m.id
                   /\ MsgSize(frame', m.at) = MsgHeaderSize + Len(m.raw)
                   /\ \A i \in DOMAIN m.raw :
                        frame'[m.at + MsgHeaderSize + i - 1] = m.raw[i]
    <3>1. CASE k = n + 1
      <4>1. MsgEnd(k - 1)' = at
        <5>1. k - 1 = n /\ (k - 1 = 0 \/ k - 1 \in 1 .. n)
          BY <3>1, <1>7
        <5>2. MsgEnd(k - 1)' = MsgEnd(k - 1)
          BY <5>1, <2>2, <2>3
        <5> QED BY <5>1, <5>2, <2>4
      <4>2. MsgPayloadSize(frame', at) = Len(raw)
        <5>1. Len(raw) % MsgSizeBase = Len(raw)
          BY SMTT(30), <1>2, ConstantFacts
        <5> QED BY <5>1, <1>3 DEF MsgPayloadSize
      <4> QED BY <3>1, <4>1, <4>2, <1>3, <1>7, <1>8 DEF MsgSize
    <3>2. CASE k \in 1 .. n
      <4> DEFINE m == accepted[k]
      <4>1. accepted'[k] = m
        BY <3>2, <1>7
      <4>2. /\ m.at = MsgEnd(k - 1)
            /\ frame[m.at] = m.id
            /\ MsgSize(frame, m.at) = MsgHeaderSize + Len(m.raw)
            /\ \A i \in DOMAIN m.raw : frame[m.at + MsgHeaderSize + i - 1] = m.raw[i]
        BY <3>2, <1>7 DEF BuilderInv, MessagesIntact
      <4>3. MsgEnd(k - 1)' = MsgEnd(k - 1)
        <5>1. k - 1 = 0 \/ k - 1 \in 1 .. n
          BY <3>2, <1>7
        <5> QED BY <5>1, <2>2, <2>3
      <4>4. /\ m.at \in Nat /\ m.raw \in Seq(Byte) /\ Len(m.raw) \in Nat
            /\ m.at >= 3 + Len(Header) /\ m.at + 2 + Len(m.raw) <= at
        BY <3>2, <1>10
      <4> HIDE DEF m
      <4> DEFINE a == m.at
                 l == Len(m.raw)
      <4>8. a \in Nat /\ l \in Nat /\ a >= 3 /\ a + 2 + l <= at /\ at \in Nat
        BY SMTT(30), <4>4, <1>4, <1>5
      <4> HIDE DEF a, l
      <4>5. frame'[m.at] = frame[m.at] /\ frame'[m.at + 1] = frame[m.at + 1]
        <5>1. /\ a \in 0 .. at - 1 /\ a # 1 /\ a # 2
              /\ a + 1 \in 0 .. at - 1 /\ a + 1 # 1 /\ a + 1 # 2
          BY <4>8
        <5> QED BY <5>1, <1>3 DEF a
      <4>6. ASSUME NEW i \in DOMAIN m.raw
            PROVE  frame'[m.at + MsgHeaderSize + i - 1] = m.raw[i]
        <5>1. i \in 1 .. l
          BY <4>4, LenProperties DEF l
        <5>2. /\ a + MsgHeaderSize + i - 1 \in 0 .. at - 1
              /\ a + MsgHeaderSize + i - 1 # 1 /\ a + MsgHeaderSize + i - 1 # 2
          BY SMTT(30), <5>1, <4>8, <1>2
        <5>3. frame[a + MsgHeaderSize + i - 1] = m.raw[i]
          BY <4>2 DEF a
        <5> QED BY <5>2, <5>3, <1>3 DEF a
      <4>7. MsgSize(frame', m.at) = MsgSize(frame, m.at)
        BY <4>5 DEF MsgSize, MsgPayloadSize
      <4> QED BY <4>1, <4>2, <4>3, <4>5, <4>6, <4>7
    <3> QED BY <3>1, <3>2, <1>7
  <2>6. MsgEnd(Len(accepted))' = FramePayloadOffset + PayloadSize(frame', 0)
    <3>1. n + 1 # 0 /\ Len(accepted') = n + 1
      BY <1>7
    <3>2. MsgEnd(Len(accepted))' = at + MsgHeaderSize + Len(raw)
      BY <3>1, <1>7, <1>8 DEF MsgEnd
    <3> QED BY <3>2, <1>2, <1>3, <1>12 DEF FramePayloadOffset
  <2> QED BY <2>1, <2>5, <2>6, <1>7 DEF MessagesIntact
<1>16. RoomForChecksum'
  <2>1. 4 + new <= Min2(max, FrameSizeMax)
    BY <1>2 DEF Min2
  <2>2. call'.max = max
    BY <1>1
  <2> QED BY <2>1, <2>2, <1>9 DEF RoomForChecksum
<1>17. BuiltFrameReceivable'
  BY <1>1 DEF BuiltFrameReceivable
<1> QED BY <1>13, <1>14, <1>15, <1>16, <1>17 DEF BuilderInv

\* The checksum byte lies behind every message and is what the receiver sums.
LEMMA BuilderEnd ==
  ASSUME BuilderInv, NEW max \in 0 .. MemSize, End(max)
  PROVE  BuilderInv'
<1> DEFINE size == FrameSize(frame, 0)
           ps == PayloadSize(frame, 0)
           body == Slice(frame, 0, size - 1)
           c == Checksum(body, size - 1)
<1>1. CASE size > max
  BY <1>1, BuilderFailed DEF End
<1>2. CASE ~(size > max)
  <2>1. /\ begun /\ begun' = begun /\ accepted' = accepted
        /\ frame' = [frame EXCEPT ![size - 1] = c]
        /\ call' = [op |-> "end", max |-> max, ret |-> size]
    BY <1>2 DEF End
  <2>2. /\ size = 4 + ps /\ ps \in Nat /\ size \in Nat /\ size <= max
        /\ Len(Header) \in Nat /\ ps >= Len(Header)
        /\ MemSize \in Nat /\ size <= MemSize /\ size <= FrameSizeMax
        /\ frame \in [0 .. MemSize - 1 -> Byte] /\ frame[0] = FrameSOF
    <3>1. /\ ps \in Len(Header) .. FramePayloadSizeMax /\ frame[0] = FrameSOF
          /\ size = 4 + ps /\ size <= MemSize
      BY <2>1 DEF BuilderInv, HeadInv, FrameSize, FrameSizeMin
    <3>2. frame \in [0 .. MemSize - 1 -> Byte] /\ MemSize \in Nat
      BY DEF BuilderInv, TypeOK
    <3>3. ps \in Nat /\ ps <= FramePayloadSizeMax /\ ps >= Len(Header)
      BY <3>1, ConstantFacts
    <3> HIDE DEF ps, size
    <3>4. size \in Nat /\ size <= FrameSizeMax /\ size <= max
      BY <1>2, <3>1, <3>3, ConstantFacts
    <3> QED BY <3>1, <3>2, <3>3, <3>4, ConstantFacts
  <2>3. c \in Byte
    <3> HIDE DEF size
    <3>1. size - 1 \in Nat
      BY <2>2
    <3>2. \A k \in 0 .. (size - 1) - 1 : body[k] \in Byte
      <4> TAKE k \in 0 .. (size - 1) - 1
      <4>1. k \in 0 .. MemSize - 1 /\ 0 + k = k
        BY SMTT(30), <2>2
      <4>2. body[k] = frame[0 + k]
        BY DEF Slice
      <4> QED BY <4>1, <4>2, <2>2
    <3> HIDE DEF body
    <3> QED BY <3>1, <3>2, ChecksumIsByte
  <2> HIDE DEF size, ps, c
  <2>4. /\ size - 1 \in 0 .. MemSize - 1 /\ size - 1 = 3 + ps
        /\ size - 1 # 0 /\ size - 1 # 1 /\ size - 1 # 2
    BY <2>2
  <2>5. /\ frame' \in [0 .. MemSize - 1 -> Byte]
        /\ frame'[size - 1] = c
        /\ \A i \in 0 .. MemSize - 1 : i # size - 1 => frame'[i] = frame[i]
    BY <2>1, <2>2, <2>3, <2>4
  <2>6. \A i \in 0 .. size - 2 : frame'[i] = frame[i]
    BY <2>2, <2>5
  <2>7. PayloadSize(frame', 0) = ps /\ FrameSize(frame', 0) = size /\ frame'[0] = FrameSOF
    <3>1. frame'[0] = frame[0] /\ frame'[1] = frame[1] /\ frame'[2] = frame[2]
      BY <2>2, <2>4, <2>5
    <3> QED BY <3>1, <2>2 DEF PayloadSize, FrameSize, ps, size
  <2>8. TypeOK'
    <3>1. call' \in [op : {"none", "begin", "append", "end"}, max : 0 .. MemSize, ret : Int]
      BY <2>1, <2>2
    <3>2. FrameInBounds'
      BY <2>1, <2>2, <2>7 DEF BuilderInv, HeadInv, FrameInBounds, ps
    <3> QED BY <3>1, <3>2, <2>1, <2>5 DEF BuilderInv, TypeOK
  <2>9. HeadInv'
    <3>1. /\ ps \in Len(Header) .. FramePayloadSizeMax
          /\ \A k \in DOMAIN accepted :
               /\ accepted[k].at >= FramePayloadOffset + Len(Header)
               /\ accepted[k].at + MsgHeaderSize + Len(accepted[k].raw)
                    <= FramePayloadOffset + ps
      BY <2>1 DEF BuilderInv, HeadInv, ps
    <3> QED BY <3>1, <2>1, <2>2, <2>7 DEF HeadInv
  <2>10. MessagesIntact'
    <3>1. ASSUME NEW i \in DOMAIN Header
          PROVE  frame'[FramePayloadOffset + i - 1] = Header[i]
      <4>1. i \in 1 .. Len(Header)
        BY LenProperties
      <4>2. FramePayloadOffset + i - 1 \in 0 .. size - 2
        BY <4>1, <2>2 DEF FramePayloadOffset
      <4> QED BY <4>2, <2>1, <2>6 DEF BuilderInv, MessagesIntact
    <3>2. ASSUME NEW k \in DOMAIN accepted
          PROVE  LET m == accepted[k]
                 IN  /\ m.at = MsgEnd(k - 1)'
                     /\ frame'[m.at] = m.id
                     /\ MsgSize(frame', m.at) = MsgHeaderSize + Len(m.raw)
                     /\ \A i \in DOMAIN m.raw :
                          frame'[m.at + MsgHeaderSize + i - 1] = m.raw[i]
      <4> DEFINE m == accepted[k]
                 a == m.at
                 l == Len(m.raw)
      <4>1. /\ m.at = MsgEnd(k - 1)
            /\ frame[a] = m.id
            /\ MsgSize(frame, a) = MsgHeaderSize + Len(m.raw)
            /\ \A i \in DOMAIN m.raw : frame[a + MsgHeaderSize + i - 1] = m.raw[i]
        BY <2>1 DEF BuilderInv, MessagesIntact
      <4>2. MsgEnd(k - 1)' = MsgEnd(k - 1)
        BY <2>1 DEF MsgEnd
      <4>3. a \in Nat /\ m.raw \in Seq(Byte) /\ l \in Nat
        <5>1. k \in 1 .. Len(accepted) /\ accepted \in Seq([at : Nat, id : Byte, raw : Seq(Byte)])
          BY LenProperties DEF BuilderInv, TypeOK
        <5>2. m \in [at : Nat, id : Byte, raw : Seq(Byte)]
          BY <5>1, ElementOfSeq
        <5> QED BY <5>2, LenProperties
      <4>4. a + 2 + l <= 3 + ps
        BY <2>1 DEF BuilderInv, HeadInv, ps, MsgHeaderSize, FramePayloadOffset
      <4>5. \A i \in DOMAIN m.raw : i \in 1 .. l
        BY <4>3, LenProperties
      <4> HIDE DEF m, a, l
      <4>6. a \in 0 .. size - 2 /\ a + 1 \in 0 .. size - 2
        BY <4>3, <4>4, <2>2
      <4>7. frame'[a] = frame[a] /\ frame'[a + 1] = frame[a + 1]
        BY <4>6, <2>6
      <4>8. ASSUME NEW i \in DOMAIN m.raw
            PROVE  frame'[a + MsgHeaderSize + i - 1] = m.raw[i]
        <5>1. i \in 1 .. l /\ a \in Nat /\ l \in Nat /\ size = 4 + ps /\ ps \in Nat
          BY <4>3, <4>5, <2>2
        <5>2. a + 2 + i - 1 \in 0 .. size - 2
          BY SMTT(30), <5>1, <4>4
        <5>3. a + MsgHeaderSize + i - 1 \in 0 .. size - 2
          BY <5>2 DEF MsgHeaderSize
        <5> QED BY <5>3, <4>1, <2>6
      <4>9. MsgSize(frame', a) = MsgSize(frame, a)
        BY <4>7 DEF MsgSize, MsgPayloadSize
      <4> QED BY <4>1, <4>2, <4>7, <4>8, <4>9 DEF m, a
    <3>3. MsgEnd(Len(accepted))' = FramePayloadOffset + ps
      <4>1. MsgEnd(Len(accepted)) = FramePayloadOffset + ps
        BY <2>1 DEF BuilderInv, MessagesIntact, ps
      <4> QED BY <4>1, <2>1 DEF MsgEnd
    <3>4. DOMAIN accepted' = DOMAIN accepted /\ accepted' = accepted
      BY <2>1
    <3> HIDE DEF body
    <3> QED BY <3>1, <3>2, <3>3, <3>4, <2>7 DEF MessagesIntact
  <2>11. RoomForChecksum'
    BY <2>1 DEF RoomForChecksum
  <2>12. BuiltFrameReceivable'
    <3>1. Slice(Slice(frame', 0, size), 0, size - 1) = body
      <4>1. \A k \in 0 .. (size - 1) - 1 :
              Slice(frame', 0, size)[0 + k] = frame[0 + k]
        <5> TAKE k \in 0 .. (size - 1) - 1
        <5>1. k \in 0 .. size - 2 /\ k \in 0 .. size - 1 /\ 0 + k = k
          BY <2>2
        <5>2. Slice(frame', 0, size)[k] = frame'[0 + k]
          BY <5>1 DEF Slice
        <5> QED BY <5>1, <5>2, <2>6
      <4> QED BY <4>1 DEF Slice
    <3>2. Slice(frame', 0, size)[size - 1] = c
      <4>1. size - 1 \in 0 .. size - 1 /\ 0 + (size - 1) = size - 1
        BY <2>2
      <4>2. Slice(frame', 0, size)[size - 1] = frame'[0 + (size - 1)]
        BY <4>1 DEF Slice
      <4> QED BY <4>1, <4>2, <2>5
    <3>3. ChecksumVerify(Slice(frame', 0, size), size)
      BY <3>1, <3>2 DEF ChecksumVerify, c
    <3>4. call'.ret = size /\ call'.max = max
      BY <2>1
    <3> QED BY <3>3, <3>4, <2>2, <2>7 DEF BuiltFrameReceivable
  <2> QED BY <2>8, <2>9, <2>10, <2>11, <2>12 DEF BuilderInv
<1> QED BY <1>1, <1>2

\* Every call, from a state of the invariant, leads to one.
LEMMA BuilderNext == BuilderInv /\ [Next]_vars => BuilderInv'
<1> SUFFICES ASSUME BuilderInv, [Next]_vars PROVE BuilderInv'
  OBVIOUS
<1>1. ASSUME NEW max \in 0 .. MemSize, Begin(max) PROVE BuilderInv'
  BY <1>1, BuilderBegin
<1>2. ASSUME NEW max \in 0 .. MemSize, NEW id \in Ids, NEW raw \in Raws,
             TryAppend(id, raw, max)
      PROVE  BuilderInv'
  <2>1. raw \in Seq(Byte) /\ id \in Byte /\ begun
    BY <1>2 DEF TryAppend
  <2>2. CASE Fits(id, raw, max)
    BY <1>2, <2>1, <2>2, BuilderAppendFits
  <2>3. CASE ~Fits(id, raw, max)
    BY <1>2, <2>3, BuilderFailed DEF TryAppend, AppendFails
  <2> QED BY <2>2, <2>3
<1>3. ASSUME NEW max \in 0 .. MemSize, End(max) PROVE BuilderInv'
  BY <1>3, BuilderEnd
<1>4. CASE UNCHANGED vars
  BY <1>4 DEF vars, BuilderInv, TypeOK, FrameInBounds, HeadInv, MessagesIntact, MsgEnd,
              RoomForChecksum, BuiltFrameReceivable
<1> QED BY <1>1, <1>2, <1>3, <1>4 DEF Next

(***************************************************************************)
(* The builder's inductive invariant: the frame under construction is its  *)
(* head, the accepted messages and room for a checksum, whatever limits    *)
(* the calls to begin, try_append and end were given.                      *)
(***************************************************************************)
THEOREM BuilderInvariant == Spec => []BuilderInv
<1> QED BY BuilderInit, BuilderNext, PTL DEF Spec
-----------------------------------------------------------------------------
\* Bytes stay bytes, and the size field stays that of a frame inside memory and
\* format, which is what the next call goes on from.
THEOREM BuilderTypeCorrect == Spec => []TypeOK
<1>1. BuilderInv => TypeOK
  BY DEF BuilderInv
<1> QED BY <1>1, BuilderInvariant, PTL

\* What ub_prepare_msg_*_end returns passes every test of the receive side.
THEOREM BuiltFramesReceivable == Spec => []BuiltFrameReceivable
<1>1. BuilderInv => BuiltFrameReceivable
  BY DEF BuilderInv
<1> QED BY <1>1, BuilderInvariant, PTL

\* The frame holds the header and the accepted messages and nothing else.
THEOREM MessagesStayIntact == Spec => []MessagesIntact
<1>1. BuilderInv => MessagesIntact
  BY DEF BuilderInv
<1> QED BY <1>1, BuilderInvariant, PTL

\* The checksum byte never lacks room the last success was granted.
THEOREM ChecksumHasRoom == Spec => []RoomForChecksum
<1>1. BuilderInv => RoomForChecksum
  BY DEF BuilderInv
<1> QED BY <1>1, BuilderInvariant, PTL
-----------------------------------------------------------------------------
(* Where the calls write. *)

LEMMA BeginWrites ==
  ASSUME BuilderInv, NEW max \in 0 .. MemSize, Begin(max),
         NEW i \in 0 .. MemSize - 1, i >= max
  PROVE  frame'[i] = frame[i]
<1>1. CASE max < FrameSizeMin + Len(Header)
  BY <1>1 DEF Begin
<1>2. CASE ~(max < FrameSizeMin + Len(Header))
  <2> DEFINE written == Written(FramePayloadOffset, Header)
             mem == [written EXCEPT ![0] = FrameSOF]
  <2>1. /\ Len(Header) \in Nat /\ max \in Nat /\ MemSize \in Nat
        /\ 4 + Len(Header) <= max /\ max <= MemSize /\ FramePayloadOffset = 3
    BY <1>2, ConstantFacts DEF FrameSizeMin, FramePayloadOffset
  <2>2. /\ written \in [0 .. MemSize - 1 -> Byte]
        /\ \A j \in 0 .. MemSize - 1 : j >= 3 + Len(Header) => written[j] = frame[j]
    <3>1. TypeOK /\ Header \in Seq(Byte) /\ 3 \in Nat /\ 3 + Len(Header) <= MemSize
      BY <2>1, ConstantFacts DEF BuilderInv
    <3>2. /\ Written(3, Header) \in [0 .. MemSize - 1 -> Byte]
          /\ \A j \in 0 .. MemSize - 1 :
               j < 3 \/ j >= 3 + Len(Header) => Written(3, Header)[j] = frame[j]
      BY <3>1, BytesWritten
    <3> QED BY <2>1, <3>2
  <2>3. frame' = WithPayloadSize(mem, Len(Header))
    BY <1>2 DEF Begin
  <2> HIDE DEF written
  <2>4. /\ mem \in [0 .. MemSize - 1 -> Byte]
        /\ \A j \in 0 .. MemSize - 1 : j # 0 => mem[j] = written[j]
    BY <2>1, <2>2 DEF Byte
  <2> HIDE DEF mem
  <2>5. frame'[i] = mem[i]
    <3>1. i # 1 /\ i # 2 /\ MemSize >= 4
      BY <2>1
    <3> QED BY <2>3, <2>4, <3>1, SizeWritten, ConstantFacts
  <2>6. mem[i] = written[i] /\ written[i] = frame[i]
    BY <2>1, <2>2, <2>4
  <2> QED BY <2>5, <2>6
<1> QED BY <1>1, <1>2

LEMMA AppendWrites ==
  ASSUME BuilderInv, NEW max \in 0 .. MemSize, NEW id \in Byte,
         NEW raw \in Seq(Byte), TryAppend(id, raw, max),
         NEW i \in 0 .. MemSize - 1, i >= max
  PROVE  frame'[i] = frame[i]
<1>1. CASE ~Fits(id, raw, max)
  BY <1>1 DEF TryAppend, AppendFails
<1>2. CASE Fits(id, raw, max)
  <2> DEFINE size == PayloadSize(frame, 0)
             at == FramePayloadOffset + size
  <2>1. begun /\ frame' = WithPayloadSize(WithMsg(at, id, raw), size + MsgHeaderSize + Len(raw))
    BY <1>2 DEF TryAppend
  <2>2. \A j \in 0 .. MemSize - 1 :
          j >= at + MsgHeaderSize + Len(raw) => frame'[j] = frame[j]
    BY <1>2, <2>1, AppendMemory
  <2>3. /\ size \in Nat /\ Len(raw) \in Nat /\ MsgHeaderSize = 2
        /\ 4 + (size + MsgHeaderSize + Len(raw)) <= max
    BY <1>2, <2>1, AppendNumbers
  <2>4. at = 3 + size
    BY DEF FramePayloadOffset
  <2> HIDE DEF size, at
  <2> QED BY SMTT(30), <2>2, <2>3, <2>4
<1> QED BY <1>1, <1>2

LEMMA EndWrites ==
  ASSUME BuilderInv, NEW max \in 0 .. MemSize, End(max),
         NEW i \in 0 .. MemSize - 1, i >= max
  PROVE  frame'[i] = frame[i]
<1> DEFINE size == FrameSize(frame, 0)
<1>1. CASE size > max
  BY <1>1 DEF End
<1>2. CASE ~(size > max)
  <2>1. /\ begun
        /\ frame' = [frame EXCEPT ![size - 1] =
                       Checksum(Slice(frame, 0, size - 1), size - 1)]
    BY <1>2 DEF End
  <2>2. frame \in [0 .. MemSize - 1 -> Byte]
    BY DEF BuilderInv, TypeOK
  <2>3. size \in Nat
    <3>1. PayloadSize(frame, 0) \in Nat
      BY <2>1, ConstantFacts DEF BuilderInv, HeadInv
    <3> QED BY <3>1 DEF FrameSize, FrameSizeMin
  <2> HIDE DEF size
  <2>4. i # size - 1
    BY <1>2, <2>3
  <2> QED BY <2>1, <2>2, <2>4
<1> QED BY <1>1, <1>2

(***************************************************************************)
(* No call of the builder writes behind the frame_size_max bytes it was    *)
(* given, whatever limits the calls before it had.                         *)
(***************************************************************************)
THEOREM WritesStayWithinMax == Spec => WritesWithinMax
<1>1. BuilderInv /\ [Next]_vars =>
        [\A i \in 0 .. MemSize - 1 : i >= call'.max => frame'[i] = frame[i]]_vars
  <2> SUFFICES ASSUME BuilderInv, Next, NEW i \in 0 .. MemSize - 1, i >= call'.max
               PROVE  frame'[i] = frame[i]
    OBVIOUS
  <2>1. ASSUME NEW max \in 0 .. MemSize, Begin(max) PROVE frame'[i] = frame[i]
    <3>1. call'.max = max
      BY <2>1 DEF Begin
    <3> QED BY <2>1, <3>1, BeginWrites
  <2>2. ASSUME NEW max \in 0 .. MemSize, NEW id \in Ids, NEW raw \in Raws,
               TryAppend(id, raw, max)
        PROVE  frame'[i] = frame[i]
    <3>1. call'.max = max
      BY <2>2 DEF TryAppend, AppendFails
    <3> QED BY <2>2, <3>1, AppendWrites
  <2>3. ASSUME NEW max \in 0 .. MemSize, End(max) PROVE frame'[i] = frame[i]
    <3>1. call'.max = max
      BY <2>3 DEF End
    <3> QED BY <2>3, <3>1, EndWrites
  <2> QED BY <2>1, <2>2, <2>3 DEF Next
<1> QED BY <1>1, BuilderInvariant, PTL DEF Spec, WritesWithinMax
==============================================================================
