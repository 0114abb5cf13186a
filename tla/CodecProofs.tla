---------------------------- MODULE CodecProofs ----------------------------
(***************************************************************************)
(* Proofs about the codec, for any values of the members, any reports of a *)
(* firmware's own and any length that arrives.  What the structs of the    *)
(* wire have in common is proved once, of all of them (Structs); then what *)
(* a field gives when its bits arrive whole, in part or not at all; the    *)
(* invariants follow.  Floats are what WireFields says of them, whatever   *)
(* their error is (Error) and whatever a cast too large gives.             *)
(***************************************************************************)
EXTENDS RosBridge, InductionFacts, SequenceTheorems, FiniteSetTheorems

-----------------------------------------------------------------------------
(* Powers of two.  The provers evaluate 2^n only where n is a small        *)
(* number; for any n it is the number of subsets of 1 .. n.                *)

LEMMA Power ==
  ASSUME NEW b \in Nat, NEW a \in 0 .. b
  PROVE  2^a \in Nat /\ 2^b \in Nat /\ 2^a <= 2^b
<1> DEFINE A == SUBSET (1 .. a)
           B == SUBSET (1 .. b)
<1>1. ASSUME NEW n \in Nat
      PROVE  /\ IsFiniteSet(SUBSET (1 .. n)) /\ Cardinality(SUBSET (1 .. n)) = 2^n
             /\ 2^n \in Nat
  <2> DEFINE s == 1 .. n
  <2>1. IsFiniteSet(s) /\ Cardinality(s) = n
    BY FS_Interval
  <2> HIDE DEF s
  <2>2. IsFiniteSet(SUBSET s) /\ Cardinality(SUBSET s) = 2^Cardinality(s)
    BY <2>1, FS_SUBSET
  <2>3. Cardinality(SUBSET s) \in Nat
    BY <2>2, FS_CardinalityType
  <2> QED BY <2>1, <2>2, <2>3 DEF s
<1>2. A \subseteq B
  OBVIOUS
<1> HIDE DEF A, B
<1>3. Cardinality(A) <= Cardinality(B)
  BY <1>1, <1>2, FS_Subset DEF B
<1> QED BY <1>1, <1>3 DEF A, B
-----------------------------------------------------------------------------
(* Structs. *)

Kinds == {"plain", "masked", "flag", "scaled", "signed", "ppm", "ratio",
          "count", "hidden"}

\* What all fields have in common.
IsField(f) ==
  /\ f.bits \in Nat /\ f.bits > 0 /\ f.kind \in Kinds /\ f.arg \in Nat
  /\ f.kind = "scaled" => f.bits <= 16
  /\ f.kind = "signed" => f.bits \in {16, 32}
  /\ f.kind = "flag"   => f.bits = 1
  /\ f.kind = "ratio"  => f.arg > 0
  /\ f.kind = "count"  => f.arg < 2^f.bits

\* A sequence of fields.
AreFields(fields) ==
  /\ Len(fields) \in Nat
  /\ fields = [i \in 1 .. Len(fields) |-> fields[i]]
  /\ \A i \in 1 .. Len(fields) : IsField(fields[i])

\* Field after field, without overlap.
LEMMA StartsInOrder ==
  ASSUME NEW fields, AreFields(fields)
  PROVE  LET at == Starts(fields)
             n  == Len(fields)
         IN  /\ n \in Nat /\ at[1] = 0
             /\ \A i \in 1 .. n + 1 : at[i] \in Nat
             /\ \A i \in 1 .. n : /\ fields[i].bits \in Nat /\ fields[i].bits > 0
                                  /\ at[i + 1] = at[i] + fields[i].bits
             /\ \A i \in 1 .. n, j \in 1 .. n + 1 :
                  i < j => at[i] + fields[i].bits <= at[j]
<1> DEFINE at == Starts(fields)
           n  == Len(fields)
           next == [c \in Nat \X (2 .. n + 1) |-> c[1] + fields[c[2] - 1].bits]
           Step(f, i) == IF i = 1 THEN 0 ELSE f[i - 1] + fields[i - 1].bits
           Is(f) == f = [i \in 1 .. n + 1 |-> Step(f, i)]
<1>1. n \in Nat
  BY DEF AreFields
<1>2. \A i \in 1 .. n : fields[i].bits \in Nat /\ fields[i].bits > 0
  BY DEF AreFields, IsField
<1> HIDE DEF n
<1>3. \E f \in [1 .. n + 1 -> Nat] : Is(f)
  <2>1. ASSUME NEW x \in Nat, NEW k \in 2 .. n + 1
        PROVE  /\ next[<<x, k>>] = x + fields[k - 1].bits
               /\ x + fields[k - 1].bits \in Nat
    <3>1. k - 1 \in 1 .. n
      BY <1>1
    <3>2. next[<<x, k>>] = x + fields[k - 1].bits
      OBVIOUS
    <3> HIDE DEF next
    <3> QED BY <1>2, <3>1, <3>2
  <2> DEFINE a == 1
             b == n + 1
             zero == 0
  <2>2. a \in Int /\ b \in Int /\ a <= b /\ zero \in Nat
    BY <1>1
  <2>3. next \in [Nat \X (a + 1 .. b) -> Nat]
    <3>1. \A c \in Nat \X (2 .. n + 1) : c[1] + fields[c[2] - 1].bits \in Nat
      BY <2>1
    <3>2. next \in [Nat \X (2 .. n + 1) -> Nat]
      BY <3>1
    <3>3. a + 1 .. b = 2 .. n + 1
      BY <1>1
    <3> HIDE DEF next, a, b
    <3> QED BY <3>2, <3>3
  <2> HIDE DEF next, a, b, zero
  <2>4. PICK f \in [a .. b -> Nat] :
          Follows(f, a, b, zero, next)
    BY <2>2, <2>3, FiniteRecursion
  <2> USE DEF a, b, zero, Follows
  <2>5. ASSUME NEW k \in 1 .. n + 1 PROVE f[k] = Step(f, k)
    <3>1. CASE k = 1
      BY <2>4, <3>1
    <3>2. CASE k # 1
      <4>1. k \in 2 .. n + 1 /\ k - 1 \in 1 .. n + 1
        BY <1>1, <3>2
      <4>2. f[k - 1] \in Nat
        BY <4>1
      <4>3. f[k] = next[<<f[k - 1], k>>]
        BY <2>4, <3>2
      <4> QED BY <2>1, <3>2, <4>1, <4>2, <4>3
    <3> QED BY <3>1, <3>2
  <2>6. Is(f) /\ f \in [1 .. n + 1 -> Nat]
    BY <2>4, <2>5
  <2> QED BY <2>6
<1>4. Is(at) /\ at \in [1 .. n + 1 -> Nat]
  <2>1. at = CHOOSE f : Is(f)
    BY DEF Starts, n
  <2> HIDE DEF at, Is
  <2>2. Is(at)
    BY <1>3, <2>1
  <2>3. PICK f \in [1 .. n + 1 -> Nat] : Is(f)
    BY <1>3
  <2> DEFINE Same == {k \in Nat : k <= n => at[k + 1] = f[k + 1]}
  <2>4. 0 \in Same
    BY <1>1, <2>2, <2>3 DEF Is
  <2>5. ASSUME NEW k \in Same PROVE k + 1 \in Same
    <3> SUFFICES ASSUME k + 1 <= n PROVE at[k + 2] = f[k + 2]
      OBVIOUS
    <3>1. k + 2 \in 1 .. n + 1 /\ k + 2 # 1 /\ k + 2 - 1 = k + 1 /\ k <= n
      BY <1>1
    <3>2. /\ at[k + 2] = at[k + 1] + fields[k + 1].bits
          /\ f[k + 2] = f[k + 1] + fields[k + 1].bits
      <4>1. /\ \A i \in 1 .. n + 1 : at[i] = Step(at, i)
            /\ \A i \in 1 .. n + 1 : f[i] = Step(f, i)
        BY <2>2, <2>3 DEF Is
      <4> QED BY <3>1, <4>1
    <3> QED BY <3>1, <3>2
  <2>6. Same = Nat
    <3> HIDE DEF Same
    <3>1. Same \subseteq Nat
      BY DEF Same
    <3> QED BY <2>4, <2>5, <3>1, SetInduction
  <2>7. ASSUME NEW i \in 1 .. n + 1 PROVE at[i] = f[i]
    <3>1. i - 1 \in Nat /\ i - 1 <= n /\ i - 1 + 1 = i
      BY <1>1
    <3> QED BY <2>6, <3>1
  <2>8. at = [i \in 1 .. n + 1 |-> at[i]]
    BY <2>2 DEF Is
  <2> QED BY <2>2, <2>7, <2>8
<1> HIDE DEF at
<1>5. at[1] = 0
  BY <1>1, <1>4
<1>6. \A i \in 1 .. n + 1 : at[i] \in Nat
  BY <1>4
<1>7. ASSUME NEW i \in 1 .. n PROVE at[i + 1] = at[i] + fields[i].bits
  <2>1. i + 1 \in 1 .. n + 1 /\ i + 1 # 1 /\ i + 1 - 1 = i
    BY <1>1
  <2>2. at[i + 1] = Step(at, i + 1)
    BY <1>4, <2>1
  <2> QED BY <2>1, <2>2
<1>8. ASSUME NEW i \in 1 .. n
      PROVE  \A j \in 1 .. n + 1 : i < j => at[i] + fields[i].bits <= at[j]
  <2> DEFINE Later == {k \in Nat : i + 1 + k <= n + 1 =>
                                     at[i] + fields[i].bits <= at[i + 1 + k]}
  <2>1. 0 \in Later
    <3>1. i \in 1 .. n + 1 /\ i + 1 + 0 = i + 1
      BY <1>1
    <3>2. at[i] + fields[i].bits <= at[i + 1 + 0]
      BY <1>2, <1>6, <1>7, <3>1
    <3> QED BY <3>2
  <2>2. ASSUME NEW k \in Later PROVE k + 1 \in Later
    <3> SUFFICES ASSUME i + 1 + (k + 1) <= n + 1
                 PROVE  at[i] + fields[i].bits <= at[i + 1 + (k + 1)]
      OBVIOUS
    <3> DEFINE m == i + 1 + k
    <3>1. /\ m \in 1 .. n /\ m \in 1 .. n + 1 /\ m + 1 = i + 1 + (k + 1)
          /\ i \in 1 .. n + 1
      BY <1>1
    <3>2. at[i] + fields[i].bits <= at[m]
      BY <1>1
    <3> HIDE DEF m
    <3>3. at[m + 1] = at[m] + fields[m].bits
      BY <1>7, <3>1
    <3>4. at[i] \in Nat /\ at[m] \in Nat /\ fields[i].bits \in Nat
          /\ fields[m].bits \in Nat
      BY <1>2, <1>6, <3>1
    <3>5. at[i] + fields[i].bits <= at[m + 1]
      <4> DEFINE x == fields[i].bits
                 y == fields[m].bits
      <4>1. /\ at[i] \in Nat /\ at[m] \in Nat /\ x \in Nat /\ y \in Nat
            /\ at[i] + x <= at[m] /\ at[m + 1] = at[m] + y
        BY <3>2, <3>3, <3>4
      <4> HIDE DEF x, y
      <4>2. at[i] + x <= at[m + 1]
        BY <4>1
      <4> QED BY <4>2 DEF x
    <3> QED BY <3>1, <3>5
  <2>3. Later = Nat
    <3> HIDE DEF Later
    <3>1. Later \subseteq Nat
      BY DEF Later
    <3> QED BY <2>1, <2>2, <3>1, SetInduction
  <2>4. ASSUME NEW j \in 1 .. n + 1, i < j
        PROVE  at[i] + fields[i].bits <= at[j]
    <3>1. j - i - 1 \in Nat /\ i + 1 + (j - i - 1) = j
      BY <1>1, <2>4
    <3>2. j - i - 1 \in Later
      BY <2>3, <3>1
    <3> QED BY <1>1, <3>1, <3>2
  <2> QED BY <2>4
<1> QED BY <1>1, <1>2, <1>5, <1>6, <1>7, <1>8 DEF at, n

\* What all structs have in common: at most one count, which goes up to the
\* most elements there can be; none if there are no elements; and elements of
\* whole bytes.
StructOK(s) ==
  /\ s.headAt = Starts(s.head) /\ s.itemAt = Starts(s.item)
  /\ AreFields(s.head) /\ AreFields(s.item) /\ s.max \in Nat
  /\ \A c, e \in CountIndex(s.head) : c = e
  /\ \A c \in CountIndex(s.head) : s.head[c].arg = s.max
  /\ CountIndex(s.head) = {} => s.max = 0
  /\ \A c, e \in CountIndex(s.item) : c = e
  /\ 8 * ItemBytes(s) = ItemBits(s)

\* A sequence of fields none of which is a count.
NoCounts(fields) ==
  /\ AreFields(fields)
  /\ \A i \in 1 .. Len(fields) : fields[i].kind # "count"

\* What the constructors of WireFields make.
NotCount(f) == IsField(f) /\ f.kind # "count"

LEMMA Constructors ==
  /\ \A name, bits : bits \in Nat \ {0} =>
       /\ NotCount(Plain(name, bits))
       /\ NotCount(Masked(name, bits))
       /\ bits <= 16 => NotCount(Scaled(name, bits))
       /\ bits \in {16, 32} => NotCount(Signed(name, bits))
  /\ \A name, bits, by :
       bits \in Nat \ {0} /\ by \in Nat \ {0} =>
         NotCount(Ratio(name, bits, by))
  /\ \A name, bits, dflt : bits \in Nat \ {0} /\ dflt \in Nat =>
       NotCount(Hidden(name, bits, dflt))
  /\ \A bits : bits \in Nat \ {0} => NotCount(Pad(bits))
  /\ \A name : NotCount(Flag(name)) /\ NotCount(Ppm(name))
<1> USE DEF NotCount, IsField, Kinds, Field
<1>1. ASSUME NEW name, NEW bits \in Nat \ {0}
      PROVE  /\ NotCount(Plain(name, bits))
             /\ NotCount(Masked(name, bits))
             /\ bits <= 16 => NotCount(Scaled(name, bits))
             /\ bits \in {16, 32} => NotCount(Signed(name, bits))
  BY DEF Plain, Masked, Scaled, Signed
<1>2. ASSUME NEW name, NEW bits \in Nat \ {0}, NEW by \in Nat \ {0}
      PROVE  NotCount(Ratio(name, bits, by))
  BY DEF Ratio
<1>3. ASSUME NEW name, NEW bits \in Nat \ {0}, NEW dflt \in Nat
      PROVE  NotCount(Hidden(name, bits, dflt))
  BY DEF Hidden
<1>4. ASSUME NEW bits \in Nat \ {0} PROVE NotCount(Pad(bits))
  BY <1>3 DEF Pad
<1>5. ASSUME NEW name PROVE NotCount(Flag(name)) /\ NotCount(Ppm(name))
  BY DEF Flag, Ppm
<1> HIDE DEF NotCount, IsField, Kinds, Field
<1> QED BY <1>1, <1>2, <1>3, <1>4, <1>5

LEMMA TimesFields ==
  ASSUME NEW n \in Nat, NEW f, IsField(f)
  PROVE  /\ AreFields(Times(n, f)) /\ Len(Times(n, f)) = n
         /\ \A i \in 1 .. n : Times(n, f)[i] = f
<1>1. Len(Times(n, f)) = n /\ \A i \in 1 .. n : Times(n, f)[i] = f
  BY DEF Times
<1>2. Times(n, f) = [i \in 1 .. n |-> Times(n, f)[i]]
  BY DEF Times
<1> QED BY <1>1, <1>2 DEF AreFields

LEMMA FlagsFields ==
  ASSUME NEW names, NEW n \in Nat, DOMAIN names = 1 .. n
  PROVE  NoCounts(Flags(names))
<1>1. Len(Flags(names)) = n /\ \A i \in 1 .. n : Flags(names)[i] = Flag(names[i])
  BY DEF Flags
<1>2. Flags(names) = [i \in 1 .. n |-> Flags(names)[i]]
  BY DEF Flags
<1>3. \A name : IsField(Flag(name)) /\ Flag(name).kind # "count"
  BY Constructors DEF NotCount
<1> QED BY <1>1, <1>2, <1>3 DEF AreFields, NoCounts

LEMMA ConcatFields ==
  ASSUME NEW s, NEW t, AreFields(s), AreFields(t)
  PROVE  /\ AreFields(s \o t) /\ Len(s \o t) = Len(s) + Len(t)
         /\ \A i \in 1 .. Len(s) : (s \o t)[i] = s[i]
         /\ \A i \in 1 .. Len(t) : (s \o t)[Len(s) + i] = t[i]
         /\ NoCounts(s) /\ NoCounts(t) => NoCounts(s \o t)
<1> DEFINE S == {s[i] : i \in 1 .. Len(s)} \cup {t[i] : i \in 1 .. Len(t)}
           m == Len(s)
           n == Len(t)
           all == s \o t
<1>1. m \in Nat /\ n \in Nat
  BY DEF AreFields
<1>2. s \in Seq(S) /\ t \in Seq(S)
  <2>1. s \in [1 .. m -> S] /\ t \in [1 .. n -> S]
    BY DEF AreFields
  <2> QED BY <1>1, <2>1, SeqDef
<1>3. /\ all \in Seq(S) /\ Len(all) = m + n
      /\ \A i \in 1 .. m + n : all[i] = IF i <= m THEN s[i] ELSE t[i - m]
  BY <1>2, ConcatProperties
<1>4. all = [i \in 1 .. Len(all) |-> all[i]]
  BY <1>3, LenProperties
<1> HIDE DEF m, n, all
<1>5. \A i \in 1 .. m : all[i] = s[i]
  BY <1>1, <1>3
<1>6. ASSUME NEW i \in 1 .. n PROVE all[m + i] = t[i]
  <2> DEFINE j == m + i
  <2>1. j \in 1 .. m + n /\ ~(j <= m) /\ j - m = i
    BY <1>1
  <2> HIDE DEF j
  <2>2. all[j] = t[i]
    BY <1>3, <2>1
  <2> QED BY <2>2 DEF j
<1>7. ASSUME NEW i \in 1 .. m + n
      PROVE  \/ i \in 1 .. m /\ all[i] = s[i]
             \/ i - m \in 1 .. n /\ all[i] = t[i - m]
  BY <1>1, <1>3
<1>8. AreFields(all)
  BY <1>1, <1>3, <1>4, <1>7 DEF AreFields, m, n
<1>9. NoCounts(s) /\ NoCounts(t) => NoCounts(all)
  BY <1>3, <1>7, <1>8 DEF NoCounts, m, n
<1> QED BY <1>3, <1>5, <1>6, <1>8, <1>9 DEF m, n, all

LEMMA FixedOK ==
  ASSUME NEW fields, NoCounts(fields)
  PROVE  StructOK(Fixed(fields))
<1> DEFINE s == Fixed(fields)
<1>1. /\ s.head = fields /\ s.max = 0 /\ s.item = <<>>
      /\ s.headAt = Starts(fields) /\ s.itemAt = Starts(<<>>)
  BY DEF Fixed, Struct
<1>2. AreFields(fields) /\ \A i \in 1 .. Len(fields) : fields[i].kind # "count"
  BY DEF NoCounts
<1>3. Len(<<>>) = 0 /\ AreFields(<<>>)
  BY DEF AreFields
<1> HIDE DEF s
<1>4. CountIndex(s.head) = {} /\ CountIndex(s.item) = {}
  <2>1. DOMAIN fields = 1 .. Len(fields)
    BY <1>2 DEF AreFields
  <2>2. DOMAIN s.item = {}
    BY <1>1
  <2> QED BY <1>1, <1>2, <2>1, <2>2 DEF CountIndex
<1>5. ItemBits(s) = 0
  <2>1. Starts(<<>>)[1] = 0
    BY <1>3, StartsInOrder
  <2> QED BY <1>1, <1>3, <2>1 DEF ItemBits
<1>6. 8 * ItemBytes(s) = ItemBits(s)
  BY <1>5 DEF ItemBytes
<1>7. AreFields(s.head) /\ AreFields(s.item) /\ s.max \in Nat
  BY <1>1, <1>2, <1>3
<1>8. s.headAt = Starts(s.head) /\ s.itemAt = Starts(s.item)
  BY <1>1
<1>9. StructOK(s)
  BY <1>1, <1>4, <1>6, <1>7, <1>8 DEF StructOK
<1> QED BY <1>9 DEF s

\* Fields side by side.
LEMMA Tuples ==
  /\ NoCounts(<<>>)
  /\ \A a : NotCount(a) => NoCounts(<<a>>)
  /\ \A a, b : NotCount(a) /\ NotCount(b) => NoCounts(<<a, b>>)
  /\ \A a, b, c :
       NotCount(a) /\ NotCount(b) /\ NotCount(c)
         => NoCounts(<<a, b, c>>)
  /\ \A a, b, c, d :
       NotCount(a) /\ NotCount(b) /\ NotCount(c) /\ NotCount(d)
         => NoCounts(<<a, b, c, d>>)
  /\ \A a, b, c, d, e :
       NotCount(a) /\ NotCount(b) /\ NotCount(c) /\ NotCount(d) /\
       NotCount(e)
         => NoCounts(<<a, b, c, d, e>>)
  /\ \A a, b, c, d, e, f :
       NotCount(a) /\ NotCount(b) /\ NotCount(c) /\ NotCount(d) /\
       NotCount(e) /\ NotCount(f)
         => NoCounts(<<a, b, c, d, e, f>>)
<1>1. NoCounts(<<>>)
  BY DEF NoCounts, AreFields
<1>2. ASSUME NEW a, NotCount(a)
      PROVE  NoCounts(<<a>>)
  BY <1>2 DEF NotCount, NoCounts, AreFields
<1>3. ASSUME NEW a, NEW b, NotCount(a), NotCount(b)
      PROVE  NoCounts(<<a, b>>)
  BY <1>3 DEF NotCount, NoCounts, AreFields
<1>4. ASSUME NEW a, NEW b, NEW c, NotCount(a), NotCount(b), NotCount(c)
      PROVE  NoCounts(<<a, b, c>>)
  BY <1>4 DEF NotCount, NoCounts, AreFields
<1>5. ASSUME NEW a, NEW b, NEW c, NEW d, NotCount(a), NotCount(b),
             NotCount(c), NotCount(d)
      PROVE  NoCounts(<<a, b, c, d>>)
  BY <1>5 DEF NotCount, NoCounts, AreFields
<1>6. ASSUME NEW a, NEW b, NEW c, NEW d, NEW e, NotCount(a), NotCount(b),
             NotCount(c), NotCount(d), NotCount(e)
      PROVE  NoCounts(<<a, b, c, d, e>>)
  BY <1>6 DEF NotCount, NoCounts, AreFields
<1>7. ASSUME NEW a, NEW b, NEW c, NEW d, NEW e, NEW f, NotCount(a),
             NotCount(b), NotCount(c), NotCount(d), NotCount(e), NotCount(f)
      PROVE  NoCounts(<<a, b, c, d, e, f>>)
  BY <1>7 DEF NotCount, NoCounts, AreFields
<1> QED BY <1>1, <1>2, <1>3, <1>4, <1>5, <1>6, <1>7

LEMMA PlainConcat ==
  \A s, t : NoCounts(s) /\ NoCounts(t) => NoCounts(s \o t)
BY ConcatFields DEF NoCounts

LEMMA PlainTimes ==
  \A n, f : n \in Nat /\ NotCount(f) => NoCounts(Times(n, f))
BY TimesFields DEF NoCounts, NotCount

LEMMA FlagTuples ==
  /\ \A a, b : NoCounts(Flags(<<a, b>>))
  /\ \A a, b, c : NoCounts(Flags(<<a, b, c>>))
  /\ \A a, b, c, d : NoCounts(Flags(<<a, b, c, d>>))
  /\ \A a, b, c, d, e, f, g, h :
       NoCounts(Flags(<<a, b, c, d, e, f, g, h>>))
  /\ \A a, b, c, d, e, f, g, h, i, j :
       NoCounts(Flags(<<a, b, c, d, e, f, g, h, i, j>>))
  /\ \A a, b, c, d, e, f, g, h, i, j, k, l :
       NoCounts(Flags(<<a, b, c, d, e, f, g, h, i, j, k, l>>))
<1>1. ASSUME NEW a, NEW b
      PROVE  NoCounts(Flags(<<a, b>>))
  <2>1. DOMAIN <<a, b>> = 1 .. 2
    OBVIOUS
  <2> QED BY <2>1, FlagsFields
<1>2. ASSUME NEW a, NEW b, NEW c
      PROVE  NoCounts(Flags(<<a, b, c>>))
  <2>1. DOMAIN <<a, b, c>> = 1 .. 3
    OBVIOUS
  <2> QED BY <2>1, FlagsFields
<1>3. ASSUME NEW a, NEW b, NEW c, NEW d
      PROVE  NoCounts(Flags(<<a, b, c, d>>))
  <2>1. DOMAIN <<a, b, c, d>> = 1 .. 4
    OBVIOUS
  <2> QED BY <2>1, FlagsFields
<1>4. ASSUME NEW a, NEW b, NEW c, NEW d, NEW e, NEW f, NEW g, NEW h
      PROVE  NoCounts(Flags(<<a, b, c, d, e, f, g, h>>))
  <2>1. DOMAIN <<a, b, c, d, e, f, g, h>> = 1 .. 8
    OBVIOUS
  <2> QED BY <2>1, FlagsFields
<1>5. ASSUME NEW a, NEW b, NEW c, NEW d, NEW e, NEW f, NEW g, NEW h,
             NEW i, NEW j
      PROVE  NoCounts(Flags(<<a, b, c, d, e, f, g, h, i, j>>))
  <2>1. DOMAIN <<a, b, c, d, e, f, g, h, i, j>> = 1 .. 10
    OBVIOUS
  <2> QED BY <2>1, FlagsFields
<1>6. ASSUME NEW a, NEW b, NEW c, NEW d, NEW e, NEW f, NEW g, NEW h,
             NEW i, NEW j, NEW k, NEW l
      PROVE  NoCounts(Flags(<<a, b, c, d, e, f, g, h, i, j, k, l>>))
  <2>1. DOMAIN <<a, b, c, d, e, f, g, h, i, j, k, l>> = 1 .. 12
    OBVIOUS
  <2> QED BY <2>1, FlagsFields
<1> QED BY <1>1, <1>2, <1>3, <1>4, <1>5, <1>6

\* The structs without elements.
LEMMA FixedStructs ==
  /\ StructOK(Restart) /\ StructOK(Find) /\ StructOK(EncryptParamWrite)
  /\ StructOK(EncryptParam) /\ StructOK(Param) /\ StructOK(RunTimeParam)
  /\ StructOK(LocationResult) /\ StructOK(PeripheralConfig)
  /\ StructOK(UartInterfaceParam) /\ StructOK(IicInterfaceParam)
  /\ StructOK(UwbInterfaceParam) /\ StructOK(TwrParam) /\ StructOK(TwrResult)
  /\ StructOK(Heartbeat) /\ StructOK(Imu) /\ StructOK(Attitude)
  /\ StructOK(ZMeasurement) /\ StructOK(StateControl)
  /\ StructOK(MapMeasurement) /\ StructOK(GlobalTimeStatus)
  /\ StructOK(AnchorPos) /\ StructOK(Empty) /\ StructOK(Extension)
<1> USE Constructors, Tuples, PlainConcat, PlainTimes, FlagTuples, FixedOK
<1>1. StructOK(Restart)
  BY DEF Restart
<1>2. StructOK(Find)
  BY DEF Find
<1>3. StructOK(EncryptParamWrite)
  BY DEF EncryptParamWrite
<1>4. StructOK(EncryptParam)
  BY DEF EncryptParam
<1>5. StructOK(Param)
  <2> DEFINE
    a == <<Hidden("expect_location_frequency", 32, 1), Plain("expect_z", 32),
           Scaled("z_noise", 8), Masked("smooth_window", 4), Pad(4)>>
    b == Flags(<<"output_tag_pos", "output_anchor_packet", "output_anchor_pos",
             "output_anchor_link_data", "output_anchor_signal",
             "output_anchor_ddoa", "output_tag_pos_even_error",
             "output_anchor_link_status">>)
    c == <<Plain("sniff_duty_cycle", 8), Plain("update_interval_max", 8),
           Plain("reset_interval", 16), Plain("min_sync_anchor_count", 8),
           Plain("min_sniff_duty_cycle", 8)>>
    d == <<Hidden("locate_with_all_maps", 1, 1), Hidden("deprecated", 1, 0),
           Pad(6), Plain("static_map_id", 8), Hidden("output_delay_ms", 8, 0)>>
    e == Flags(<<"output_imu", "output_attitude", "output_dis", "output_pdoa">>)
    x == Times(3, Scaled("max_acceleration", 8))
    y == Times(5, Hidden("arg0..map_switch_window", 8, 0))
  <2>1. NoCounts(a)
    OBVIOUS
  <2>2. NoCounts(b) /\ NoCounts(c) /\ NoCounts(x)
    OBVIOUS
  <2>3. NoCounts(d) /\ NoCounts(e) /\ NoCounts(y)
    OBVIOUS
  <2>4. Param = Fixed(a \o x \o b \o c \o y \o d \o e)
    BY DEF Param
  <2> HIDE DEF a, b, c, d, e, x, y
  <2> QED BY <2>1, <2>2, <2>3, <2>4
<1>6. StructOK(RunTimeParam)
  BY DEF RunTimeParam
<1>7. StructOK(LocationResult)
  BY DEF LocationResult, Time, Floats
<1>8. StructOK(PeripheralConfig)
  BY DEF PeripheralConfig
<1>9. StructOK(UartInterfaceParam)
  BY DEF UartInterfaceParam
<1>10. StructOK(IicInterfaceParam)
  BY DEF IicInterfaceParam
<1>11. StructOK(UwbInterfaceParam)
  BY DEF UwbInterfaceParam
<1>12. StructOK(TwrParam)
  BY DEF TwrParam
<1>13. StructOK(TwrResult)
  BY DEF TwrResult
<1>14. StructOK(Heartbeat)
  BY DEF Heartbeat
<1>15. StructOK(Imu)
  BY DEF Imu, Time, Floats
<1>16. StructOK(Attitude)
  BY DEF Attitude, Time, Floats
<1>17. StructOK(ZMeasurement)
  BY DEF ZMeasurement
<1>18. StructOK(StateControl)
  BY DEF StateControl
<1>19. StructOK(MapMeasurement)
  BY DEF MapMeasurement
<1>20. StructOK(GlobalTimeStatus)
  BY DEF GlobalTimeStatus
<1>21. StructOK(AnchorPos)
  BY DEF AnchorPos, Time
<1>22. StructOK(Empty)
  BY DEF Empty
<1>23. StructOK(Extension)
  BY DEF Extension
<1> QED BY <1>1, <1>2, <1>3, <1>4, <1>5, <1>6, <1>7, <1>8, <1>9, <1>10, <1>11, <1>12,
  <1>13, <1>14, <1>15, <1>16, <1>17, <1>18, <1>19, <1>20, <1>21, <1>22, <1>23

\* A struct with elements: one count in its head, which goes up to max.
LEMMA StructWithItems ==
  ASSUME NEW head, NEW max \in Nat, NEW item, NEW c, NEW bytes \in Nat,
         AreFields(head), AreFields(item),
         CountIndex(head) = {c}, head[c].arg = max,
         \A d, e \in CountIndex(item) : d = e,
         Starts(item)[Len(item) + 1] = 8 * bytes
  PROVE  StructOK(Struct(head, max, item))
<1> DEFINE s == Struct(head, max, item)
<1>1. /\ s.head = head /\ s.max = max /\ s.item = item
      /\ s.headAt = Starts(head) /\ s.itemAt = Starts(item)
  BY DEF Struct
<1> HIDE DEF s
<1>2. ItemBits(s) = 8 * bytes
  BY <1>1 DEF ItemBits
<1>3. 8 * ItemBytes(s) = ItemBits(s)
  <2>1. (8 * bytes) \div 8 = bytes
    OBVIOUS
  <2> QED BY <1>2, <2>1 DEF ItemBytes
<1>4. StructOK(s)
  BY <1>1, <1>3 DEF StructOK
<1> QED BY <1>4 DEF s

LEMMA CountField ==
  ASSUME NEW name, NEW max \in Nat
  PROVE  /\ max < 16  => IsField(Count(name, 4, max))
         /\ max < 256 => IsField(Count(name, 8, max))
<1>1. ASSUME NEW bits, bits = 4, max < 16 PROVE IsField(Count(name, bits, max))
  <2>1. 2^bits = 16
    BY <1>1
  <2> QED BY <1>1, <2>1 DEF IsField, Kinds, Field, Count
<1>2. ASSUME NEW bits, bits = 8, max < 256 PROVE IsField(Count(name, bits, max))
  <2>1. 2^bits = 256
    BY <1>2
  <2> QED BY <1>2, <2>1 DEF IsField, Kinds, Field, Count
<1> QED BY <1>1, <1>2

\* Fields side by side.
LEMMA FieldTuples ==
  /\ \A a : IsField(a) => AreFields(<<a>>)
  /\ \A a, b : IsField(a) /\ IsField(b) => AreFields(<<a, b>>)
  /\ \A a, b, c :
       IsField(a) /\ IsField(b) /\ IsField(c) => AreFields(<<a, b, c>>)
  /\ \A a, b, c, d :
       IsField(a) /\ IsField(b) /\ IsField(c) /\ IsField(d)
         => AreFields(<<a, b, c, d>>)
<1>1. ASSUME NEW a, IsField(a) PROVE AreFields(<<a>>)
  BY <1>1 DEF AreFields
<1>2. ASSUME NEW a, NEW b, IsField(a), IsField(b) PROVE AreFields(<<a, b>>)
  BY <1>2 DEF AreFields
<1>3. ASSUME NEW a, NEW b, NEW c, IsField(a), IsField(b), IsField(c)
      PROVE  AreFields(<<a, b, c>>)
  BY <1>3 DEF AreFields
<1>4. ASSUME NEW a, NEW b, NEW c, NEW d, IsField(a), IsField(b), IsField(c),
             IsField(d)
      PROVE  AreFields(<<a, b, c, d>>)
  BY <1>4 DEF AreFields
<1> QED BY <1>1, <1>2, <1>3, <1>4

\* The structs with elements.
LEMMA ItemStructs ==
  /\ StructOK(UserData) /\ StructOK(Anchor2TagDdoa) /\ StructOK(Anchor2TagSignal)
  /\ StructOK(Tag2AnchorDis) /\ StructOK(Tag2AnchorPdoa)
<1>1. StructOK(UserData)
  <2> DEFINE head  == <<Pad(8), Count("payload_size", 8, 64)>>
             item  == <<Plain("payload", 8)>>
             max   == 64
             bytes == 1
  <2>1. AreFields(head) /\ AreFields(item)
    <3>1. IsField(Count("payload_size", 8, 64))
      BY CountField
    <3> QED BY <3>1, FieldTuples, Tuples, Constructors DEF NotCount, NoCounts, Begin, Addr
  <2>2. CountIndex(head) = {2} /\ head[2].arg = max /\ CountIndex(item) = {}
    BY DEF CountIndex, Field, Pad, Hidden, Count, Plain, Masked, Signed, Scaled, Ppm,
           Begin, Addr
  <2>3. Len(item) = 1 /\ item[1].bits = 8
    BY DEF Field, Pad, Hidden, Count, Plain, Masked, Signed, Scaled, Ppm,
           Begin, Addr
  <2> HIDE DEF head, item
  <2> DEFINE at == Starts(item)
  <2>4. at[1] = 0 /\ \A i \in 1 .. 1 : at[i + 1] = at[i] + item[i].bits
    BY <2>1, <2>3, StartsInOrder
  <2> HIDE DEF at
  <2>5. at[2] = 8
    <3>1. at[1 + 1] = at[1] + item[1].bits
      BY <2>4
    <3> QED BY <3>1, <2>3, <2>4
  <2>6. max \in Nat /\ bytes \in Nat /\ at[Len(item) + 1] = 8 * bytes
    BY <2>3, <2>5
  <2> HIDE DEF max, bytes
  <2>7. StructOK(Struct(head, max, item))
    BY <2>1, <2>2, <2>6, StructWithItems DEF at
  <2> QED BY <2>7 DEF UserData, head, item, max
<1>2. StructOK(Anchor2TagDdoa)
  <2> DEFINE head  == <<Begin, Masked("group_count", 4), Masked("group_index", 4),
                        Count("count", 8, 10)>>
             item  == <<Plain("a0", 16), Plain("a1", 16), Signed("ddoa", 16)>>
             max   == 10
             bytes == 6
  <2>1. AreFields(head) /\ AreFields(item)
    <3>1. IsField(Count("count", 8, 10))
      BY CountField
    <3> QED BY <3>1, FieldTuples, Tuples, Constructors DEF NotCount, NoCounts, Begin, Addr
  <2>2. CountIndex(head) = {4} /\ head[4].arg = max /\ CountIndex(item) = {}
    BY DEF CountIndex, Field, Pad, Hidden, Count, Plain, Masked, Signed, Scaled, Ppm,
           Begin, Addr
  <2>3. /\ Len(item) = 3
        /\ item[1].bits = 16
        /\ item[2].bits = 16
        /\ item[3].bits = 16
    BY DEF Field, Pad, Hidden, Count, Plain, Masked, Signed, Scaled, Ppm,
           Begin, Addr
  <2> HIDE DEF head, item
  <2> DEFINE at == Starts(item)
  <2>4. at[1] = 0 /\ \A i \in 1 .. 3 : at[i + 1] = at[i] + item[i].bits
    BY <2>1, <2>3, StartsInOrder
  <2> HIDE DEF at
  <2>5. at[2] = 16
    <3>1. at[1 + 1] = at[1] + item[1].bits
      BY <2>4
    <3> QED BY <3>1, <2>3, <2>4
  <2>6. at[3] = 32
    <3>1. at[2 + 1] = at[2] + item[2].bits
      BY <2>4
    <3> QED BY <3>1, <2>3, <2>5
  <2>7. at[4] = 48
    <3>1. at[3 + 1] = at[3] + item[3].bits
      BY <2>4
    <3> QED BY <3>1, <2>3, <2>6
  <2>8. max \in Nat /\ bytes \in Nat /\ at[Len(item) + 1] = 8 * bytes
    BY <2>3, <2>7
  <2> HIDE DEF max, bytes
  <2>9. StructOK(Struct(head, max, item))
    BY <2>1, <2>2, <2>8, StructWithItems DEF at
  <2> QED BY <2>9 DEF Anchor2TagDdoa, head, item, max
<1>3. StructOK(Anchor2TagSignal)
  <2> DEFINE head  == <<Begin, Pad(8), Count("count", 4, 9),
                        Masked("location_mode", 4)>>
             item  == <<Addr, Scaled("rx_rssi", 8), Scaled("fp_rssi", 8),
                        Ppm("uwb_clock_offset_ppm"),
                        Ppm("mcu_clock_offset_ppm"), Scaled("rx_rate", 8)>>
             max   == 9
             bytes == 7
  <2>1. AreFields(head) /\ AreFields(item)
    <3>1. IsField(Count("count", 4, 9))
      BY CountField
    <3> QED BY <3>1, FieldTuples, Tuples, Constructors DEF NotCount, NoCounts, Begin, Addr
  <2>2. CountIndex(head) = {3} /\ head[3].arg = max /\ CountIndex(item) = {}
    BY DEF CountIndex, Field, Pad, Hidden, Count, Plain, Masked, Signed, Scaled, Ppm,
           Begin, Addr
  <2>3. /\ Len(item) = 6
        /\ item[1].bits = 16
        /\ item[2].bits = 8
        /\ item[3].bits = 8
        /\ item[4].bits = 8
        /\ item[5].bits = 8
        /\ item[6].bits = 8
    BY DEF Field, Pad, Hidden, Count, Plain, Masked, Signed, Scaled, Ppm,
           Begin, Addr
  <2> HIDE DEF head, item
  <2> DEFINE at == Starts(item)
  <2>4. at[1] = 0 /\ \A i \in 1 .. 6 : at[i + 1] = at[i] + item[i].bits
    BY <2>1, <2>3, StartsInOrder
  <2> HIDE DEF at
  <2>5. at[2] = 16
    <3>1. at[1 + 1] = at[1] + item[1].bits
      BY <2>4
    <3> QED BY <3>1, <2>3, <2>4
  <2>6. at[3] = 24
    <3>1. at[2 + 1] = at[2] + item[2].bits
      BY <2>4
    <3> QED BY <3>1, <2>3, <2>5
  <2>7. at[4] = 32
    <3>1. at[3 + 1] = at[3] + item[3].bits
      BY <2>4
    <3> QED BY <3>1, <2>3, <2>6
  <2>8. at[5] = 40
    <3>1. at[4 + 1] = at[4] + item[4].bits
      BY <2>4
    <3> QED BY <3>1, <2>3, <2>7
  <2>9. at[6] = 48
    <3>1. at[5 + 1] = at[5] + item[5].bits
      BY <2>4
    <3> QED BY <3>1, <2>3, <2>8
  <2>10. at[7] = 56
    <3>1. at[6 + 1] = at[6] + item[6].bits
      BY <2>4
    <3> QED BY <3>1, <2>3, <2>9
  <2>11. max \in Nat /\ bytes \in Nat /\ at[Len(item) + 1] = 8 * bytes
    BY <2>3, <2>10
  <2> HIDE DEF max, bytes
  <2>12. StructOK(Struct(head, max, item))
    BY <2>1, <2>2, <2>11, StructWithItems DEF at
  <2> QED BY <2>12 DEF Anchor2TagSignal, head, item, max
<1>4. StructOK(Tag2AnchorDis)
  <2> DEFINE head  == <<Begin, Pad(8), Count("count", 4, 9), Pad(4)>>
             item  == <<Addr, Signed("dis", 16)>>
             max   == 9
             bytes == 4
  <2>1. AreFields(head) /\ AreFields(item)
    <3>1. IsField(Count("count", 4, 9))
      BY CountField
    <3> QED BY <3>1, FieldTuples, Tuples, Constructors DEF NotCount, NoCounts, Begin, Addr
  <2>2. CountIndex(head) = {3} /\ head[3].arg = max /\ CountIndex(item) = {}
    BY DEF CountIndex, Field, Pad, Hidden, Count, Plain, Masked, Signed, Scaled, Ppm,
           Begin, Addr
  <2>3. /\ Len(item) = 2
        /\ item[1].bits = 16
        /\ item[2].bits = 16
    BY DEF Field, Pad, Hidden, Count, Plain, Masked, Signed, Scaled, Ppm,
           Begin, Addr
  <2> HIDE DEF head, item
  <2> DEFINE at == Starts(item)
  <2>4. at[1] = 0 /\ \A i \in 1 .. 2 : at[i + 1] = at[i] + item[i].bits
    BY <2>1, <2>3, StartsInOrder
  <2> HIDE DEF at
  <2>5. at[2] = 16
    <3>1. at[1 + 1] = at[1] + item[1].bits
      BY <2>4
    <3> QED BY <3>1, <2>3, <2>4
  <2>6. at[3] = 32
    <3>1. at[2 + 1] = at[2] + item[2].bits
      BY <2>4
    <3> QED BY <3>1, <2>3, <2>5
  <2>7. max \in Nat /\ bytes \in Nat /\ at[Len(item) + 1] = 8 * bytes
    BY <2>3, <2>6
  <2> HIDE DEF max, bytes
  <2>8. StructOK(Struct(head, max, item))
    BY <2>1, <2>2, <2>7, StructWithItems DEF at
  <2> QED BY <2>8 DEF Tag2AnchorDis, head, item, max
<1>5. StructOK(Tag2AnchorPdoa)
  <2> DEFINE head  == <<Begin, Pad(8), Count("count", 4, 9), Pad(4)>>
             own   == <<Addr, Masked("antenna_type", 4), Count("pdoa_count", 4, 4)>>
             pdoas == Times(4, Signed("pdoas", 16))
             item  == own \o pdoas
             max   == 9
             bytes == 11
  <2>1. AreFields(head) /\ AreFields(own) /\ AreFields(pdoas)
    <3>1. IsField(Count("count", 4, 9)) /\ IsField(Count("pdoa_count", 4, 4))
      BY CountField
    <3>2. AreFields(pdoas)
      BY TimesFields, Constructors DEF NotCount
    <3> HIDE DEF pdoas
    <3> QED BY <3>1, <3>2, FieldTuples, Constructors DEF NotCount, Begin, Addr
  <2>2. CountIndex(head) = {3} /\ head[3].arg = max
    BY DEF CountIndex, Field, Pad, Hidden, Count, Plain, Begin
  <2>3. /\ Len(own) = 3
        /\ own[1].bits = 16 /\ own[2].bits = 4 /\ own[3].bits = 4
        /\ own[1].kind # "count" /\ own[2].kind # "count"
    BY DEF Field, Count, Plain, Masked, Addr
  <2>4. /\ Len(pdoas) = 4
        /\ \A i \in 1 .. 4 : pdoas[i].bits = 16 /\ pdoas[i].kind # "count"
    <3> DEFINE f == Signed("pdoas", 16)
               n == 4
    <3>1. IsField(f) /\ f.bits = 16 /\ f.kind # "count" /\ n \in Nat
      BY Constructors DEF NotCount, Field, Signed
    <3> HIDE DEF f, n
    <3>2. Len(Times(n, f)) = n /\ \A i \in 1 .. n : Times(n, f)[i] = f
      BY <3>1, TimesFields
    <3> QED BY <3>1, <3>2 DEF f, n
  <2> HIDE DEF head, own, pdoas
  <2>5. /\ AreFields(item) /\ Len(item) = 7
        /\ \A i \in 1 .. 3 : item[i] = own[i]
        /\ \A i \in 1 .. 4 : item[3 + i] = pdoas[i]
    <3>1. /\ AreFields(own \o pdoas) /\ Len(own \o pdoas) = Len(own) + Len(pdoas)
          /\ \A i \in 1 .. Len(own) : (own \o pdoas)[i] = own[i]
          /\ \A i \in 1 .. Len(pdoas) : (own \o pdoas)[Len(own) + i] = pdoas[i]
      BY <2>1, ConcatFields
    <3> HIDE DEF item
    <3>2. /\ AreFields(item) /\ Len(item) = Len(own) + Len(pdoas)
          /\ \A i \in 1 .. Len(own) : item[i] = own[i]
          /\ \A i \in 1 .. Len(pdoas) : item[Len(own) + i] = pdoas[i]
      BY <3>1 DEF item
    <3> QED BY <2>3, <2>4, <3>2
  <2> HIDE DEF item
  <2>6. /\ item[1].bits = 16 /\ item[2].bits = 4 /\ item[3].bits = 4
        /\ item[1].kind # "count" /\ item[2].kind # "count"
    BY <2>3, <2>5
  <2>7. \A i \in 1 .. 4 : item[3 + i].bits = 16 /\ item[3 + i].kind # "count"
    BY <2>4, <2>5
  <2>8. \A d \in CountIndex(item) : d = 3
    <3> SUFFICES ASSUME NEW d \in 1 .. 7, item[d].kind = "count" PROVE d = 3
      BY <2>5 DEF CountIndex, AreFields
    <3>1. CASE d <= 3
      BY <2>6, <3>1
    <3>2. CASE d > 3
      <4>1. d - 3 \in 1 .. 4 /\ 3 + (d - 3) = d
        BY <3>2
      <4> QED BY <2>7, <4>1
    <3> QED BY <3>1, <3>2
  <2> DEFINE at == Starts(item)
  <2>9. at[1] = 0 /\ \A i \in 1 .. 7 : at[i + 1] = at[i] + item[i].bits
    BY <2>5, StartsInOrder
  <2> HIDE DEF at
  <2>10. at[4] = 24
    <3>1. at[1 + 1] = at[1] + item[1].bits /\ at[2 + 1] = at[2] + item[2].bits
          /\ at[3 + 1] = at[3] + item[3].bits
      BY <2>9
    <3> QED BY <2>6, <2>9, <3>1
  <2>11. at[8] = 88
    <3>1. at[4 + 1] = at[4] + item[3 + 1].bits /\ at[5 + 1] = at[5] + item[3 + 2].bits
      BY <2>9
    <3>2. at[6 + 1] = at[6] + item[3 + 3].bits /\ at[7 + 1] = at[7] + item[3 + 4].bits
      BY <2>9
    <3>3. item[3 + 1].bits = 16 /\ item[3 + 2].bits = 16 /\ item[3 + 3].bits = 16
          /\ item[3 + 4].bits = 16
      BY <2>7
    <3> QED BY <2>10, <3>1, <3>2, <3>3
  <2>12. max \in Nat /\ bytes \in Nat /\ at[Len(item) + 1] = 8 * bytes
    BY <2>5, <2>11
  <2> HIDE DEF max, bytes
  <2>13. StructOK(Struct(head, max, item))
    <3>1. \A d, e \in CountIndex(item) : d = e
      BY <2>8
    <3>2. Starts(item)[Len(item) + 1] = 8 * bytes
      BY <2>12 DEF at
    <3>3. AreFields(head) /\ AreFields(item) /\ max \in Nat /\ bytes \in Nat
      BY <2>1, <2>5, <2>12
    <3> QED BY <2>2, <3>1, <3>2, <3>3, StructWithItems
  <2> QED BY <2>13 DEF Tag2AnchorPdoa, head, own, pdoas, item, max
<1> QED BY <1>1, <1>2, <1>3, <1>4, <1>5

LEMMA Structs == \A name \in DOMAIN Layout : StructOK(Layout[name])
<1> USE FixedStructs, ItemStructs
<1> HIDE DEF StructOK
<1> QED BY DEF Layout

\* The tables of the two sides agree, and name structs that there are.
LEMMA Tables ==
  /\ \A dir \in Directions :
       /\ EncodeTable(dir) = DecodeTable(dir)
       /\ \A id \in DOMAIN EncodeTable(dir) : EncodeTable(dir)[id] \in DOMAIN Layout
       /\ ExtensionId \notin DOMAIN EncodeTable(dir)
  /\ "Unknown" \notin DOMAIN Layout /\ "Extension" \in DOMAIN Layout
<1>1. EncodeDevToUser = DecodeDevToUser /\ EncodeUserToDev = DecodeUserToDev
  BY Zenon DEF EncodeDevToUser, DecodeDevToUser, EncodeUserToDev, DecodeUserToDev
<1>2. "Unknown" \notin DOMAIN Layout /\ "Extension" \in DOMAIN Layout
  BY DEF Layout
<1>3. ExtensionId \notin DOMAIN EncodeDevToUser
  BY DEF EncodeDevToUser, ExtensionId
<1>4. ExtensionId \notin DOMAIN EncodeUserToDev
  BY DEF EncodeUserToDev, ExtensionId
<1> DEFINE names == DOMAIN Layout
<1>5. names = {"Restart", "Find", "EncryptParamWrite", "EncryptParam", "Param",
        "RunTimeParam", "LocationResult", "PeripheralConfig",
        "UartInterfaceParam", "IicInterfaceParam", "UwbInterfaceParam",
        "TwrParam", "TwrResult", "Heartbeat", "UserData", "Anchor2TagDdoa",
        "Anchor2TagSignal", "Tag2AnchorDis", "Tag2AnchorPdoa", "Imu",
        "Attitude", "ZMeasurement", "StateControl", "MapMeasurement",
        "GlobalTimeStatus", "AnchorPos", "Empty", "Extension"}
  BY DEF Layout
<1> HIDE DEF names
<1>6. \A id \in DOMAIN EncodeDevToUser : EncodeDevToUser[id] \in names
  BY <1>5 DEF EncodeDevToUser
<1>7. \A id \in DOMAIN EncodeUserToDev : EncodeUserToDev[id] \in names
  BY <1>5 DEF EncodeUserToDev
<1> QED BY <1>1, <1>2, <1>3, <1>4, <1>6, <1>7
        DEF Directions, EncodeTable, DecodeTable, names

\* What is looked up: the table's struct of an id it has, whatever the hook, or
\* the extension.
LEMMA LookedUp ==
  ASSUME NEW dir \in Directions, NEW id, NEW hook
  PROVE  LET table == DecodeTable(dir)
             name  == Looked(table, id, hook)
         IN  /\ EncodeTable(dir) = table
             /\ name # "Unknown" =>
                  /\ name \in DOMAIN Layout
                  /\ name = IF id \in DOMAIN table THEN table[id] ELSE "Extension"
             /\ id \in DOMAIN table => name = table[id] /\ name # "Unknown"
BY Tables DEF Looked
-----------------------------------------------------------------------------
(* The codec and the converters' nodes: which struct a message is sent and *)
(* read as, and from what.                                                 *)

\* The struct of a message that either side knows.
NameOf(dir, id) ==
  IF id \in DOMAIN EncodeTable(dir) THEN EncodeTable(dir)[id] ELSE "Extension"

ReadInv ==
  /\ stage # "idle" =>
       /\ route.dir \in Directions
       /\ route.id \in DOMAIN EncodeTable(route.dir) =>
            route.sent = EncodeTable(route.dir)[route.id]
  /\ stage = "idle" => route = Route("none", "none", "none", "none")
  /\ stage = "refused" => route.id \notin DOMAIN EncodeTable(route.dir)
  /\ stage = "unknown" => route.id \notin DOMAIN DecodeTable(route.dir)
  /\ stage = "known" =>
       /\ route.read \in DOMAIN Layout
       /\ route.read = NameOf(route.dir, route.id)
       /\ arrived \in Nat
       /\ got = Decoded(ReadAs, Copied(ReadAs, wire, arrived))

LEMMA ReadInvCodecStep ==
  ASSUME ReadInv, Next
  PROVE  ReadInv'
<1>1. ASSUME NEW dir \in Directions, NEW hook, NEW id, Encode(dir, id, hook)
      PROVE  ReadInv'
  <2> DEFINE name == Looked(EncodeTable(dir), id, hook)
  <2>1. /\ route'.dir = dir /\ route'.id = id /\ route'.sent = name
    BY <1>1 DEF Encode, Route
  <2>2. id \in DOMAIN EncodeTable(dir) => name = EncodeTable(dir)[id]
    BY LookedUp
  <2>3. CASE name = "Unknown"
    <3>1. stage' = "refused"
      BY <1>1, <2>3 DEF Encode
    <3>2. id \notin DOMAIN EncodeTable(dir)
      BY <2>3, LookedUp
    <3> HIDE DEF name
    <3> QED BY <2>1, <2>2, <3>1, <3>2 DEF ReadInv
  <2>4. CASE name # "Unknown"
    <3>1. stage' = "sent"
      BY <1>1, <2>4 DEF Encode
    <3> HIDE DEF name
    <3> QED BY <2>1, <2>2, <3>1 DEF ReadInv
  <2> QED BY <2>3, <2>4
<1>2. ASSUME NEW id \in DOMAIN DecodeDevToUser, Report(id)
      PROVE  ReadInv'
  <2>1. /\ stage' = "sent" /\ route'.dir = "dev_to_user" /\ route'.id = id
        /\ route'.sent = DecodeDevToUser[id]
    BY <1>2 DEF Report, Route
  <2>2. /\ "dev_to_user" \in Directions
        /\ EncodeTable("dev_to_user") = DecodeDevToUser
    BY Tables DEF Directions, DecodeTable
  <2> QED BY <2>1, <2>2 DEF ReadInv
<1>3. ASSUME NEW n \in Nat, NEW hook, Decode(n, hook)
      PROVE  ReadInv'
  <2> DEFINE name == Looked(DecodeTable(route.dir), route.id, hook)
  <2>1. /\ stage = "sent" /\ arrived' = n /\ wire' = wire
        /\ route'.dir = route.dir /\ route'.id = route.id
        /\ route'.sent = route.sent /\ route'.read = name
    BY <1>3 DEF Decode, Route
  <2>2. /\ route.dir \in Directions
        /\ route.id \in DOMAIN EncodeTable(route.dir) =>
             route.sent = EncodeTable(route.dir)[route.id]
    BY <2>1 DEF ReadInv
  <2>3. CASE name = "Unknown"
    <3>1. stage' = "unknown"
      BY <1>3, <2>3 DEF Decode
    <3>2. route.id \notin DOMAIN DecodeTable(route.dir)
      BY <2>2, <2>3, LookedUp
    <3> HIDE DEF name
    <3> QED BY <2>1, <2>2, <3>1, <3>2 DEF ReadInv
  <2>4. CASE name # "Unknown"
    <3>1. /\ stage' = "known"
          /\ got' = Decoded(Layout[name], Copied(Layout[name], wire, n))
      BY <1>3, <2>4 DEF Decode
    <3>2. name \in DOMAIN Layout /\ name = NameOf(route.dir, route.id)
      BY <2>2, <2>4, LookedUp DEF NameOf
    <3> HIDE DEF name
    <3>3. ReadAs' = Layout[name] /\ NameOf(route.dir, route.id)' = name
      BY <2>1, <3>2 DEF ReadAs, NameOf
    <3> QED BY <2>1, <2>2, <3>1, <3>2, <3>3 DEF ReadInv
  <2> QED BY <2>3, <2>4
<1>4. ASSUME WriteBack PROVE ReadInv'
  BY <1>4 DEF WriteBack, ReadInv
<1> QED BY <1>1, <1>2, <1>3, <1>4 DEF Next

LEMMA ReadInvInductive ==
  /\ BridgeInit => ReadInv
  /\ ReadInv /\ [BridgeNext]_bridgeVars => ReadInv'
<1>1. BridgeInit => ReadInv
  BY DEF BridgeInit, Init, ReadInv
<1>2. ASSUME ReadInv, [BridgeNext]_bridgeVars PROVE ReadInv'
  <2>1. CASE UNCHANGED bridgeVars
    <3>1. UNCHANGED codecVars
      BY <2>1 DEF bridgeVars
    <3> QED BY <1>2, <3>1 DEF ReadInv, codecVars, ReadAs, NameOf
  <2>2. CASE Next
    BY <1>2, <2>2, ReadInvCodecStep
  <2>3. ASSUME NEW ros \in Converters, Publish(ros) PROVE ReadInv'
    BY <1>2, <2>3 DEF Publish, ReadInv
  <2>4. ASSUME NEW ros \in Converters, NEW topic, RosCommand(ros, topic)
        PROVE  ReadInv'
    <3>1. /\ stage' = "sent" /\ route'.dir = "user_to_dev"
          /\ route'.sent = EncodeUserToDev[route'.id]
      BY <2>4 DEF RosCommand, Route
    <3>2. EncodeTable("user_to_dev") = EncodeUserToDev
      BY DEF EncodeTable
    <3> QED BY <3>1, <3>2 DEF ReadInv, Directions
  <2>5. CASE RosWriteBack
    BY <1>2, <2>5 DEF RosWriteBack, ReadInv
  <2> QED BY <1>2, <2>1, <2>2, <2>3, <2>4, <2>5 DEF BridgeNext
<1> QED BY <1>1, <1>2

(***************************************************************************)
(* What is read is one of the structs, that of the message's id, and got   *)
(* is what its from_raw makes of the bytes that arrived.                   *)
(***************************************************************************)
THEOREM ReadInvariant == BridgeSpec => []ReadInv
BY ReadInvInductive, PTL DEF BridgeSpec

(***************************************************************************)
(* What one side's table sends, the other side's knows and reads as the    *)
(* same struct, with the codec alone and behind either converter, whatever *)
(* the values, the lengths and the hooks, even those that claim the id.    *)
(***************************************************************************)
THEOREM SidesAgree == BridgeSpec => []TablesAgree
<1>1. ReadInv => TablesAgree
  <2> SUFFICES ASSUME ReadInv, route.id \in DOMAIN EncodeTable(route.dir)
               PROVE  /\ stage \notin {"refused", "unknown"}
                      /\ route.sent = EncodeTable(route.dir)[route.id]
                      /\ stage = "known" => route.read = route.sent
    BY DEF TablesAgree
  <2>1. stage # "idle"
    <3>1. "none" \notin DOMAIN EncodeUserToDev
      BY DEF EncodeUserToDev
    <3> QED BY <3>1 DEF ReadInv, Route, EncodeTable
  <2>2. EncodeTable(route.dir) = DecodeTable(route.dir)
    BY <2>1, Tables DEF ReadInv
  <2> QED BY <2>1, <2>2 DEF ReadInv, NameOf
<1> QED BY <1>1, ReadInvariant, PTL
-----------------------------------------------------------------------------
(* Payloads of any length. *)

LEMMA KeptBits ==
  ASSUME NEW value, NEW start \in Nat, NEW bits \in Nat, bits > 0, NEW n \in Nat
  PROVE  /\ start + bits <= 8 * n => Kept(value, start, bits, n) = value
         /\ start >= 8 * n => Kept(value, start, bits, n) = 0
BY DEF Kept

LEMMA FromRawZero ==
  ASSUME NEW f, IsField(f)
  PROVE  FromRaw(f, 0) = 0
<1>1. InFloat(4 * 0) = 0
  <2>1. 2^22 = 4194304
    OBVIOUS
  <2>2. Slack(0) = 0
    BY <2>1 DEF Slack, Magnitude
  <2> QED BY <2>2 DEF InFloat
<1> QED BY <1>1 DEF IsField, Kinds, FromRaw, ub_ppm_from_int8,
                    UB_PPM_INT8_INVALID, CountRead, ub_min_int

LEMMA CountIs ==
  ASSUME NEW fields, \A c, e \in CountIndex(fields) : c = e, NEW values, NEW all
  PROVE  /\ \A c \in CountIndex(fields) : CountOf(fields, values, all) = values[c]
         /\ CountIndex(fields) = {} => CountOf(fields, values, all) = all
<1>1. ASSUME NEW c \in CountIndex(fields)
      PROVE  CountOf(fields, values, all) = values[c]
  <2> DEFINE e == CHOOSE i \in DOMAIN fields : fields[i].kind = "count"
  <2>1. \E i \in DOMAIN fields : fields[i].kind = "count"
    BY DEF CountIndex
  <2>2. e \in CountIndex(fields)
    BY <2>1 DEF CountIndex
  <2>3. CountOf(fields, values, all) = values[e]
    BY <2>1 DEF CountOf
  <2> QED BY <2>2, <2>3
<1> QED BY <1>1 DEF CountOf, CountIndex

\* The bits of a struct: its head is within its bytes, element after element
\* follows.
ItemStart(s, k, i) == 8 * (HeadBytes(s) + (k - 1) * ItemBytes(s)) + s.itemAt[i]

LEMMA Places ==
  ASSUME NEW s, StructOK(s)
  PROVE  /\ \A i \in DOMAIN s.head :
              /\ s.headAt[i] \in Nat /\ IsField(s.head[i])
              /\ s.headAt[i] + s.head[i].bits <= 8 * HeadBytes(s)
         /\ HeadBytes(s) \in Nat /\ ItemBytes(s) \in Nat
         /\ \A i \in DOMAIN s.item :
              /\ s.itemAt[i] \in Nat /\ IsField(s.item[i])
              /\ s.itemAt[i] + s.item[i].bits <= 8 * ItemBytes(s)
         /\ \A c, i \in DOMAIN s.item :
              i > c => s.itemAt[c] + s.item[c].bits <= s.itemAt[i]
         /\ DOMAIN s.item \subseteq Nat
<1>1. /\ s.headAt = Starts(s.head) /\ s.itemAt = Starts(s.item)
      /\ AreFields(s.head) /\ AreFields(s.item)
      /\ 8 * ItemBytes(s) = ItemBits(s)
  BY DEF StructOK
<1> DEFINE m == Len(s.head)
           n == Len(s.item)
<1>2. /\ m \in Nat /\ \A i \in 1 .. m + 1 : s.headAt[i] \in Nat
      /\ \A i \in 1 .. m, j \in 1 .. m + 1 :
           i < j => s.headAt[i] + s.head[i].bits <= s.headAt[j]
  BY <1>1, StartsInOrder
<1>3. /\ n \in Nat /\ \A i \in 1 .. n + 1 : s.itemAt[i] \in Nat
      /\ \A i \in 1 .. n, j \in 1 .. n + 1 :
           i < j => s.itemAt[i] + s.item[i].bits <= s.itemAt[j]
  BY <1>1, StartsInOrder
<1>4. /\ DOMAIN s.head = 1 .. m /\ \A i \in 1 .. m : IsField(s.head[i])
      /\ DOMAIN s.item = 1 .. n /\ \A i \in 1 .. n : IsField(s.item[i])
  BY <1>1 DEF AreFields
<1>5. HeadBits(s) = s.headAt[m + 1] /\ ItemBits(s) = s.itemAt[n + 1]
  BY DEF HeadBits, ItemBits
<1> HIDE DEF m, n
<1>6. HeadBits(s) \in Nat /\ ItemBits(s) \in Nat
  BY <1>2, <1>3, <1>5
<1>7. HeadBytes(s) \in Nat /\ HeadBits(s) <= 8 * HeadBytes(s)
  BY <1>6 DEF HeadBytes
<1>8. ItemBytes(s) \in Nat
  BY <1>6 DEF ItemBytes
<1>9. ASSUME NEW i \in 1 .. m
      PROVE  s.headAt[i] \in Nat /\ s.headAt[i] + s.head[i].bits <= 8 * HeadBytes(s)
  <2>1. s.headAt[i] \in Nat /\ s.headAt[i] + s.head[i].bits <= HeadBits(s)
    BY <1>2, <1>5
  <2>2. s.head[i].bits \in Nat
    BY <1>4 DEF IsField
  <2> QED BY <1>6, <1>7, <2>1, <2>2
<1>10. ASSUME NEW i \in 1 .. n
       PROVE  s.itemAt[i] \in Nat /\ s.itemAt[i] + s.item[i].bits <= 8 * ItemBytes(s)
  BY <1>1, <1>3, <1>5
<1>11. \A c, i \in 1 .. n : i > c => s.itemAt[c] + s.item[c].bits <= s.itemAt[i]
  BY <1>3
<1>12. DOMAIN s.item \subseteq Nat
  BY <1>3, <1>4
<1>13. \A i \in DOMAIN s.head :
         /\ s.headAt[i] \in Nat /\ IsField(s.head[i])
         /\ s.headAt[i] + s.head[i].bits <= 8 * HeadBytes(s)
  BY <1>4, <1>9
<1>14. \A i \in DOMAIN s.item :
         /\ s.itemAt[i] \in Nat /\ IsField(s.item[i])
         /\ s.itemAt[i] + s.item[i].bits <= 8 * ItemBytes(s)
  BY <1>4, <1>10
<1>15. \A c, i \in DOMAIN s.item :
         i > c => s.itemAt[c] + s.item[c].bits <= s.itemAt[i]
  BY <1>4, <1>11
<1> QED BY <1>7, <1>8, <1>12, <1>13, <1>14, <1>15

\* Where the fields of the elements are.
LEMMA ItemPlaces ==
  ASSUME NEW s, StructOK(s), NEW k \in 1 .. s.max, NEW i \in DOMAIN s.item
  PROVE  /\ ItemStart(s, k, i) \in Nat
         /\ 8 * HeadBytes(s) <= ItemStart(s, k, i)
         /\ ItemStart(s, k, i) + s.item[i].bits
              <= 8 * (HeadBytes(s) + k * ItemBytes(s))
         /\ \A c \in DOMAIN s.item :
              i > c => ItemStart(s, k, c) + s.item[c].bits <= ItemStart(s, k, i)
<1> DEFINE h == HeadBytes(s)
           w == ItemBytes(s)
           j == k - 1
           a == s.itemAt[i]
           b == s.item[i].bits
<1>1. h \in Nat /\ w \in Nat /\ a \in Nat /\ b \in Nat /\ a + b <= 8 * w
  BY Places DEF IsField
<1>2. j \in Nat /\ k = j + 1
  BY DEF StructOK
<1>3. j * w \in Nat /\ (j + 1) * w = j * w + w
  <2>1. \A x, y \in Nat : x * y \in Nat /\ (x + 1) * y = x * y + y
    OBVIOUS
  <2> HIDE DEF j, w
  <2> QED BY <1>1, <1>2, <2>1
<1>4. ItemStart(s, k, i) = 8 * (h + j * w) + a
  BY DEF ItemStart
<1>5. ASSUME NEW c \in DOMAIN s.item, i > c
      PROVE  8 * (h + j * w) + s.itemAt[c] + s.item[c].bits <= 8 * (h + j * w) + a
  <2>1. s.itemAt[c] \in Nat /\ s.item[c].bits \in Nat
        /\ s.itemAt[c] + s.item[c].bits <= a
    BY <1>5, Places DEF IsField
  <2> DEFINE x == 8 * (h + j * w)
  <2>2. x \in Nat
    BY <1>1, <1>3
  <2> HIDE DEF x, a
  <2> QED BY <1>1, <2>1, <2>2
<1> DEFINE p == j * w
<1>6. p \in Nat /\ k * w = p + w
  BY <1>2, <1>3
<1> HIDE DEF h, w, j, a, b, p
<1>7. /\ 8 * (h + p) + a \in Nat /\ 8 * h <= 8 * (h + p) + a
      /\ 8 * (h + p) + a + b <= 8 * (h + (p + w))
  BY <1>1, <1>6
<1>8. ItemStart(s, k, i) = 8 * (h + p) + a
  BY <1>4 DEF p
<1>9. /\ ItemStart(s, k, i) \in Nat /\ 8 * h <= ItemStart(s, k, i)
      /\ ItemStart(s, k, i) + b <= 8 * (h + k * w)
  BY <1>6, <1>7, <1>8
<1>10. ASSUME NEW c \in DOMAIN s.item, i > c
       PROVE  ItemStart(s, k, c) + s.item[c].bits <= ItemStart(s, k, i)
  BY <1>5, <1>8, <1>10 DEF ItemStart, h, w, j, p
<1> QED BY <1>9, <1>10 DEF h, w, b

\* What a payload of n bytes leaves of a message.
LEMMA CopiedFields ==
  ASSUME NEW s, StructOK(s), NEW raw, NEW n \in Nat
  PROVE  LET c == Copied(s, raw, n)
         IN  /\ \A i \in DOMAIN s.head :
                  /\ s.headAt[i] + s.head[i].bits <= 8 * n => c.head[i] = raw.head[i]
                  /\ s.headAt[i] >= 8 * n => c.head[i] = 0
             /\ \A k \in 1 .. s.max, i \in DOMAIN s.item :
                  /\ ItemStart(s, k, i) + s.item[i].bits <= 8 * n =>
                       c.items[k][i] = raw.items[k][i]
                  /\ ItemStart(s, k, i) >= 8 * n => c.items[k][i] = 0
<1> DEFINE c == Copied(s, raw, n)
<1>1. ASSUME NEW i \in DOMAIN s.head
      PROVE  /\ s.headAt[i] + s.head[i].bits <= 8 * n => c.head[i] = raw.head[i]
             /\ s.headAt[i] >= 8 * n => c.head[i] = 0
  <2>1. s.headAt[i] \in Nat /\ s.head[i].bits \in Nat /\ s.head[i].bits > 0
    BY Places DEF IsField
  <2>2. c.head[i] = Kept(raw.head[i], s.headAt[i], s.head[i].bits, n)
    BY DEF Copied
  <2> QED BY <2>1, <2>2, KeptBits
<1>2. ASSUME NEW k \in 1 .. s.max, NEW i \in DOMAIN s.item
      PROVE  /\ ItemStart(s, k, i) + s.item[i].bits <= 8 * n =>
                  c.items[k][i] = raw.items[k][i]
             /\ ItemStart(s, k, i) >= 8 * n => c.items[k][i] = 0
  <2>1. ItemStart(s, k, i) \in Nat /\ s.item[i].bits \in Nat /\ s.item[i].bits > 0
    BY Places, ItemPlaces DEF IsField
  <2>2. c.items[k][i] = Kept(raw.items[k][i], ItemStart(s, k, i), s.item[i].bits, n)
    BY DEF Copied, ItemStart
  <2> QED BY <2>1, <2>2, KeptBits
<1> QED BY <1>1, <1>2

\* An element of which anything arrived has the counts that were sent.
LEMMA CopiedCounts ==
  ASSUME NEW s, StructOK(s), NEW raw, NEW n \in Nat,
         NEW k \in 1 .. s.max, NEW i \in DOMAIN s.item,
         ItemStart(s, k, i) + s.item[i].bits <= 8 * n
  PROVE  LET c == Copied(s, raw, n)
         IN  /\ Present(s, c.head) = Present(s, raw.head)
             /\ Live(s.item, c.items[k], i) <=> Live(s.item, raw.items[k], i)
<1> DEFINE c == Copied(s, raw, n)
<1>1. ASSUME NEW j \in DOMAIN s.head PROVE c.head[j] = raw.head[j]
  <2> DEFINE a == s.headAt[j] + s.head[j].bits
             h == 8 * HeadBytes(s)
             e == ItemStart(s, k, i)
             b == s.item[i].bits
  <2>1. a <= h /\ a \in Nat /\ h \in Nat
    BY Places DEF IsField
  <2>2. h <= e /\ e \in Nat /\ b \in Nat /\ e + b <= 8 * n
    BY ItemPlaces, Places DEF IsField
  <2>3. a <= 8 * n
    <3> HIDE DEF a, h, e, b
    <3> QED BY <2>1, <2>2
  <2> QED BY <2>3, CopiedFields
<1>2. ASSUME NEW d \in CountIndex(s.item), i > d
      PROVE  c.items[k][d] = raw.items[k][d]
  <2> DEFINE a == ItemStart(s, k, d) + s.item[d].bits
             e == ItemStart(s, k, i)
             b == s.item[i].bits
  <2>1. d \in DOMAIN s.item
    BY DEF CountIndex
  <2>2. a <= e /\ a \in Nat
    BY <1>2, <2>1, ItemPlaces, Places DEF IsField
  <2>3. e \in Nat /\ b \in Nat /\ e + b <= 8 * n
    BY ItemPlaces, Places DEF IsField
  <2>4. a <= 8 * n
    <3> HIDE DEF a, e, b
    <3> QED BY <2>2, <2>3
  <2> QED BY <2>1, <2>4, CopiedFields
<1> HIDE DEF c
<1>3. CountOf(s.head, c.head, s.max) = CountOf(s.head, raw.head, s.max)
  <2>1. CASE CountIndex(s.head) = {}
    BY <2>1, CountIs DEF StructOK
  <2>2. CASE CountIndex(s.head) # {}
    <3>1. PICK d \in CountIndex(s.head) : TRUE
      BY <2>2
    <3>2. c.head[d] = raw.head[d]
      BY <1>1, <3>1 DEF CountIndex
    <3> QED BY <3>1, <3>2, CountIs DEF StructOK
  <2> QED BY <2>1, <2>2
<1>4. Present(s, c.head) = Present(s, raw.head)
  BY <1>3 DEF Present
<1>5. Live(s.item, c.items[k], i) <=> Live(s.item, raw.items[k], i)
  BY <1>2 DEF Live
<1> QED BY <1>4, <1>5 DEF c

LEMMA DecodedFields ==
  ASSUME NEW s, NEW raw
  PROVE  /\ \A i \in DOMAIN s.head :
              Decoded(s, raw).head[i] = FromRaw(s.head[i], raw.head[i])
         /\ \A k \in 1 .. s.max, i \in DOMAIN s.item :
              Decoded(s, raw).items[k][i] =
                IF k <= Present(s, raw.head) /\ Live(s.item, raw.items[k], i)
                THEN FromRaw(s.item[i], raw.items[k][i])
                ELSE 0
BY DEF Decoded

(***************************************************************************)
(* Whatever arrives of a message, and whatever its fields held: what       *)
(* arrived whole reads as it was sent, what is missing reads as zero.      *)
(***************************************************************************)
THEOREM MissingReadsZero == BridgeSpec => []ShortReadsZero
<1>1. ASSUME ReadInv, stage = "known" PROVE ShortReadsZero
  <2> DEFINE s == ReadAs
             n == arrived
             c == Copied(s, wire, n)
  <2>1. StructOK(s) /\ n \in Nat /\ got = Decoded(s, c)
    BY <1>1, Structs DEF ReadInv, ReadAs
  <2> HIDE DEF s
  <2>2. ASSUME NEW i \in DOMAIN s.head
        PROVE  /\ s.headAt[i] + s.head[i].bits <= 8 * n =>
                    got.head[i] = FromRaw(s.head[i], wire.head[i])
               /\ s.headAt[i] >= 8 * n => got.head[i] = 0
    <3>1. got.head[i] = FromRaw(s.head[i], c.head[i])
      BY <2>1, DecodedFields
    <3>2. FromRaw(s.head[i], 0) = 0
      BY <2>1, Places, FromRawZero
    <3>3. /\ s.headAt[i] + s.head[i].bits <= 8 * n => c.head[i] = wire.head[i]
          /\ s.headAt[i] >= 8 * n => c.head[i] = 0
      BY <2>1, CopiedFields
    <3> QED BY <3>1, <3>2, <3>3
  <2>3. ASSUME NEW k \in 1 .. s.max, NEW i \in DOMAIN s.item
        PROVE  /\ /\ ItemStart(s, k, i) + s.item[i].bits <= 8 * n
                  /\ k <= Present(s, wire.head)
                  /\ Live(s.item, wire.items[k], i)
                  => got.items[k][i] = FromRaw(s.item[i], wire.items[k][i])
               /\ ItemStart(s, k, i) >= 8 * n => got.items[k][i] = 0
    <3>1. got.items[k][i] =
            IF k <= Present(s, c.head) /\ Live(s.item, c.items[k], i)
            THEN FromRaw(s.item[i], c.items[k][i])
            ELSE 0
      BY <2>1, DecodedFields
    <3>2. FromRaw(s.item[i], 0) = 0
      BY <2>1, Places, FromRawZero
    <3>3. /\ ItemStart(s, k, i) + s.item[i].bits <= 8 * n =>
                 c.items[k][i] = wire.items[k][i]
          /\ ItemStart(s, k, i) >= 8 * n => c.items[k][i] = 0
      BY <2>1, CopiedFields
    <3>4. ItemStart(s, k, i) + s.item[i].bits <= 8 * n =>
            /\ Present(s, c.head) = Present(s, wire.head)
            /\ Live(s.item, c.items[k], i) <=> Live(s.item, wire.items[k], i)
      BY <2>1, CopiedCounts
    <3> HIDE DEF c
    <3> QED BY <3>1, <3>2, <3>3, <3>4
  <2> QED BY <2>2, <2>3 DEF ShortReadsZero, ItemStart, s
<1>2. ReadInv => ShortReadsZero
  BY <1>1 DEF ShortReadsZero
<1> QED BY <1>2, ReadInvariant, PTL
-----------------------------------------------------------------------------
(* One field: what its bits can hold, and what it gives. *)

LEMMA Remainder ==
  ASSUME NEW x \in Int, NEW m \in Nat, m > 0
  PROVE  /\ x % m \in Nat /\ x % m < m
         /\ x >= 0 /\ x < m => x % m = x
OBVIOUS

LEMMA Quotient ==
  ASSUME NEW x \in Nat, NEW m \in Nat, m > 0
  PROVE  /\ x \div m \in Nat
         /\ (x \div m) * m <= x /\ x < (x \div m) * m + m
         /\ \A b \in Nat : x < m * b => x \div m < b
         /\ (x * m) \div m = x /\ x * m \in Nat
<1>1. /\ x \div m \in Nat
      /\ (x \div m) * m <= x /\ x < (x \div m) * m + m
  OBVIOUS
<1>2. ASSUME NEW b \in Nat, x < m * b PROVE x \div m < b
  BY <1>2
<1>3. (x * m) \div m = x /\ x * m \in Nat
  OBVIOUS
<1> QED BY <1>1, <1>2, <1>3

LEMMA RoundedNear ==
  ASSUME NEW v \in Int
  PROVE  /\ Rounded(v) \in Int /\ 4 * Rounded(v) - v <= 2 /\ v - 4 * Rounded(v) <= 2
         /\ v >= 0 => Rounded(v) >= 0 /\ 4 * Rounded(v) <= v + 2
         /\ \A r \in Int : v = 4 * r => Rounded(v) = r
BY DEF Rounded

\* A field of b bits.
LEMMA Width ==
  ASSUME NEW b \in Nat, b > 0
  PROVE  2^b \in Nat /\ 2^b > 0 /\ (b > 30 => 2^b > Int32Max)
<1> DEFINE one  == 1
           more == 31
           m    == 2^b
<1>1. one = 1 /\ 2^one = 2 /\ more = 31 /\ 2^more = Int32Max + 1
  BY SMT DEF Int32Max
<1> HIDE DEF one, more
<1>2. one \in 0 .. b /\ (b > 30 => more \in 0 .. b)
  BY <1>1
<1>3. m \in Nat /\ 2^one <= m /\ (b > 30 => 2^more <= m)
  BY <1>2, Power
<1> HIDE DEF m
<1>4. m > 0
  BY <1>1, <1>3
<1>5. b > 30 => m > Int32Max
  BY <1>1, <1>3, SMT DEF Int32Max
<1> QED BY <1>3, <1>4, <1>5 DEF m

\* A scaled field has at most 16.
LEMMA SmallPower ==
  ASSUME NEW b \in Nat, b <= 16
  PROVE  2^b <= 65536
<1> DEFINE most == 16
<1>1. most = 16 /\ 2^most = 65536
  OBVIOUS
<1> HIDE DEF most
<1>2. most \in Nat /\ b \in 0 .. most
  BY <1>1
<1>3. 2^b <= 2^most
  BY <1>2, Power
<1> QED BY <1>1, <1>3

LEMMA FitsIs ==
  ASSUME NEW b \in Nat, b > 0, NEW x \in Int
  PROVE  /\ Fits(x, b) <=> x >= 0 /\ x < 2^b
         /\ Unsigned(x, b) = x % 2^b
<1> DEFINE m == 2^b
<1>1. m \in Nat /\ m > 0 /\ (b > 30 => m > Int32Max) /\ Int32Max \in Nat
  BY Width, SMT DEF Int32Max
<1>2. Fits(x, b) <=> x >= 0 /\ ((b > 30 /\ x <= Int32Max) \/ x < m)
  BY DEF Fits
<1>3. Unsigned(x, b) = IF Fits(x, b) THEN x ELSE x % m
  BY DEF Unsigned
<1> HIDE DEF m
<1>4. Fits(x, b) <=> x >= 0 /\ x < m
  BY <1>1, <1>2
<1>5. Fits(x, b) => x % m = x
  BY <1>1, <1>4, Remainder
<1> QED BY <1>3, <1>4, <1>5 DEF m

\* What float makes of x; below 2^22 quarters it is x.
LEMMA FloatNear ==
  ASSUME NEW x \in Int
  PROVE  /\ InFloat(x) \in Int /\ Slack(x) \in Nat
         /\ InFloat(x) - x <= Slack(x) /\ x - InFloat(x) <= Slack(x)
         /\ Magnitude(x) \in Nat /\ x <= Magnitude(x) /\ -x <= Magnitude(x)
         /\ 4194304 * Slack(x) <= Magnitude(x)
         /\ Magnitude(x) < 4194304 * Slack(x) + 4194304
         /\ x > -4194304 /\ x < 4194304 => InFloat(x) = x
<1>1. /\ Magnitude(x) \in Nat /\ x <= Magnitude(x) /\ -x <= Magnitude(x)
      /\ x > -4194304 /\ x < 4194304 => Magnitude(x) < 4194304
  BY DEF Magnitude
<1> DEFINE m == Magnitude(x)
           n == Slack(x)
<1>2. n = m \div 4194304
  <2>1. 2^22 = 4194304
    OBVIOUS
  <2> QED BY <2>1 DEF Slack
<1> HIDE DEF m, n
<1>3. n \in Nat /\ 4194304 * n <= m /\ m < 4194304 * n + 4194304
  BY <1>1, <1>2 DEF m
<1>4. m < 4194304 => n = 0
  BY <1>1, <1>3 DEF m
<1>5. InFloat(x) = IF Error(x) \in -n .. n THEN x + Error(x) ELSE x
  BY DEF InFloat, n
<1>6. /\ InFloat(x) \in Int /\ InFloat(x) - x <= n /\ x - InFloat(x) <= n
      /\ n = 0 => InFloat(x) = x
  BY <1>3, <1>5
<1> QED BY <1>1, <1>3, <1>4, <1>6 DEF m, n

LEMMA DriftIs ==
  ASSUME NEW x \in Int
  PROVE  /\ Drift(x) \in Nat
         /\ 1048576 * Drift(x) <= Magnitude(x)
         /\ Magnitude(x) < 1048576 * Drift(x) + 1048576
<1>1. Magnitude(x) \in Nat
  BY DEF Magnitude
<1>2. Drift(x) = Magnitude(x) \div 1048576
  <2>1. 2^20 = 1048576
    OBVIOUS
  <2> QED BY <2>1 DEF Drift
<1> DEFINE m == Magnitude(x)
<1> HIDE DEF m
<1>3. Drift(x) = m \div 1048576 /\ m \in Nat
  BY <1>1, <1>2 DEF m
<1> QED BY <1>3 DEF m

LEMMA CastIs ==
  ASSUME NEW v \in Int
  PROVE  /\ ub_round_i32(v) \in Int
         /\ ub_round_i32(v) >= Int32Min /\ ub_round_i32(v) <= Int32Max
         /\ Rounded(v) >= Int32Min /\ Rounded(v) <= Int32Max =>
              ub_round_i32(v) = Rounded(v)
BY RoundedNear, SMT DEF ub_round_i32, Int32Min, Int32Max

\* intN_t fields are 16 or 32 bits wide.
LEMMA NarrowedFits ==
  ASSUME NEW x \in Int
  PROVE  /\ Narrowed(x, 32) = x
         /\ Narrowed(x, 16) \in Int
         /\ Narrowed(x, 16) >= -32768 /\ Narrowed(x, 16) <= 32767
         /\ x >= -32768 /\ x <= 32767 => Narrowed(x, 16) = x
<1>1. 2^16 = 65536 /\ 2^(16 - 1) = 32768
  OBVIOUS
<1>2. Narrowed(x, 16) = ((x + 32768) % 65536) - 32768
  BY <1>1 DEF Narrowed
<1> QED BY <1>2 DEF Narrowed

\* What to_raw stores fits the field.
LEMMA ToRawFits ==
  ASSUME NEW f, IsField(f), NEW v, HasType(f, v)
  PROVE  IsRaw(f, ToRaw(f, v))
<1> DEFINE b == f.bits
           a == f.arg
           r == ToRaw(f, v)
<1>1. b \in Nat /\ b > 0 /\ a \in Nat /\ v \in Int /\ f.kind \in Kinds
  BY DEF IsField, HasType
<1>2. CASE f.kind \in {"masked", "scaled", "ratio", "count"}
  <2> DEFINE m == 2^b
  <2>2. m \in Nat /\ m > 0
    BY <1>1, Width
  <2> HIDE DEF m
  <2>3. \E x \in Int : r = x % m
    <3>1. CASE f.kind = "masked"
      BY <1>1, <3>1, FitsIs DEF ToRaw, m
    <3>2. CASE f.kind = "scaled"
      <4> DEFINE x == ub_round_i32(InFloat(v))
      <4>1. x \in Int /\ r = Unsigned(x, b)
        BY <1>1, <3>2, FloatNear, CastIs DEF ToRaw
      <4> HIDE DEF x, r
      <4> QED BY <1>1, <4>1, FitsIs DEF m
    <3>3. CASE f.kind = "ratio"
      <4>1. a > 0 /\ v \in Nat
        BY <1>1, <3>3 DEF IsField, HasType
      <4>2. v \div a \in Int
        BY <1>1, <4>1, Quotient
      <4>3. r = (v \div a) % m
        BY <1>1, <3>3, <4>2, FitsIs DEF ToRaw, m
      <4> HIDE DEF r, a
      <4> QED BY <4>2, <4>3
    <3>4. CASE f.kind = "count"
      <4>1. ub_min_int(v, a) \in Int
        BY <1>1 DEF ub_min_int
      <4>2. r = ub_min_int(v, a) % m
        BY <1>1, <3>4, <4>1, FitsIs DEF ToRaw, m
      <4> HIDE DEF r, a
      <4> QED BY <4>1, <4>2
    <3> QED BY <1>2, <3>1, <3>2, <3>3, <3>4
  <2> HIDE DEF r
  <2>4. r \in Nat /\ r < m
    BY <2>2, <2>3, Remainder
  <2>5. Fits(r, b)
    BY <1>1, <2>4, FitsIs DEF m
  <2> QED BY <1>2, <2>4, <2>5 DEF IsRaw, r
<1>3. CASE f.kind = "flag"
  <2>1. b = 1 /\ r \in {0, 1}
    BY <1>3 DEF IsField, HasType, ToRaw
  <2>2. 2^b = 2
    BY <2>1
  <2> QED BY <1>3, <2>1, <2>2 DEF IsRaw, Fits
<1>4. CASE f.kind = "signed"
  <2> DEFINE x == ub_round_i32(InFloat(v))
  <2>1. /\ x \in Int /\ r = Narrowed(x, b)
        /\ x >= Int32Min /\ x <= Int32Max
    BY <1>1, <1>4, FloatNear, CastIs DEF ToRaw
  <2> HIDE DEF x
  <2>2. CASE b = 32
    BY <1>4, <2>1, <2>2, NarrowedFits DEF IsRaw
  <2>3. CASE b = 16
    <3>1. r \in Int /\ r >= -32768 /\ r <= 32767
      BY <2>1, <2>3, NarrowedFits
    <3>2. 2^(b - 1) = 32768
      BY <2>3
    <3> HIDE DEF r
    <3>3. r \in -(2^(b - 1)) .. 2^(b - 1) - 1
      BY <3>1, <3>2
    <3>4. b # 32
      BY <2>3
    <3> QED BY <1>4, <3>1, <3>3, <3>4 DEF IsRaw, r
  <2> QED BY <1>4, <2>2, <2>3 DEF IsField
<1>5. CASE f.kind = "ppm"
  <2> DEFINE x == Rounded(v)
  <2>1. x \in Int /\ 4 * x - v <= 2 /\ v - 4 * x <= 2
    BY <1>1, RoundedNear
  <2>2. r = IF v = NaN THEN -128 ELSE IF v <= -508 THEN -127
            ELSE IF v >= 508 THEN 127 ELSE x
    BY <1>5 DEF ToRaw, ub_ppm_to_int8, UB_PPM_INT8_INVALID
  <2> HIDE DEF x, r
  <2>3. r \in Int /\ r >= -128 /\ r <= 127
    BY <1>1, <2>1, <2>2
  <2> QED BY <1>5, <2>3 DEF IsRaw, r
<1>6. CASE f.kind = "plain"
  BY <1>1, <1>6 DEF ToRaw, IsRaw
<1>7. CASE f.kind = "hidden"
  BY <1>1, <1>7 DEF ToRaw, IsRaw, Default
<1> QED BY <1>1, <1>2, <1>3, <1>4, <1>5, <1>6, <1>7 DEF Kinds

LEMMA ZeroFits ==
  ASSUME NEW f, IsField(f)
  PROVE  IsRaw(f, 0)
<1> DEFINE b == f.bits
<1>1. CASE f.kind \in {"masked", "scaled", "ratio", "count"}
  <2>1. b \in Nat /\ b > 0
    BY <1>1 DEF IsField
  <2>2. 2^b \in Nat /\ 2^b > 0
    BY <2>1, Width
  <2>3. Fits(0, b)
    BY <2>1, <2>2, FitsIs
  <2> QED BY <1>1, <2>3 DEF IsRaw
<1>2. CASE f.kind = "flag"
  <2>1. b = 1
    BY <1>2 DEF IsField
  <2>2. 2^b = 2
    BY <2>1
  <2> QED BY <1>2, <2>2 DEF IsRaw, Fits
<1>3. CASE f.kind = "signed" /\ b # 32
  <2>1. b = 16
    BY <1>3 DEF IsField
  <2>2. 2^(b - 1) = 32768
    BY <2>1
  <2>3. 0 \in -(2^(b - 1)) .. 2^(b - 1) - 1
    BY <2>2
  <2> QED BY <1>3, <2>3 DEF IsRaw
<1>4. CASE f.kind \in {"plain", "hidden", "ppm"}
  BY <1>4 DEF IsRaw
<1>5. CASE f.kind = "signed" /\ b = 32
  <2>1. 0 >= Int32Min /\ 0 <= Int32Max
    BY SMT DEF Int32Min, Int32Max
  <2> QED BY <1>5, <2>1 DEF IsRaw
<1> QED BY <1>1, <1>2, <1>3, <1>4, <1>5 DEF IsField, Kinds

\* Small values come through float as they are.
LEMMA Small ==
  ASSUME NEW r \in Int, r >= -65536, r <= 65536
  PROVE  InFloat(4 * r) = 4 * r /\ ub_round_i32(InFloat(InFloat(4 * r))) = r
<1>1. 4 * r \in Int /\ 4 * r > -4194304 /\ 4 * r < 4194304
  OBVIOUS
<1>2. InFloat(4 * r) = 4 * r
  BY <1>1, FloatNear
<1>3. Rounded(4 * r) = r
  BY <1>1, RoundedNear
<1>4. ub_round_i32(4 * r) = r
  BY <1>1, <1>3, CastIs, SMT DEF Int32Min, Int32Max
<1> QED BY <1>2, <1>4

\* An int32_t, through float and back.
LEMMA ThereAndBack ==
  ASSUME NEW r \in Int, r >= -CastSafe, r <= CastSafe
  PROVE  Distance(ub_round_i32(InFloat(InFloat(4 * r))), r) <= Drift(r)
<1> DEFINE x == 4 * r
           g == InFloat(x)
           u == InFloat(g)
           b == Rounded(u)
           n == Slack(x)
           k == Slack(g)
<1>1. x \in Int /\ r >= -2147481599 /\ r <= 2147481599
  BY SMT DEF CastSafe, Int32Max
<1>2. /\ g \in Int /\ n \in Nat /\ g - x <= n /\ x - g <= n
      /\ 4194304 * n <= Magnitude(x) /\ Magnitude(x) < 4194304 * n + 4194304
      /\ x > -4194304 /\ x < 4194304 => g = x
  BY <1>1, FloatNear, SMT
<1>3. /\ u \in Int /\ k \in Nat /\ u - g <= k /\ g - u <= k
      /\ 4194304 * k <= Magnitude(g) /\ Magnitude(g) < 4194304 * k + 4194304
      /\ g > -4194304 /\ g < 4194304 => u = g
  BY <1>2, FloatNear, SMT
<1>4. /\ b \in Int /\ 4 * b - u <= 2 /\ u - 4 * b <= 2
      /\ u = 4 * r => b = r
  BY <1>1, <1>3, RoundedNear, SMT
<1>5. /\ Drift(r) \in Nat /\ 1048576 * Drift(r) <= Magnitude(r)
      /\ Magnitude(r) < 1048576 * Drift(r) + 1048576
  BY DriftIs
<1>6. Magnitude(x) = 4 * Magnitude(r) /\ Magnitude(r) \in Nat
  BY DEF Magnitude
<1> DEFINE d == Drift(r)
           m == Magnitude(r)
<1> HIDE DEF x, g, u, b, n, k, d, m
<1>7. d \in Nat /\ m \in Nat /\ n = d /\ m <= 2147481599
  <2>1. m <= 2147481599
    BY <1>1, SMT DEF m, Magnitude
  <2> QED BY <1>2, <1>5, <1>6, <2>1, SMT DEF d, m
<1>8. Magnitude(g) \in Nat /\ Magnitude(g) <= 4 * m + n
  BY <1>1, <1>2, <1>7, SMT DEF Magnitude, m, x
<1>9. d <= 2047 /\ k <= n + 1
  BY <1>2, <1>3, <1>5, <1>6, <1>7, <1>8, SMT DEF d, m
<1>10. b - r <= d /\ r - b <= d
  <2>1. CASE d = 0
    <3>1. m < 1048576
      BY <1>5, <2>1, SMT DEF d, m
    <3>2. x > -4194304 /\ x < 4194304
      BY <1>1, <3>1, SMT DEF m, Magnitude, x
    <3>3. u = 4 * r
      BY <1>2, <1>3, <3>2, SMT DEF x
    <3> QED BY <1>4, <2>1, <3>3, SMT
  <2>2. CASE d >= 1
    <3>1. 4 * b - x <= 2 * d + 3 /\ x - 4 * b <= 2 * d + 3
      BY <1>1, <1>2, <1>3, <1>4, <1>7, <1>9, SMT
    <3> QED BY <1>1, <1>4, <1>7, <2>2, <3>1, SMT DEF x
  <2> QED BY <1>7, <2>1, <2>2, SMT
<1>11. ub_round_i32(u) = b
  <2>1. b >= Int32Min /\ b <= Int32Max
    BY <1>1, <1>4, <1>7, <1>9, <1>10, SMT DEF Int32Min, Int32Max
  <2> QED BY <1>3, <2>1, CastIs, SMT DEF b
<1>12. Distance(b, r) <= d
  BY <1>1, <1>4, <1>7, <1>10, SMT DEF Distance
<1> QED BY <1>11, <1>12, SMT DEF b, u, g, x, d

\* What one write gives back of what was read of a device.
LEMMA WrittenBack ==
  ASSUME NEW f, IsField(f), NEW r, IsRaw(f, r)
  PROVE  Returned(f, r, ToRaw(f, FromRaw(f, r)))
<1> DEFINE b == f.bits
           a == f.arg
           w == ToRaw(f, FromRaw(f, r))
<1>1. b \in Nat /\ b > 0 /\ a \in Nat /\ r \in Int /\ f.kind \in Kinds
  BY DEF IsField, IsRaw
<1>2. CASE f.kind \in {"masked", "scaled", "ratio", "count"}
  <2> DEFINE m == 2^b
  <2>2. m \in Nat /\ m > 0
    BY <1>1, Width
  <2>3. Fits(r, b)
    BY <1>2 DEF IsRaw
  <2>4. r \in Nat /\ r < m
    BY <1>1, <2>3, FitsIs
  <2> HIDE DEF m
  <2>5. r % m = r
    BY <2>2, <2>4, Remainder
  <2>6. CASE f.kind = "masked"
    <3>1. w = r
      BY <1>1, <2>5, <2>6, FitsIs DEF ToRaw, FromRaw, m
    <3> QED BY <2>6, <3>1 DEF Returned, IsHidden
  <2>7. CASE f.kind = "scaled"
    <3>1. r < 65536
      <4>1. m <= 65536
        BY <1>1, <2>7, SmallPower DEF IsField, m
      <4> QED BY <2>2, <2>4, <4>1
    <3>2. ToRaw(f, FromRaw(f, r)) = Unsigned(r, b)
      BY <1>1, <2>4, <2>7, <3>1, Small DEF ToRaw, FromRaw
    <3>3. w = r
      BY <1>1, <2>5, <3>2, FitsIs DEF m
    <3> QED BY <2>7, <3>3 DEF Returned, IsHidden
  <2>8. CASE f.kind = "ratio"
    <3>1. a > 0
      BY <2>8 DEF IsField
    <3>2. (r * a) \div a = r
      BY <1>1, <2>4, <3>1, Quotient
    <3>3. w = Unsigned(r, b)
      BY <2>8, <3>2 DEF ToRaw, FromRaw
    <3>4. w = r
      BY <1>1, <2>5, <3>3, FitsIs DEF m
    <3> QED BY <2>8, <3>4 DEF Returned, IsHidden
  <2>9. CASE f.kind = "count"
    <3> DEFINE c == ub_min_int(r, a)
    <3>1. a < m
      BY <2>9 DEF IsField, m
    <3>2. c \in Nat /\ c < m /\ ub_min_int(c, a) = c
      BY <1>1, <2>4, <3>1 DEF ub_min_int
    <3>3. c % m = c
      BY <2>2, <3>2, Remainder
    <3>4. w = Unsigned(ub_min_int(c, a), b)
      BY <2>9 DEF ToRaw, FromRaw, CountRead
    <3> HIDE DEF c, w
    <3>5. w = c
      BY <1>1, <3>2, <3>3, <3>4, FitsIs DEF m
    <3> QED BY <2>9, <3>5 DEF Returned, IsHidden, c, w
  <2> QED BY <1>2, <2>6, <2>7, <2>8, <2>9
<1>3. CASE f.kind = "flag"
  <2>1. b = 1
    BY <1>3 DEF IsField
  <2>2. 2^b = 2
    BY <2>1
  <2>3. r \in {0, 1}
    BY <1>3, <2>1, <2>2 DEF IsRaw, Fits
  <2> QED BY <1>3, <2>3 DEF ToRaw, FromRaw, IsHidden, Returned
<1>4. CASE f.kind = "signed"
  <2>1. CASE b = 32
    <3>1. CASE Magnitude(r) <= CastSafe
      <4> DEFINE c == CastSafe
      <4>0. c \in Nat
        BY SMT DEF CastSafe, Int32Max
      <4> HIDE DEF c
      <4>1. r >= -c /\ r <= c
        BY <1>1, <3>1, <4>0 DEF Magnitude, c
      <4> USE DEF c
      <4>2. Distance(ub_round_i32(InFloat(InFloat(4 * r))), r) <= Drift(r)
        BY <1>1, <4>1, ThereAndBack
      <4>3. w = ub_round_i32(InFloat(InFloat(4 * r)))
        BY <1>4, <2>1 DEF ToRaw, FromRaw, Narrowed
      <4> QED BY <1>4, <2>1, <4>2, <4>3 DEF Returned, IsHidden
    <3>2. CASE ~(Magnitude(r) <= CastSafe)
      BY <1>4, <2>1, <3>2 DEF Returned, IsHidden
    <3> QED BY <3>1, <3>2
  <2>2. CASE b = 16
    <3>1. 2^(b - 1) = 32768
      BY <2>2
    <3>2. r >= -32768 /\ r <= 32767
      BY <1>1, <1>4, <2>2, <3>1 DEF IsRaw
    <3>3. w = Narrowed(r, 16)
      BY <1>1, <1>4, <2>2, <3>2, Small DEF ToRaw, FromRaw
    <3>4. w = r
      BY <1>1, <3>2, <3>3, NarrowedFits
    <3> QED BY <1>4, <2>2, <3>4 DEF Returned, IsHidden
  <2> QED BY <1>4, <2>1, <2>2 DEF IsField
<1>5. CASE f.kind = "ppm"
  <2>1. r >= -128 /\ r <= 127 /\ Rounded(4 * r) = r
    BY <1>1, <1>5, RoundedNear DEF IsRaw
  <2>2. ub_ppm_to_int8(ub_ppm_from_int8(r)) = r
    BY <1>1, <2>1 DEF ub_ppm_to_int8, ub_ppm_from_int8, UB_PPM_INT8_INVALID, NaN
  <2> QED BY <1>5, <2>2 DEF ToRaw, FromRaw, IsHidden, Returned
<1>6. CASE f.kind = "plain"
  BY <1>6 DEF ToRaw, FromRaw, IsHidden, Returned
<1>7. CASE f.kind = "hidden"
  BY <1>7 DEF ToRaw, IsHidden, Default, Returned
<1> QED BY <1>1, <1>2, <1>3, <1>4, <1>5, <1>6, <1>7 DEF Kinds

\* A quantity, through float, rounding, and float again.
LEMMA Across ==
  ASSUME NEW v \in Int
  PROVE  /\ Distance(InFloat(4 * Rounded(InFloat(v))), v) <= 2 + Drift(v)
         /\ 4 * Rounded(InFloat(v)) - v <= 2 + Slack(v)
         /\ v - 4 * Rounded(InFloat(v)) <= 2 + Slack(v)
<1> DEFINE u == InFloat(v)
           r == Rounded(u)
           x == 4 * r
           g == InFloat(x)
           n == Slack(v)
           k == Slack(x)
           m == Magnitude(v)
           d == Drift(v)
<1>1. /\ u \in Int /\ n \in Nat /\ u - v <= n /\ v - u <= n
      /\ m \in Nat /\ v <= m /\ -v <= m
      /\ 4194304 * n <= m /\ m < 4194304 * n + 4194304
  BY FloatNear
<1>2. r \in Int /\ 4 * r - u <= 2 /\ u - 4 * r <= 2
  BY <1>1, RoundedNear
<1>3. /\ g \in Int /\ k \in Nat /\ g - x <= k /\ x - g <= k
      /\ 4194304 * k <= Magnitude(x) /\ Magnitude(x) < 4194304 * k + 4194304
  BY <1>2, FloatNear
<1>4. /\ d \in Nat /\ 1048576 * d <= m /\ m < 1048576 * d + 1048576
  BY DriftIs
<1>5. x \in Int /\ x - v <= 2 + n /\ v - x <= 2 + n
  BY <1>1, <1>2
<1> HIDE DEF u, r, x, g, n, k, m, d
<1>6. Magnitude(x) <= m + 2 + n
  BY <1>1, <1>5 DEF Magnitude
<1>7. n + k <= d
  <2>1. CASE n = 0
    <3>1. Magnitude(x) \in Nat /\ Magnitude(x) <= m + 2 /\ m < 4194304
      BY <1>1, <1>5, <1>6, <2>1 DEF Magnitude
    <3>2. k <= 1
      BY <1>3, <3>1, <1>1
    <3>3. k = 1 => m >= 4194302
      BY <1>3, <3>1, <1>1
    <3>4. m >= 4194302 => d >= 1
      BY <1>1, <1>4
    <3> QED BY <1>3, <1>4, <2>1, <3>2, <3>3, <3>4
  <2>2. CASE n >= 1
    <3>1. k <= 2 * n + 1
      BY <1>1, <1>3, <1>5, <1>6, <2>2 DEF Magnitude
    <3>2. d >= 4 * n
      BY <1>1, <1>4
    <3> QED BY <1>1, <1>3, <1>4, <2>2, <3>1, <3>2
  <2> QED BY <1>1, <2>1, <2>2
<1>8. g - v <= 2 + d /\ v - g <= 2 + d
  BY <1>1, <1>3, <1>4, <1>5, <1>7
<1>9. Distance(g, v) <= 2 + d
  BY <1>1, <1>3, <1>4, <1>8 DEF Distance
<1> QED BY <1>5, <1>9 DEF g, x, r, u, d, n

\* What the other side sees of a value in range.
LEMMA SeenFaithfully ==
  ASSUME NEW f, IsField(f), NEW v, HasType(f, v), InRange(f, v)
  PROVE  Faithful(f, v, FromRaw(f, ToRaw(f, v)))
<1> DEFINE b == f.bits
           a == f.arg
           g == FromRaw(f, ToRaw(f, v))
<1>1. b \in Nat /\ b > 0 /\ a \in Nat /\ v \in Int /\ f.kind \in Kinds
  BY DEF IsField, HasType
<1>2. CASE f.kind \in {"masked", "scaled", "ratio", "count"}
  <2> DEFINE m == 2^b
  <2>2. m \in Nat /\ m > 0
    BY <1>1, Width
  <2> HIDE DEF m
  <2>3. CASE f.kind = "masked"
    <3>1. v >= 0 /\ v < m
      BY <1>1, <2>3, FitsIs DEF InRange, m
    <3>2. v % m = v
      BY <1>1, <2>2, <3>1, Remainder
    <3>3. g = v
      BY <1>1, <2>3, <3>2, FitsIs DEF ToRaw, FromRaw, m
    <3> QED BY <2>3, <3>3 DEF Faithful
  <2>4. CASE f.kind = "scaled"
    <3> DEFINE r == Rounded(v)
    <3>1. v >= 0 /\ v <= 4 * (m - 1) + 1
      BY <2>4 DEF InRange, m
    <3>2. /\ r \in Int /\ r >= 0 /\ 4 * r <= v + 2
          /\ 4 * r - v <= 2 /\ v - 4 * r <= 2
      BY <1>1, <3>1, RoundedNear
    <3>3. m <= 65536
      BY <1>1, <2>4, SmallPower DEF IsField, m
    <3>4. v < 4194304
      BY <1>1, <2>2, <3>1, <3>3
    <3>5. InFloat(v) = v
      BY <1>1, <3>1, <3>4, FloatNear
    <3>6. r < m
      <4> HIDE DEF r
      <4> QED BY <1>1, <2>2, <3>1, <3>2
    <3>7. ub_round_i32(v) = r
      <4>1. r >= Int32Min /\ r <= Int32Max
        <5> HIDE DEF r
        <5> QED BY <2>2, <3>2, <3>3, <3>6, SMT DEF Int32Min, Int32Max
      <4> QED BY <1>1, <4>1, CastIs
    <3> HIDE DEF r
    <3>8. r % m = r
      BY <2>2, <3>2, <3>6, Remainder
    <3>9. ToRaw(f, v) = r
      BY <1>1, <2>4, <3>2, <3>5, <3>7, <3>8, FitsIs DEF ToRaw, m
    <3>10. g = InFloat(4 * Rounded(InFloat(v)))
      BY <2>4, <3>5, <3>9 DEF FromRaw, r
    <3>11. Distance(g, v) <= 2 + Drift(v)
      BY <1>1, <3>10, Across
    <3> QED BY <2>4, <3>11 DEF Faithful
  <2>5. CASE f.kind = "ratio"
    <3> DEFINE r == v \div a
    <3>1. a > 0 /\ v \in Nat /\ v < a * m
      BY <1>1, <2>5 DEF IsField, HasType, InRange, m
    <3>2. r \in Nat /\ r * a <= v /\ v < r * a + a /\ r < m
      BY <1>1, <2>2, <3>1, Quotient
    <3> HIDE DEF r
    <3>3. r % m = r
      BY <2>2, <3>2, Remainder
    <3>4. g = r * a
      <4>1. ToRaw(f, v) = Unsigned(r, b)
        BY <2>5 DEF ToRaw, r
      <4>2. ToRaw(f, v) = r
        BY <1>1, <3>2, <3>3, <4>1, FitsIs DEF m
      <4> QED BY <2>5, <4>2 DEF FromRaw
    <3> QED BY <2>5, <3>2, <3>4 DEF Faithful
  <2>6. CASE f.kind = "count"
    <3> DEFINE c == ub_min_int(v, a)
    <3>1. a < m /\ v \in Nat
      BY <1>1, <2>6 DEF IsField, HasType, m
    <3>2. c \in Nat /\ c < m /\ ub_min_int(c, a) = c
      BY <1>1, <2>2, <3>1 DEF ub_min_int
    <3>3. c % m = c
      BY <2>2, <3>2, Remainder
    <3>4. g = ub_min_int(c % m, a)
      <4>1. ToRaw(f, v) = Unsigned(c, b)
        BY <2>6 DEF ToRaw
      <4>2. ToRaw(f, v) = c % m
        <5> HIDE DEF c
        <5> QED BY <1>1, <3>2, <4>1, FitsIs DEF m
      <4> QED BY <2>6, <4>2 DEF FromRaw, CountRead
    <3> HIDE DEF c, g
    <3>5. g = c
      BY <3>2, <3>3, <3>4
    <3> QED BY <2>6, <3>5 DEF Faithful, c, g
  <2> QED BY <1>2, <2>3, <2>4, <2>5, <2>6
<1>3. CASE f.kind = "flag"
  BY <1>3 DEF HasType, ToRaw, FromRaw, Faithful
<1>4. CASE f.kind = "signed"
  <2> DEFINE r == Rounded(InFloat(v))
  <2>1. /\ r \in Int /\ InFloat(v) \in Int
        /\ 4 * r - v <= 2 + Slack(v) /\ v - 4 * r <= 2 + Slack(v)
    BY <1>1, Across, FloatNear, RoundedNear
  <2>2. Distance(InFloat(4 * r), v) <= 2 + Drift(v)
    BY <1>1, Across
  <2>3. ub_round_i32(InFloat(v)) = r /\ Narrowed(r, b) = r
    <3>1. CASE b = 32
      <4>1. v >= -8589926400 /\ v <= 8589926400
        <5>1. Magnitude(v \div 4) <= CastSafe
          BY <1>4, <3>1 DEF InRange
        <5> QED BY <1>1, <5>1, SMT DEF Magnitude, CastSafe, Int32Max
      <4>2. Slack(v) \in Nat /\ Slack(v) <= 2048
        <5> DEFINE n == Slack(v)
                   m == Magnitude(v)
        <5>1. n \in Nat /\ m \in Nat /\ 4194304 * n <= m
          BY <1>1, FloatNear
        <5>2. m <= 8589926400
          BY <1>1, <4>1, SMT DEF Magnitude
        <5> HIDE DEF n, m
        <5>3. n <= 2048
          BY <5>1, <5>2, SMT
        <5> QED BY <5>1, <5>3 DEF n
      <4>3. r >= Int32Min /\ r <= Int32Max
        <5> HIDE DEF r
        <5> QED BY <1>1, <2>1, <4>1, <4>2, SMT DEF Int32Min, Int32Max
      <4> QED BY <2>1, <3>1, <4>3, CastIs, NarrowedFits
    <3>2. CASE b = 16
      <4>1. 2^(b - 1) = 32768
        BY <3>2
      <4>2. v >= -131072 /\ v <= 131069
        BY <1>1, <1>4, <3>2, <4>1 DEF InRange
      <4>3. Slack(v) = 0
        <5> DEFINE n == Slack(v)
                   m == Magnitude(v)
        <5>1. n \in Nat /\ m \in Nat /\ 4194304 * n <= m
          BY <1>1, FloatNear
        <5>2. m <= 131072
          BY <1>1, <4>2 DEF Magnitude
        <5> HIDE DEF n, m
        <5>3. n = 0
          BY <5>1, <5>2
        <5> QED BY <5>3 DEF n
      <4>4. r >= -32768 /\ r <= 32767
        <5> HIDE DEF r
        <5> QED BY <1>1, <2>1, <4>2, <4>3
      <4>5. ub_round_i32(InFloat(v)) = r
        <5>1. r >= Int32Min /\ r <= Int32Max
          <6> HIDE DEF r
          <6> QED BY <2>1, <4>4, SMT DEF Int32Min, Int32Max
        <5> QED BY <2>1, <5>1, CastIs
      <4> HIDE DEF r
      <4> QED BY <2>1, <3>2, <4>4, <4>5, NarrowedFits
    <3> QED BY <1>4, <3>1, <3>2 DEF IsField
  <2> HIDE DEF r
  <2>4. g = InFloat(4 * r)
    BY <1>4, <2>3 DEF ToRaw, FromRaw
  <2> QED BY <1>4, <2>2, <2>4 DEF Faithful
<1>5. CASE f.kind = "ppm"
  <2> DEFINE r == Rounded(v)
             p == ub_ppm_to_int8(v)
  <2>1. g = ub_ppm_from_int8(p)
    BY <1>5 DEF ToRaw, FromRaw
  <2>2. /\ r \in Int /\ 4 * r - v <= 2 /\ v - 4 * r <= 2
    BY <1>1, RoundedNear
  <2>3. CASE v = NaN
    <3>1. g = NaN
      BY <2>1, <2>3 DEF ub_ppm_to_int8, ub_ppm_from_int8
    <3> QED BY <1>5, <2>3, <3>1 DEF Faithful
  <2>4. CASE v # NaN
    <3> HIDE DEF r
    <3>1. /\ p \in Int /\ p >= -127 /\ p <= 127
          /\ \/ v <= -508 /\ p = -127
             \/ v >= 508 /\ p = 127
             \/ v > -508 /\ v < 508 /\ p = r
      BY <1>1, <2>2, <2>4 DEF ub_ppm_to_int8, r
    <3> HIDE DEF p
    <3>2. g = 4 * p /\ 4 * p # NaN
      BY <2>1, <3>1 DEF ub_ppm_from_int8, UB_PPM_INT8_INVALID, NaN
    <3>3. \/ Distance(4 * p, v) <= 2
          \/ v > 508 /\ 4 * p = 508
          \/ v < -508 /\ 4 * p = -508
      BY <1>1, <2>2, <3>1 DEF Distance
    <3> QED BY <1>5, <2>4, <3>2, <3>3 DEF Faithful
  <2> QED BY <2>3, <2>4
<1>6. CASE f.kind = "plain"
  BY <1>6 DEF ToRaw, FromRaw, Faithful
<1>7. CASE f.kind = "hidden"
  BY <1>7 DEF InRange, IsHidden
<1> QED BY <1>1, <1>2, <1>3, <1>4, <1>5, <1>6, <1>7 DEF Kinds
-----------------------------------------------------------------------------
(* One message: the elements two readings of it have. *)

LEMMA SamePresent ==
  ASSUME NEW s, StructOK(s), NEW a, NEW b,
         \A c \in CountIndex(s.head) : ub_min_int(a[c], s.max) = ub_min_int(b[c], s.max)
  PROVE  Present(s, a) = Present(s, b)
<1>1. CASE CountIndex(s.head) = {}
  BY <1>1, CountIs DEF StructOK, Present
<1>2. CASE CountIndex(s.head) # {}
  <2>1. PICK c \in CountIndex(s.head) : TRUE
    BY <1>2
  <2>2. /\ CountOf(s.head, a, s.max) = a[c]
        /\ CountOf(s.head, b, s.max) = b[c]
    BY <2>1, CountIs DEF StructOK
  <2> QED BY <2>1, <2>2 DEF Present
<1> QED BY <1>1, <1>2

LEMMA SameLive ==
  ASSUME NEW fields, NEW a, NEW b, NEW i,
         \A c \in CountIndex(fields) :
           i > c => ub_min_int(a[c], fields[c].arg) = ub_min_int(b[c], fields[c].arg)
  PROVE  Live(fields, a, i) <=> Live(fields, b, i)
BY DEF Live

LEMMA PresentInBounds ==
  ASSUME NEW s, StructOK(s), NEW h, \A c \in CountIndex(s.head) : h[c] \in Nat
  PROVE  Present(s, h) \in Nat /\ Present(s, h) <= s.max
<1>1. s.max \in Nat
  BY DEF StructOK
<1>2. CountOf(s.head, h, s.max) \in Nat
  <2>1. CASE CountIndex(s.head) = {}
    BY <1>1, <2>1, CountIs DEF StructOK
  <2>2. CASE CountIndex(s.head) # {}
    BY <2>2, CountIs DEF StructOK
  <2> QED BY <2>1, <2>2
<1> QED BY <1>1, <1>2 DEF Present, ub_min_int

\* A field counted by none, the count itself included, is live.
LEMMA CountLive ==
  ASSUME NEW s, StructOK(s), NEW c \in CountIndex(s.item), NEW values
  PROVE  Live(s.item, values, c)
<1>1. c \in Nat
  BY Places DEF CountIndex
<1>2. ASSUME NEW d \in CountIndex(s.item) PROVE ~(c > d)
  <2>1. c = d
    BY DEF StructOK
  <2> QED BY <1>1, <2>1
<1> QED BY <1>2 DEF Live

\* All elements present are within the size that is sent.
LEMMA PresentArrives ==
  ASSUME NEW s, StructOK(s), NEW h, \A c \in CountIndex(s.head) : h[c] \in Nat,
         NEW n \in Nat, n >= EncodedSize(s, h)
  PROVE  /\ 8 * HeadBytes(s) <= 8 * n
         /\ \A k \in 1 .. s.max, i \in DOMAIN s.item :
              k <= Present(s, h) => ItemStart(s, k, i) + s.item[i].bits <= 8 * n
<1> DEFINE p == Present(s, h)
           w == ItemBytes(s)
           b == HeadBytes(s)
<1>1. p \in Nat /\ w \in Nat /\ b \in Nat /\ n >= b + p * w
  BY PresentInBounds, Places DEF EncodedSize
<1>2. \A x, y, z \in Nat : x * z \in Nat /\ (x <= y => x * z <= y * z)
  OBVIOUS
<1>3. 8 * b <= 8 * n
  <2>1. p * w \in Nat
    BY <1>1, <1>2
  <2> HIDE DEF p, w, b
  <2> QED BY <1>1, <2>1
<1>4. ASSUME NEW k \in 1 .. s.max, NEW i \in DOMAIN s.item, k <= p
      PROVE  ItemStart(s, k, i) + s.item[i].bits <= 8 * n
  <2> DEFINE e == ItemStart(s, k, i) + s.item[i].bits
  <2>1. e \in Nat /\ e <= 8 * (b + k * w)
    BY ItemPlaces, Places DEF IsField
  <2>2. k \in Nat /\ k * w \in Nat /\ p * w \in Nat /\ k * w <= p * w
    <3>1. k \in Nat
      BY DEF StructOK
    <3> HIDE DEF p, w
    <3> QED BY <1>1, <1>2, <1>4, <3>1
  <2> HIDE DEF e, p, w, b
  <2>3. e <= 8 * n
    <3> DEFINE x == k * w
               y == p * w
    <3>1. x \in Nat /\ y \in Nat /\ x <= y /\ n >= b + y /\ e <= 8 * (b + x)
      BY <1>1, <2>1, <2>2
    <3> HIDE DEF x, y
    <3> QED BY <1>1, <2>1, <3>1
  <2> QED BY <2>3 DEF e
<1> QED BY <1>3, <1>4 DEF p, b

\* The counts of a message are numbers.
LEMMA RawCounts ==
  ASSUME NEW s, StructOK(s), NEW raw, RawBits(s, raw)
  PROVE  /\ \A c \in CountIndex(s.head) : raw.head[c] \in Nat
         /\ \A k \in 1 .. s.max, c \in CountIndex(s.item) : raw.items[k][c] \in Nat
<1>1. ASSUME NEW f, IsField(f), f.kind = "count", NEW r, IsRaw(f, r)
      PROVE  r \in Nat
  BY <1>1 DEF IsRaw, Fits
<1>2. ASSUME NEW c \in CountIndex(s.head) PROVE raw.head[c] \in Nat
  <2>1. c \in DOMAIN s.head /\ s.head[c].kind = "count"
    BY DEF CountIndex
  <2> QED BY <1>1, <2>1, Places DEF RawBits
<1>3. ASSUME NEW k \in 1 .. s.max, NEW c \in CountIndex(s.item)
      PROVE  raw.items[k][c] \in Nat
  <2>1. c \in DOMAIN s.item /\ s.item[c].kind = "count"
    BY DEF CountIndex
  <2> QED BY <1>1, <2>1, Places DEF RawBits
<1> QED BY <1>2, <1>3

\* Of a message that arrived whole, up to its last element, all fields are
\* read as they were sent.
LEMMA ArrivedWhole ==
  ASSUME NEW s, StructOK(s), NEW raw, RawBits(s, raw),
         NEW n \in Nat, n >= EncodedSize(s, raw.head)
  PROVE  LET d == Decoded(s, Copied(s, raw, n))
         IN  /\ \A i \in DOMAIN s.head : d.head[i] = FromRaw(s.head[i], raw.head[i])
             /\ \A k \in 1 .. s.max, i \in DOMAIN s.item :
                  d.items[k][i] =
                    IF k <= Present(s, raw.head) /\ Live(s.item, raw.items[k], i)
                    THEN FromRaw(s.item[i], raw.items[k][i])
                    ELSE 0
<1> DEFINE c == Copied(s, raw, n)
           d == Decoded(s, c)
<1>1. \A j \in CountIndex(s.head) : raw.head[j] \in Nat
  BY RawCounts
<1>2. /\ 8 * HeadBytes(s) <= 8 * n
      /\ \A k \in 1 .. s.max, i \in DOMAIN s.item :
           k <= Present(s, raw.head) => ItemStart(s, k, i) + s.item[i].bits <= 8 * n
  BY <1>1, PresentArrives
<1>3. ASSUME NEW i \in DOMAIN s.head PROVE c.head[i] = raw.head[i]
  <2> DEFINE a == s.headAt[i] + s.head[i].bits
             h == 8 * HeadBytes(s)
  <2>1. a \in Nat /\ h \in Nat /\ a <= h
    BY Places DEF IsField
  <2>2. a <= 8 * n
    <3> HIDE DEF a, h
    <3>1. h <= 8 * n
      BY <1>2 DEF h
    <3> QED BY <2>1, <3>1
  <2> QED BY <2>2, CopiedFields
<1> HIDE DEF c
<1>4. Present(s, c.head) = Present(s, raw.head)
  BY <1>3, SamePresent DEF CountIndex
<1>5. ASSUME NEW k \in 1 .. s.max, NEW i \in DOMAIN s.item
      PROVE  d.items[k][i] =
               IF k <= Present(s, raw.head) /\ Live(s.item, raw.items[k], i)
               THEN FromRaw(s.item[i], raw.items[k][i])
               ELSE 0
  <2>1. d.items[k][i] = IF k <= Present(s, c.head) /\ Live(s.item, c.items[k], i)
                        THEN FromRaw(s.item[i], c.items[k][i])
                        ELSE 0
    BY DecodedFields
  <2>2. CASE k <= Present(s, raw.head)
    <3>1. ItemStart(s, k, i) + s.item[i].bits <= 8 * n
      BY <1>2, <2>2
    <3>2. c.items[k][i] = raw.items[k][i]
      BY <3>1, CopiedFields DEF c
    <3>3. Live(s.item, c.items[k], i) <=> Live(s.item, raw.items[k], i)
      BY <3>1, CopiedCounts DEF c
    <3> HIDE DEF d
    <3> QED BY <1>4, <2>1, <3>2, <3>3
  <2>3. CASE ~(k <= Present(s, raw.head))
    BY <1>4, <2>1, <2>3
  <2> QED BY <2>2, <2>3
<1>6. \A i \in DOMAIN s.head : d.head[i] = FromRaw(s.head[i], raw.head[i])
  BY <1>3, DecodedFields
<1> QED BY <1>5, <1>6 DEF c

LEMMA EncodedFields ==
  ASSUME NEW s, NEW d
  PROVE  /\ \A i \in DOMAIN s.head : Encoded(s, d).head[i] = ToRaw(s.head[i], d.head[i])
         /\ \A k \in 1 .. s.max, i \in DOMAIN s.item :
              Encoded(s, d).items[k][i] =
                IF k <= Present(s, d.head) /\ Live(s.item, d.items[k], i)
                THEN ToRaw(s.item[i], d.items[k][i])
                ELSE 0
BY DEF Encoded

\* A count that is sent is the value it has on the other side.
LEMMA CountSent ==
  ASSUME NEW f, IsField(f), f.kind = "count", NEW v \in Nat
  PROVE  /\ ToRaw(f, v) = ub_min_int(v, f.arg)
         /\ ub_min_int(ToRaw(f, v), f.arg) = ub_min_int(v, f.arg)
         /\ ub_min_int(FromRaw(f, v), f.arg) = ub_min_int(v, f.arg)
<1> DEFINE m == 2^f.bits
           a == f.arg
           c == ub_min_int(v, a)
<1>1. m \in Nat /\ m > 0 /\ a \in Nat /\ a < m
  BY Width DEF IsField
<1> HIDE DEF m, a
<1>2. c \in Nat /\ c < m /\ ub_min_int(c, a) = c
  BY <1>1 DEF ub_min_int
<1>3. ToRaw(f, v) = c % m /\ FromRaw(f, v) = c
  <2>1. ToRaw(f, v) = Unsigned(c, f.bits) /\ FromRaw(f, v) = c
    BY DEF ToRaw, FromRaw, CountRead, a
  <2>2. f.bits \in Nat /\ f.bits > 0
    BY DEF IsField
  <2> HIDE DEF c
  <2> QED BY <1>2, <2>1, <2>2, FitsIs DEF m
<1>4. c % m = c
  <2> HIDE DEF c
  <2> QED BY <1>1, <1>2, Remainder
<1> QED BY <1>2, <1>3, <1>4 DEF a

\* The elements of a message that is sent are those of the struct.
LEMMA EncodedCounts ==
  ASSUME NEW s, StructOK(s), NEW d, Typed(s, d)
  PROVE  LET raw == Encoded(s, d)
         IN  /\ Present(s, raw.head) = Present(s, d.head)
             /\ \A k \in 1 .. s.max, i \in DOMAIN s.item :
                  k <= Present(s, d.head) =>
                    (Live(s.item, raw.items[k], i) <=> Live(s.item, d.items[k], i))
<1> DEFINE raw == Encoded(s, d)
<1>1. ASSUME NEW c \in CountIndex(s.head)
      PROVE  ub_min_int(raw.head[c], s.max) = ub_min_int(d.head[c], s.max)
  <2>1. c \in DOMAIN s.head /\ s.head[c].kind = "count" /\ s.head[c].arg = s.max
    BY DEF CountIndex, StructOK
  <2>2. IsField(s.head[c]) /\ HasType(s.head[c], d.head[c])
    BY <2>1, Places DEF Typed
  <2>3. d.head[c] \in Nat
    BY <2>1, <2>2 DEF HasType
  <2>4. raw.head[c] = ToRaw(s.head[c], d.head[c])
    BY <2>1, EncodedFields
  <2> QED BY <2>1, <2>2, <2>3, <2>4, CountSent
<1>2. ASSUME NEW k \in 1 .. s.max, NEW i \in DOMAIN s.item, k <= Present(s, d.head)
      PROVE  Live(s.item, raw.items[k], i) <=> Live(s.item, d.items[k], i)
  <2>1. ASSUME NEW c \in CountIndex(s.item)
        PROVE  ub_min_int(raw.items[k][c], s.item[c].arg)
                 = ub_min_int(d.items[k][c], s.item[c].arg)
    <3>1. c \in DOMAIN s.item /\ s.item[c].kind = "count"
      BY DEF CountIndex
    <3>2. IsField(s.item[c]) /\ HasType(s.item[c], d.items[k][c])
      BY <3>1, Places DEF Typed
    <3>3. d.items[k][c] \in Nat
      BY <3>1, <3>2 DEF HasType
    <3>4. raw.items[k][c] = ToRaw(s.item[c], d.items[k][c])
      BY <1>2, <3>1, CountLive, EncodedFields
    <3> QED BY <3>1, <3>2, <3>3, <3>4, CountSent
  <2> HIDE DEF raw
  <2> QED BY <2>1, SameLive
<1> HIDE DEF raw
<1>3. Present(s, raw.head) = Present(s, d.head)
  BY <1>1, SamePresent
<1> QED BY <1>2, <1>3 DEF raw

LEMMA EncodedFits ==
  ASSUME NEW s, StructOK(s), NEW d, Typed(s, d)
  PROVE  RawBits(s, Encoded(s, d))
<1> DEFINE raw == Encoded(s, d)
<1>1. ASSUME NEW i \in DOMAIN s.head PROVE IsRaw(s.head[i], raw.head[i])
  BY Places, ToRawFits, EncodedFields DEF Typed
<1>2. ASSUME NEW k \in 1 .. s.max, NEW i \in DOMAIN s.item
      PROVE  IsRaw(s.item[i], raw.items[k][i])
  <2>1. IsField(s.item[i]) /\ HasType(s.item[i], d.items[k][i])
    BY Places DEF Typed
  <2>2. IsRaw(s.item[i], ToRaw(s.item[i], d.items[k][i])) /\ IsRaw(s.item[i], 0)
    BY <2>1, ToRawFits, ZeroFits
  <2>3. \/ raw.items[k][i] = ToRaw(s.item[i], d.items[k][i])
        \/ raw.items[k][i] = 0
    BY EncodedFields
  <2> HIDE DEF raw
  <2> QED BY <2>2, <2>3
<1> QED BY <1>1, <1>2 DEF RawBits
-----------------------------------------------------------------------------
(* The codec alone, between any two programs. *)

CodecInv ==
  /\ stage \in {"idle", "sent", "refused", "unknown", "known", "written"}
  /\ stage = "idle" => data = <<>>
  /\ stage \in {"sent", "known", "written"} =>
       /\ route.dir \in Directions
       /\ route.sent = NameOf(route.dir, route.id) /\ route.sent \in DOMAIN Layout
       /\ RawBits(SentAs, wire)
       /\ size = EncodedSize(SentAs, wire.head)
       /\ data # <<>> => /\ Typed(SentAs, data)
                         /\ wire = Encoded(SentAs, data)
  /\ stage \in {"known", "written"} =>
       /\ route.read = route.sent
       /\ arrived \in Nat
       /\ got = Decoded(SentAs, Copied(SentAs, wire, arrived))
  /\ stage = "written" => back = Encoded(SentAs, got)

LEMMA ReadAsOK ==
  ASSUME CodecInv, stage \in {"known", "written"}
  PROVE  StructOK(ReadAs) /\ SentAs = ReadAs
BY Structs DEF CodecInv, SentAs, ReadAs

LEMMA EncodeKeeps ==
  ASSUME CodecInv, NEW dir \in Directions, NEW id, NEW hook, Encode(dir, id, hook)
  PROVE  CodecInv'
<1> DEFINE name == Looked(EncodeTable(dir), id, hook)
<1>1. route'.dir = dir /\ route'.id = id /\ route'.sent = name
  BY DEF Encode, Route
<1>2. CASE name = "Unknown"
  <2>1. stage' = "refused"
    BY <1>2 DEF Encode
  <2> QED BY <2>1 DEF CodecInv
<1>3. CASE name # "Unknown"
  <2>1. PICK d \in Data(name) :
          /\ stage' = "sent" /\ data' = d
          /\ wire' = Encoded(Layout[name], d)
          /\ size' = EncodedSize(Layout[name], d.head)
    BY <1>3 DEF Encode
  <2>2. name \in DOMAIN Layout /\ name = NameOf(dir, id)
    BY <1>3, LookedUp DEF NameOf
  <2> HIDE DEF name
  <2>3. SentAs' = Layout[name] /\ NameOf(route.dir, route.id)' = name
    BY <1>1, <2>2 DEF SentAs, NameOf
  <2> DEFINE s == Layout[name]
  <2>4. StructOK(s) /\ Typed(s, d)
    BY <2>1, <2>2, Structs, CodecAssumption
  <2> HIDE DEF s
  <2>5. RawBits(s, Encoded(s, d)) /\ Present(s, Encoded(s, d).head) = Present(s, d.head)
    BY <2>4, EncodedFits, EncodedCounts
  <2>6. EncodedSize(s, Encoded(s, d).head) = EncodedSize(s, d.head)
    BY <2>5 DEF EncodedSize
  <2>7. SentAs' = s
    BY <2>3 DEF s
  <2>8. wire' = Encoded(s, d) /\ size' = EncodedSize(s, d.head) /\ data' = d
    BY <2>1 DEF s
  <2> QED BY <1>1, <2>1, <2>2, <2>3, <2>4, <2>5, <2>6, <2>7, <2>8 DEF CodecInv
<1> QED BY <1>2, <1>3

LEMMA ReportKeeps ==
  ASSUME CodecInv, NEW id \in DOMAIN DecodeDevToUser, Report(id)
  PROVE  CodecInv'
<1> DEFINE dir  == "dev_to_user"
           name == DecodeDevToUser[id]
           s    == Layout[name]
<1>1. PICK raw \in Reports(name) :
        wire' = raw /\ size' = EncodedSize(s, raw.head)
  BY DEF Report
<1>2. /\ stage' = "sent" /\ data' = <<>>
      /\ route'.dir = dir /\ route'.id = id /\ route'.sent = name
  BY DEF Report, Route, CodecInv
<1>3. /\ dir \in Directions /\ DecodeTable(dir) = DecodeDevToUser
      /\ EncodeTable(dir) = DecodeDevToUser
  BY Tables DEF Directions, DecodeTable
<1>4. name = NameOf(dir, id) /\ name \in DOMAIN Layout
  <2>1. name = NameOf(dir, id)
    BY <1>3 DEF NameOf
  <2>2. EncodeTable(dir)[id] \in DOMAIN Layout
    <3> HIDE DEF dir
    <3> QED BY <1>3, Tables
  <2> QED BY <1>3, <2>1, <2>2
<1>5. SentAs' = s /\ NameOf(route.dir, route.id)' = name
  BY <1>2, <1>4 DEF SentAs, NameOf
<1>6. RawBits(s, raw)
  BY <1>4, CodecAssumption
<1> HIDE DEF s, name
<1> QED BY <1>1, <1>2, <1>3, <1>4, <1>5, <1>6 DEF CodecInv, s

LEMMA DecodeKeeps ==
  ASSUME CodecInv, NEW n \in Nat, NEW hook, Decode(n, hook)
  PROVE  CodecInv'
<1> DEFINE name == Looked(DecodeTable(route.dir), route.id, hook)
<1>1. /\ stage = "sent" /\ arrived' = n
      /\ UNCHANGED <<data, wire, size, back>>
      /\ route'.dir = route.dir /\ route'.id = route.id
      /\ route'.sent = route.sent /\ route'.read = name
  BY DEF Decode, Route
<1>2. /\ route.dir \in Directions /\ SentAs' = SentAs
      /\ NameOf(route.dir, route.id)' = NameOf(route.dir, route.id)
  BY <1>1 DEF CodecInv, SentAs, NameOf
<1>3. CASE name = "Unknown"
  <2>1. stage' = "unknown"
    BY <1>3 DEF Decode
  <2> QED BY <2>1 DEF CodecInv
<1>4. CASE name # "Unknown"
  <2>1. /\ stage' = "known"
        /\ got' = Decoded(Layout[name], Copied(Layout[name], wire, n))
    BY <1>4 DEF Decode
  <2>2. name = NameOf(route.dir, route.id)
    BY <1>2, <1>4, LookedUp DEF NameOf
  <2>3. name = route.sent /\ Layout[name] = SentAs
    BY <1>1, <2>2 DEF CodecInv, SentAs
  <2> HIDE DEF name
  <2> QED BY <1>1, <1>2, <2>1, <2>3 DEF CodecInv
<1> QED BY <1>3, <1>4

LEMMA WriteBackKeeps ==
  ASSUME CodecInv, WriteBack
  PROVE  CodecInv'
<1>1. /\ stage = "known" /\ stage' = "written"
      /\ UNCHANGED <<route, data, wire, size, arrived, got>>
  BY DEF WriteBack
<1>2. route' = route /\ SentAs' = SentAs
  BY <1>1 DEF SentAs
<1>3. back' = Encoded(SentAs, got)
  <2>1. back' = Encoded(Layout[route.read], got)
    BY DEF WriteBack
  <2>2. route.read = route.sent
    BY <1>1 DEF CodecInv
  <2> QED BY <2>1, <2>2 DEF SentAs
<1> QED BY <1>1, <1>2, <1>3 DEF CodecInv, NameOf

(***************************************************************************)
(* The codec's inductive invariant: what was sent is to_raw of a struct of *)
(* its message, or a firmware's report of as many bits; what is read is    *)
(* from_raw of it; what is written back is to_raw of that.                 *)
(***************************************************************************)
THEOREM CodecInvariant == Spec => []CodecInv
<1>1. Init => CodecInv
  BY DEF Init, CodecInv
<1>2. CodecInv /\ [Next]_codecVars => CodecInv'
  <2> SUFFICES ASSUME CodecInv, [Next]_codecVars PROVE CodecInv'
    OBVIOUS
  <2>1. CASE UNCHANGED codecVars
    BY <2>1 DEF CodecInv, codecVars, SentAs, NameOf
  <2>2. ASSUME NEW dir \in Directions, NEW hook, NEW id, Encode(dir, id, hook)
        PROVE  CodecInv'
    BY <2>2, EncodeKeeps
  <2>3. ASSUME NEW id \in DOMAIN DecodeDevToUser, Report(id) PROVE CodecInv'
    BY <2>3, ReportKeeps
  <2>4. ASSUME NEW n \in Nat, NEW hook, Decode(n, hook)
        PROVE  CodecInv'
    BY <2>4, DecodeKeeps
  <2>5. CASE WriteBack
    BY <2>5, WriteBackKeeps
  <2> QED BY <2>1, <2>2, <2>3, <2>4, <2>5 DEF Next
<1> QED BY <1>1, <1>2, PTL DEF Spec
-----------------------------------------------------------------------------
(***************************************************************************)
(* No count that is read exceeds what it counts, whatever a firmware or    *)
(* another version of the driver put on the wire, of whatever length.      *)
(***************************************************************************)
THEOREM CountsStayInBounds == Spec => []CountsInBounds
<1>1. ASSUME CodecInv, stage = "known" PROVE CountsInBounds
  <2> DEFINE s == ReadAs
             c == Copied(s, wire, arrived)
  <2>1. StructOK(s) /\ RawBits(s, wire) /\ arrived \in Nat /\ got = Decoded(s, c)
    BY <1>1, ReadAsOK DEF CodecInv
  <2> HIDE DEF s
  <2>2. ASSUME NEW v \in Nat, NEW start \in Nat, NEW bits \in Nat
        PROVE  Kept(v, start, bits, arrived) \in Int
    <3> DEFINE have == 8 * arrived - start
    <3>1. have \in Int
      BY <2>1
    <3>2. CASE have >= bits \/ have > 30
      BY <3>2 DEF Kept
    <3>3. CASE have <= 0
      BY <2>1, <3>3 DEF Kept
    <3>4. CASE ~(have >= bits) /\ ~(have > 30) /\ ~(have <= 0)
      <4>1. Kept(v, start, bits, arrived) = v % 2^have
        BY <3>4 DEF Kept
      <4> HIDE DEF have
      <4>2. have \in Nat /\ have > 0
        BY <3>1, <3>4
      <4>3. 2^have \in Nat /\ 2^have > 0
        BY <4>2, Width
      <4>4. v % 2^have \in Nat
        BY <4>3, Remainder
      <4> QED BY <4>1, <4>4
    <3> QED BY <3>2, <3>3, <3>4
  <2>3. \A f, r : f.kind = "count" /\ f.arg \in Nat /\ r \in Int =>
                    FromRaw(f, r) <= f.arg
    BY DEF FromRaw, CountRead, ub_min_int
  <2>4. ASSUME NEW i \in CountIndex(s.head) PROVE got.head[i] <= s.head[i].arg
    <3>1. i \in DOMAIN s.head /\ s.head[i].kind = "count" /\ wire.head[i] \in Nat
      BY <2>1, RawCounts DEF CountIndex
    <3>2. /\ s.headAt[i] \in Nat /\ s.head[i].bits \in Nat /\ s.head[i].arg \in Nat
      BY <2>1, <3>1, Places DEF IsField
    <3>3. c.head[i] = Kept(wire.head[i], s.headAt[i], s.head[i].bits, arrived)
      BY <3>1 DEF Copied
    <3>4. got.head[i] = FromRaw(s.head[i], c.head[i])
      BY <2>1, <3>1, DecodedFields
    <3> HIDE DEF c
    <3> QED BY <2>2, <2>3, <3>1, <3>2, <3>3, <3>4
  <2>5. ASSUME NEW k \in 1 .. s.max, NEW i \in CountIndex(s.item)
        PROVE  got.items[k][i] <= s.item[i].arg
    <3>1. i \in DOMAIN s.item /\ s.item[i].kind = "count" /\ wire.items[k][i] \in Nat
      BY <2>1, RawCounts DEF CountIndex
    <3>2. /\ ItemStart(s, k, i) \in Nat /\ s.item[i].bits \in Nat
          /\ s.item[i].arg \in Nat
      BY <2>1, <3>1, Places, ItemPlaces DEF IsField
    <3>3. c.items[k][i]
            = Kept(wire.items[k][i], ItemStart(s, k, i), s.item[i].bits, arrived)
      BY <3>1 DEF Copied, ItemStart
    <3>4. \/ got.items[k][i] = FromRaw(s.item[i], c.items[k][i])
          \/ got.items[k][i] = 0
      BY <2>1, <3>1, DecodedFields
    <3> HIDE DEF c
    <3>5. c.items[k][i] \in Int
      BY <2>2, <3>1, <3>2, <3>3
    <3> QED BY <2>3, <3>1, <3>2, <3>4, <3>5
  <2> QED BY <2>4, <2>5 DEF CountsInBounds, s
<1>2. CodecInv => CountsInBounds
  BY <1>1 DEF CountsInBounds
<1> QED BY <1>2, CodecInvariant, PTL

(***************************************************************************)
(* What a program sends and another receives whole, it receives faithfully *)
(* (Codec!RoundTrip), of every struct and for all values in range, within  *)
(* the error that float makes of 32-bit scaled fields, whatever it is.     *)
(***************************************************************************)
THEOREM ValuesArrive == Spec => []RoundTrip
<1>1. ASSUME CodecInv, stage = "known", data # <<>>, arrived >= size
      PROVE  RoundTrip
  <2> DEFINE s == ReadAs
             p == Present(s, data.head)
  <2>1. /\ StructOK(s) /\ SentAs = s /\ Typed(s, data) /\ wire = Encoded(s, data)
        /\ RawBits(s, wire) /\ arrived \in Nat
        /\ arrived >= EncodedSize(s, wire.head)
        /\ got = Decoded(s, Copied(s, wire, arrived))
    BY <1>1, ReadAsOK DEF CodecInv
  <2> HIDE DEF s
  <2>2. /\ \A i \in DOMAIN s.head : got.head[i] = FromRaw(s.head[i], wire.head[i])
        /\ \A k \in 1 .. s.max, i \in DOMAIN s.item :
             got.items[k][i] =
               IF k <= Present(s, wire.head) /\ Live(s.item, wire.items[k], i)
               THEN FromRaw(s.item[i], wire.items[k][i])
               ELSE 0
    BY <2>1, ArrivedWhole
  <2>3. /\ Present(s, wire.head) = p
        /\ \A k \in 1 .. s.max, i \in DOMAIN s.item :
             k <= p => (Live(s.item, wire.items[k], i) <=> Live(s.item, data.items[k], i))
    BY <2>1, EncodedCounts
  <2>4. ASSUME NEW i \in DOMAIN s.head, InRange(s.head[i], data.head[i])
        PROVE  Faithful(s.head[i], data.head[i], got.head[i])
    <3>1. wire.head[i] = ToRaw(s.head[i], data.head[i])
      BY <2>1, EncodedFields
    <3>2. IsField(s.head[i]) /\ HasType(s.head[i], data.head[i])
      BY <2>1, Places DEF Typed
    <3> QED BY <2>2, <2>4, <3>1, <3>2, SeenFaithfully
  <2>5. ASSUME NEW k \in 1 .. s.max, NEW i \in DOMAIN s.item,
               k <= p, Live(s.item, data.items[k], i),
               InRange(s.item[i], data.items[k][i])
        PROVE  Faithful(s.item[i], data.items[k][i], got.items[k][i])
    <3>1. wire.items[k][i] = ToRaw(s.item[i], data.items[k][i])
      BY <2>1, <2>5, EncodedFields
    <3>2. IsField(s.item[i]) /\ HasType(s.item[i], data.items[k][i])
      BY <2>1, Places DEF Typed
    <3>3. got.items[k][i] = FromRaw(s.item[i], wire.items[k][i])
      BY <2>2, <2>3, <2>5
    <3> QED BY <2>5, <3>1, <3>2, <3>3, SeenFaithfully
  <2>6. ASSUME NEW k \in 1 .. s.max, NEW i \in DOMAIN s.item,
               ~(k <= p /\ Live(s.item, data.items[k], i))
        PROVE  got.items[k][i] = 0
    BY <2>2, <2>3, <2>6
  <2>7. p = ub_min_int(CountOf(s.head, data.head, s.max), s.max)
    BY DEF Present
  <2> HIDE DEF p
  <2> QED BY <2>1, <2>4, <2>5, <2>6, <2>7 DEF RoundTrip
<1>2. CodecInv => RoundTrip
  BY <1>1 DEF RoundTrip
<1> QED BY <1>2, CodecInvariant, PTL

(***************************************************************************)
(* What was read of a device and is written back is what it reported       *)
(* (Codec!WriteBackExact), of every struct that can be written and for all *)
(* its wire values, whatever error float makes: bit for bit, but for a     *)
(* millionth of the 32-bit scaled fields and the fields that are reset.    *)
(***************************************************************************)
THEOREM WritesBackExactly == Spec => []WriteBackExact
<1>1. ASSUME CodecInv, stage = "written", arrived >= size
      PROVE  WriteBackExact
  <2> DEFINE s == ReadAs
             p == Present(s, wire.head)
  <2>1. /\ StructOK(s) /\ RawBits(s, wire) /\ arrived \in Nat
        /\ arrived >= EncodedSize(s, wire.head)
        /\ got = Decoded(s, Copied(s, wire, arrived))
        /\ back = Encoded(s, got)
    BY <1>1, ReadAsOK DEF CodecInv
  <2> HIDE DEF s
  <2>2. /\ \A i \in DOMAIN s.head : got.head[i] = FromRaw(s.head[i], wire.head[i])
        /\ \A k \in 1 .. s.max, i \in DOMAIN s.item :
             got.items[k][i] =
               IF k <= p /\ Live(s.item, wire.items[k], i)
               THEN FromRaw(s.item[i], wire.items[k][i])
               ELSE 0
    BY <2>1, ArrivedWhole
  <2>3. p \in Nat /\ p <= s.max
    BY <2>1, RawCounts, PresentInBounds
  <2>4. Present(s, got.head) = p
    <3>1. ASSUME NEW c \in CountIndex(s.head)
          PROVE  ub_min_int(got.head[c], s.max) = ub_min_int(wire.head[c], s.max)
      <4>1. /\ c \in DOMAIN s.head /\ s.head[c].kind = "count"
            /\ s.head[c].arg = s.max /\ wire.head[c] \in Nat
        BY <2>1, RawCounts DEF CountIndex, StructOK
      <4>2. IsField(s.head[c]) /\ got.head[c] = FromRaw(s.head[c], wire.head[c])
        BY <2>1, <2>2, <4>1, Places
      <4> QED BY <4>1, <4>2, CountSent
    <3> QED BY <2>1, <3>1, SamePresent
  <2>5. ASSUME NEW i \in DOMAIN s.head PROVE Returned(s.head[i], wire.head[i], back.head[i])
    <3>1. back.head[i] = ToRaw(s.head[i], FromRaw(s.head[i], wire.head[i]))
      BY <2>1, <2>2, EncodedFields
    <3>2. IsField(s.head[i]) /\ IsRaw(s.head[i], wire.head[i])
      BY <2>1, Places DEF RawBits
    <3> QED BY <3>1, <3>2, WrittenBack
  <2>6. ASSUME NEW k \in 1 .. p, NEW i \in DOMAIN s.item, Live(s.item, wire.items[k], i)
        PROVE  Returned(s.item[i], wire.items[k][i], back.items[k][i])
    <3>1. k \in 1 .. s.max /\ k <= p
      <4>1. s.max \in Nat
        BY <2>1 DEF StructOK
      <4> HIDE DEF p
      <4> QED BY <2>3, <4>1
    <3>2. ASSUME NEW c \in CountIndex(s.item)
          PROVE  ub_min_int(got.items[k][c], s.item[c].arg)
                   = ub_min_int(wire.items[k][c], s.item[c].arg)
      <4>1. /\ c \in DOMAIN s.item /\ s.item[c].kind = "count"
            /\ wire.items[k][c] \in Nat
        BY <2>1, <3>1, RawCounts DEF CountIndex
      <4>2. Live(s.item, wire.items[k], c)
        BY <2>1, CountLive
      <4>3. IsField(s.item[c]) /\ got.items[k][c] = FromRaw(s.item[c], wire.items[k][c])
        BY <2>1, <2>2, <3>1, <4>1, <4>2, Places
      <4> QED BY <4>1, <4>3, CountSent
    <3>3. Live(s.item, got.items[k], i)
      BY <2>6, <3>2, SameLive
    <3>4. got.items[k][i] = FromRaw(s.item[i], wire.items[k][i])
      BY <2>2, <2>6, <3>1
    <3>5. back.items[k][i] = ToRaw(s.item[i], got.items[k][i])
      BY <2>1, <2>4, <3>1, <3>3, EncodedFields
    <3>6. IsField(s.item[i]) /\ IsRaw(s.item[i], wire.items[k][i])
      BY <2>1, <3>1, Places DEF RawBits
    <3> QED BY <3>4, <3>5, <3>6, WrittenBack
  <2> QED BY <2>5, <2>6 DEF WriteBackExact, s
<1>2. CodecInv => WriteBackExact
  BY <1>1 DEF WriteBackExact
<1> QED BY <1>2, CodecInvariant, PTL
==============================================================================
