--------------------------- MODULE InductionFacts ---------------------------
(***************************************************************************)
(* Induction over the naturals in the form the proofs of the project use:  *)
(* on a set.  It stands for the induction rule wherever a recursive        *)
(* function is shown to exist or to have a property.                       *)
(***************************************************************************)
EXTENDS Integers, WellFoundedInduction, TLAPS

\* Least-number principle, for sets.
LEMMA LeastNat ==
  ASSUME NEW T, T \subseteq Nat, T # {}
  PROVE  \E x \in T : \A y \in T : x <= y
<1>1. IsWellFoundedOn({ss \in Nat \X Nat : ss[1] < ss[2]}, Nat)
  BY NatLessThanWellFounded DEF OpToRel
<1>2. PICK x \in T :
        \A y \in T : ~(<<y, x>> \in {ss \in Nat \X Nat : ss[1] < ss[2]})
  BY <1>1, WFMin
<1>3. ASSUME NEW y \in T PROVE x <= y
  <2>1. x \in Nat /\ y \in Nat
    OBVIOUS
  <2>2. ~(y < x)
    BY <1>2, <2>1
  <2> QED BY <2>1, <2>2
<1> QED BY <1>3

\* Induction over the naturals, for sets.
LEMMA SetInduction ==
  ASSUME NEW T, T \subseteq Nat, 0 \in T, \A n \in T : n + 1 \in T
  PROVE  T = Nat
<1> SUFFICES ASSUME T # Nat PROVE FALSE
  OBVIOUS
<1>1. Nat \ T \subseteq Nat /\ Nat \ T # {}
  OBVIOUS
<1>2. PICK x \in Nat \ T : \A y \in Nat \ T : x <= y
  BY <1>1, LeastNat
<1>3. x # 0
  OBVIOUS
<1>4. x - 1 \in T
  BY <1>2, <1>3
<1>5. x - 1 + 1 \in T
  BY <1>4
<1> QED BY <1>2, <1>5

\* f is defined from base at a and from its value one before elsewhere.
Follows(f, a, b, base, next) ==
  \A k \in a .. b : f[k] = IF k = a THEN base ELSE next[<<f[k - 1], k>>]

\* Such a function is there, with its values where the steps lead.
LEMMA FiniteRecursion ==
  ASSUME NEW V, NEW base \in V, NEW a \in Int, NEW b \in Int, a <= b,
         NEW next \in [V \X (a + 1 .. b) -> V]
  PROVE  \E f \in [a .. b -> V] : Follows(f, a, b, base, next)
<1> DEFINE Step(f, k) == IF k = a THEN base ELSE next[<<f[k - 1], k>>]
           Is(f, c) == f \in [a .. c -> V] /\ \A k \in a .. c : f[k] = Step(f, k)
           T == {m \in Nat : a + m <= b => \E f : Is(f, a + m)}
<1>1. 0 \in T
  <2> DEFINE f == [k \in a .. a |-> base]
  <2>1. Is(f, a)
    OBVIOUS
  <2> HIDE DEF Is, f
  <2>2. \E g : Is(g, a + 0)
    BY <2>1
  <2> QED BY <2>2
<1>2. ASSUME NEW m \in T PROVE m + 1 \in T
  <2> SUFFICES ASSUME a + (m + 1) <= b PROVE \E f : Is(f, a + (m + 1))
    OBVIOUS
  <2> DEFINE c == a + m
  <2>1. c \in Int /\ a <= c /\ c + 1 = a + (m + 1) /\ c + 1 \in a + 1 .. b
    OBVIOUS
  <2>2. PICK f : Is(f, c)
    OBVIOUS
  <2> HIDE DEF c
  <2> DEFINE g == [k \in a .. c + 1 |-> IF k <= c THEN f[k] ELSE next[<<f[c], k>>]]
  <2>3. next[<<f[c], c + 1>>] \in V
    BY <2>1, <2>2
  <2>4. g \in [a .. c + 1 -> V]
    <3>1. ASSUME NEW k \in a .. c + 1
          PROVE  (IF k <= c THEN f[k] ELSE next[<<f[c], k>>]) \in V
      <4>1. CASE k <= c
        BY <2>1, <2>2, <4>1
      <4>2. CASE k = c + 1
        BY <2>1, <2>3, <4>2
      <4> QED BY <2>1, <4>1, <4>2
    <3> QED BY <3>1
  <2>5. ASSUME NEW k \in a .. c + 1 PROVE g[k] = Step(g, k)
    <3>1. CASE k = a
      <4>1. a \in a .. c /\ g[a] = f[a]
        BY <2>1
      <4>2. f[a] = base
        BY <2>2, <4>1
      <4> QED BY <3>1, <4>1, <4>2
    <3>2. CASE k # a /\ k <= c
      <4>1. k \in a .. c /\ k - 1 \in a .. c
        BY <2>1, <3>2
      <4>2. g[k] = f[k] /\ g[k - 1] = f[k - 1]
        BY <2>1, <3>2, <4>1
      <4>3. f[k] = next[<<f[k - 1], k>>]
        BY <2>2, <3>2, <4>1
      <4> QED BY <3>2, <4>2, <4>3
    <3>3. CASE k = c + 1
      <4>1. k # a /\ k - 1 = c /\ g[k] = next[<<f[c], k>>] /\ g[c] = f[c]
        BY <2>1, <3>3
      <4> QED BY <4>1
    <3> QED BY <2>1, <3>1, <3>2, <3>3
  <2>6. Is(g, c + 1)
    BY <2>4, <2>5
  <2> HIDE DEF Is, g
  <2> QED BY <2>1, <2>6
<1>3. b - a \in T
  <2> HIDE DEF T
  <2>1. T \subseteq Nat
    BY DEF T
  <2>2. b - a \in Nat
    OBVIOUS
  <2>3. T = Nat
    BY <1>1, <1>2, <2>1, SetInduction
  <2> QED BY <2>2, <2>3
<1>4. a + (b - a) = b
  OBVIOUS
<1>5. PICK f : Is(f, b)
  BY <1>3, <1>4
<1> QED BY <1>5 DEF Follows
==============================================================================
