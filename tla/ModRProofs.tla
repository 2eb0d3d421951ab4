----------------------------- MODULE ModRProofs -----------------------------
(***************************************************************************)
(* reduce_be_bytes_mod_r returns the remainder, for any base, any number   *)
(* of limbs and any modulus whose first limb is not zero: 2^64, four and   *)
(* the order of the scalar field of BN254 among them.                      *)
(*                                                                         *)
(* Induction over the limbs is by a lemma about sets of numbers.           *)
(***************************************************************************)
EXTENDS ModR, WellFoundedInduction, TLAPS

\* Induction from m to n, for a set of numbers.
LEMMA IntervalInduction ==
  ASSUME NEW m \in Nat, NEW n \in Nat, NEW Good,
         m \in Good, \A k \in (m + 1)..n : k - 1 \in Good => k \in Good
  PROVE  \A k \in m..n : k \in Good
<1> DEFINE Bad == {k \in m..n : k \notin Good}
<1> SUFFICES ASSUME Bad # {} PROVE FALSE
  OBVIOUS
<1>1. PICK k \in Bad : \A l \in Bad : <<l, k>> \notin OpToRel(<, Nat)
  <2>1. Bad \subseteq Nat
    OBVIOUS
  <2> HIDE DEF Bad
  <2> QED
    BY <2>1, NatLessThanWellFounded, WFMin, Zenon
<1>2. k \in (m + 1)..n /\ k \notin Good
  OBVIOUS
<1>3. <<k - 1, k>> \in OpToRel(<, Nat)
  BY <1>2 DEF OpToRel
<1>4. k - 1 \in m..n
  BY <1>2
<1>5. k - 1 \notin Bad
  <2> HIDE DEF Bad
  <2> QED
    BY <1>1, <1>3
<1> QED
  BY <1>2, <1>4, <1>5

\* One limb does not make up for a difference in those before it.
LEMMA OneLimb ==
  ASSUME NEW b \in Nat, NEW x \in Int, NEW y \in Int, x < y,
         NEW c \in 0..(b - 1), NEW d \in 0..(b - 1)
  PROVE  x * b + c < y * b + d
<1>1. x + 1 <= y
  OBVIOUS
<1> QED
  BY <1>1

LEMMA Sizes == Base \in Nat /\ Base > 1 /\ Limbs \in Nat /\ Limbs > 0
  BY ModRConstants

USE Sizes

LEMMA LimbType ==
  ASSUME NEW n \in Number, NEW k \in 1..Limbs
  PROVE  n[k] \in 0..(Base - 1) /\ n[k] \in Int
  BY DEF Number, Limb

LEMMA SameNumber ==
  ASSUME NEW n \in Number, NEW m \in Number, \A k \in 1..Limbs : n[k] = m[k]
  PROVE  n = m
  BY DEF Number

-----------------------------------------------------------------------------
(* Horner's scheme.                                                         *)

\* The recursive definition defines a function.
LEMMA HornerDefined ==
  ASSUME NEW x \in Int, NEW j \in 0..Limbs, NEW n \in Number
  PROVE  Horner(x, j, n) =
           [k \in 0..Limbs |-> IF k <= j THEN x
                               ELSE Horner(x, j, n)[k - 1] * Base + n[k]]
<1> DEFINE Is(g, m) ==
             \A k \in 0..m :
               g[k] = IF k <= j THEN x ELSE g[k - 1] * Base + n[k]
           Good == {m \in 0..Limbs : \E g : Is(g, m)}
<1> HIDE DEF Is
<1>1. 0 \in Good
  <2> DEFINE h == [k \in {0} |-> x]
  <2>1. Is(h, 0)
    BY DEF Is
  <2> HIDE DEF h
  <2> QED
    BY <2>1
<1>2. ASSUME NEW m \in 1..Limbs, m - 1 \in Good
      PROVE  m \in Good
  <2>1. PICK g : Is(g, m - 1)
    BY <1>2
  <2> DEFINE h == [k \in 0..m |-> IF k < m THEN g[k]
                     ELSE IF m <= j THEN x ELSE g[m - 1] * Base + n[m]]
  <2>2. Is(h, m)
    <3> SUFFICES ASSUME NEW k \in 0..m
                 PROVE  h[k] = IF k <= j THEN x ELSE h[k - 1] * Base + n[k]
      BY DEF Is
    <3>1. CASE k < m
      <4>1. k \in 0..(m - 1) /\ h[k] = g[k]
        BY <3>1
      <4>2. k > j => k - 1 \in 0..m /\ h[k - 1] = g[k - 1]
        BY <3>1
      <4> QED
        BY <4>1, <4>2, <2>1 DEF Is
    <3>2. CASE k = m
      BY <3>2
    <3> QED
      BY <3>1, <3>2
  <2> HIDE DEF h
  <2> QED
    BY <2>2
<1>3. PICK g : Is(g, Limbs)
  <2>1. Limbs \in 0..Limbs /\ Limbs \in Nat /\ 0 \in Nat
    OBVIOUS
  <2> HIDE DEF Good
  <2>2. Limbs \in Good
    BY <1>1, <1>2, <2>1, IntervalInduction
  <2> QED
    BY <2>2 DEF Good
<1> DEFINE f == [k \in 0..Limbs |-> g[k]]
<1>4. f = [k \in 0..Limbs |-> IF k <= j THEN x ELSE f[k - 1] * Base + n[k]]
  <2>1. \A k \in 0..Limbs : f[k] = IF k <= j THEN x ELSE f[k - 1] * Base + n[k]
    BY <1>3 DEF Is
  <2> QED
    BY <2>1
<1> HIDE DEF f
<1>5. \E H : H = [k \in 0..Limbs |-> IF k <= j THEN x ELSE H[k - 1] * Base + n[k]]
  BY <1>4
<1> QED
  BY <1>5, Zenon DEF Horner

\* The scheme starts with x, and appends a limb at a time.
LEMMA HornerStep ==
  ASSUME NEW x \in Int, NEW j \in 0..Limbs, NEW n \in Number, NEW k \in 0..Limbs
  PROVE  Horner(x, j, n)[k] = IF k <= j THEN x
                              ELSE Horner(x, j, n)[k - 1] * Base + n[k]
<1> DEFINE H == Horner(x, j, n)
<1>1. H = [l \in 0..Limbs |-> IF l <= j THEN x ELSE H[l - 1] * Base + n[l]]
  BY HornerDefined
<1> HIDE DEF H
<1>2. H[k] = IF k <= j THEN x ELSE H[k - 1] * Base + n[k]
  BY <1>1
<1> QED
  BY <1>2 DEF H

\* It makes integers, of the same sign as x.
LEMMA HornerType ==
  ASSUME NEW x \in Int, NEW j \in 0..Limbs, NEW n \in Number
  PROVE  \A k \in 0..Limbs : /\ Horner(x, j, n)[k] \in Int
                             /\ x >= 0 => Horner(x, j, n)[k] >= 0
                             /\ x < 0 => Horner(x, j, n)[k] < 0
<1> DEFINE H == Horner(x, j, n)
           Is(k) == /\ H[k] \in Int
                    /\ x >= 0 => H[k] >= 0
                    /\ x < 0 => H[k] < 0
           Good == {k \in 0..Limbs : Is(k)}
<1>1. \A k \in 0..Limbs : H[k] = IF k <= j THEN x ELSE H[k - 1] * Base + n[k]
  BY HornerStep
<1> HIDE DEF H
<1>2. 0 \in Good
  BY <1>1
<1>3. ASSUME NEW y \in Int, NEW d \in 0..(Base - 1)
      PROVE  /\ y * Base + d \in Int
             /\ y >= 0 => y * Base + d >= 0
             /\ y < 0 => y * Base + d < 0
  <2>1. y * Base \in Int /\ (y >= 0 => y * Base >= 0) /\ (y < 0 => y * Base <= -Base)
    OBVIOUS
  <2> QED
    BY <2>1
<1>4. ASSUME NEW k \in 1..Limbs, k - 1 \in Good
      PROVE  k \in Good
  <2>1. CASE k <= j
    BY <1>1, <2>1
  <2>2. CASE k > j
    <3>1. H[k] = H[k - 1] * Base + n[k] /\ n[k] \in 0..(Base - 1) /\ Is(k - 1)
      BY <1>1, <1>4, <2>2, LimbType
    <3> QED
      BY <1>3, <3>1
  <2> QED
    BY <2>1, <2>2
<1>5. \A k \in 0..Limbs : k \in Good
  <2> HIDE DEF Good
  <2> QED
    BY <1>2, <1>4, IntervalInduction
<1> QED
  BY <1>5 DEF H

\* Limbs that are not appended do not matter, and the first may be appended
\* beforehand.
LEMMA HornerShift ==
  ASSUME NEW x \in Int, NEW y \in Int, NEW j \in 1..Limbs,
         NEW n \in Number, NEW m \in Number,
         y = x * Base + n[j], \A k \in (j + 1)..Limbs : n[k] = m[k]
  PROVE  \A k \in j..Limbs : Horner(x, j - 1, n)[k] = Horner(y, j, m)[k]
<1> DEFINE G == Horner(x, j - 1, n)
           H == Horner(y, j, m)
           Good == {k \in j..Limbs : G[k] = H[k]}
<1>1. \A k \in 0..Limbs : G[k] = IF k <= j - 1 THEN x ELSE G[k - 1] * Base + n[k]
  BY HornerStep, j - 1 \in 0..Limbs
<1>2. \A k \in 0..Limbs : H[k] = IF k <= j THEN y ELSE H[k - 1] * Base + m[k]
  BY HornerStep
<1> HIDE DEF G, H
<1>3. j \in Good
  <2>1. G[j - 1] = x /\ G[j] = G[j - 1] * Base + n[j] /\ H[j] = y
    BY <1>1, <1>2
  <2> QED
    BY <2>1
<1>4. ASSUME NEW k \in (j + 1)..Limbs, k - 1 \in Good
      PROVE  k \in Good
  <2>1. /\ G[k] = G[k - 1] * Base + n[k] /\ H[k] = H[k - 1] * Base + m[k]
        /\ n[k] = m[k] /\ G[k - 1] = H[k - 1]
    BY <1>1, <1>2, <1>4
  <2> QED
    BY <2>1
<1>5. \A k \in j..Limbs : k \in Good
  <2> HIDE DEF Good
  <2> QED
    BY <1>3, <1>4, IntervalInduction
<1> QED
  BY <1>5 DEF G, H

\* The integer the first k limbs stand for.
Leading(n, k) == Horner(0, 0, n)[k]

LEMMA LeadingStep ==
  ASSUME NEW n \in Number
  PROVE  /\ Leading(n, 0) = 0
         /\ \A k \in 1..Limbs : Leading(n, k) = Leading(n, k - 1) * Base + n[k]
         /\ \A k \in 0..Limbs : Leading(n, k) \in Nat
         /\ Leading(n, Limbs) = Value(n)
<1>1. 0 \in 0..Limbs /\ \A k \in 1..Limbs : k \in 0..Limbs /\ ~(k <= 0)
  OBVIOUS
<1>2. \A k \in 0..Limbs : Leading(n, k) \in Int /\ Leading(n, k) >= 0
  BY <1>1, HornerType DEF Leading
<1>3. \A k \in 0..Limbs :
        Leading(n, k) = IF k <= 0 THEN 0 ELSE Leading(n, k - 1) * Base + n[k]
  BY <1>1, HornerStep DEF Leading
<1>4. Leading(n, Limbs) = Value(n)
  BY DEF Leading, Value
<1> QED
  BY <1>1, <1>2, <1>3, <1>4

\* A number that is ahead stays ahead, whatever limbs are appended to both.
LEMMA AheadStaysAhead ==
  ASSUME NEW n \in Number, NEW m \in Number, NEW j \in 0..Limbs,
         Leading(n, j) < Leading(m, j)
  PROVE  Value(n) < Value(m)
<1> DEFINE Good == {k \in j..Limbs : Leading(n, k) < Leading(m, k)}
<1>1. \A k \in j..Limbs : k \in Good
  <2>1. j \in Good
    OBVIOUS
  <2>2. ASSUME NEW k \in (j + 1)..Limbs, k - 1 \in Good
        PROVE  k \in Good
    <3>1. k - 1 \in 0..Limbs /\ k \in 1..Limbs
      OBVIOUS
    <3>2. Leading(n, k - 1) < Leading(m, k - 1)
      BY <2>2
    <3>3. Leading(n, k - 1) \in Int /\ Leading(m, k - 1) \in Int
      BY <3>1, LeadingStep
    <3>4. n[k] \in 0..(Base - 1) /\ m[k] \in 0..(Base - 1)
      BY <3>1, LimbType
    <3>5. Leading(n, k) = Leading(n, k - 1) * Base + n[k]
      BY <3>1, LeadingStep
    <3>6. Leading(m, k) = Leading(m, k - 1) * Base + m[k]
      BY <3>1, LeadingStep
    <3>7. Leading(n, k) < Leading(m, k)
      BY <3>2, <3>3, <3>4, <3>5, <3>6, OneLimb
    <3> QED
      BY <3>7
  <2> HIDE DEF Good
  <2> QED
    BY <2>1, <2>2, IntervalInduction
<1>2. Limbs \in j..Limbs
  OBVIOUS
<1>3. Leading(n, Limbs) < Leading(m, Limbs)
  BY <1>1, <1>2
<1> QED
  BY <1>3, LeadingStep

\* Equal limbs make equal numbers.
LEMMA EqualUpTo ==
  ASSUME NEW n \in Number, NEW m \in Number, NEW j \in 0..Limbs,
         \A k \in 1..j : n[k] = m[k]
  PROVE  Leading(n, j) = Leading(m, j)
<1> DEFINE Good == {k \in 0..j : Leading(n, k) = Leading(m, k)}
<1>1. 0 \in Good
  BY LeadingStep
<1>2. ASSUME NEW k \in 1..j, k - 1 \in Good
      PROVE  k \in Good
  <2>1. Leading(n, k - 1) = Leading(m, k - 1) /\ n[k] = m[k] /\ k \in 1..Limbs
    BY <1>2
  <2>2. Leading(n, k) = Leading(m, k)
    BY <2>1, LeadingStep
  <2> QED
    BY <2>2
<1>3. \A k \in 0..j : k \in Good
  <2> HIDE DEF Good
  <2> QED
    BY <1>1, <1>2, IntervalInduction
<1> QED
  BY <1>3

\* The first limb that differs decides.
LEMMA FirstDifference ==
  ASSUME NEW n \in Number, NEW m \in Number, NEW k \in 1..Limbs,
         n[k] < m[k], \A l \in 1..(k - 1) : n[l] = m[l]
  PROVE  Value(n) < Value(m)
<1>1. k - 1 \in 0..Limbs /\ k \in 0..Limbs
  OBVIOUS
<1>2. Leading(n, k - 1) = Leading(m, k - 1) /\ Leading(n, k - 1) \in Nat
  BY <1>1, EqualUpTo, LeadingStep
<1>3. Leading(n, k - 1) * Base \in Int
  BY <1>2
<1>4. n[k] \in Int /\ m[k] \in Int
  BY LimbType
<1>5. Leading(n, k) = Leading(n, k - 1) * Base + n[k]
  BY LeadingStep
<1>6. Leading(m, k) = Leading(n, k - 1) * Base + m[k]
  BY <1>2, LeadingStep
<1>7. Leading(n, k) < Leading(m, k)
  BY <1>3, <1>4, <1>5, <1>6
<1> QED
  BY <1>1, <1>7, AheadStaysAhead

\* gte_r compares numbers.
LEMMA GteCompares ==
  ASSUME R \in Moduli, NEW n \in Number
  PROVE  gte_r(n) <=> Value(R) <= Value(n)
<1>1. R \in Number /\ Value(n) \in Int /\ Value(R) \in Int
  BY LeadingStep, ModRConstants
<1>2. CASE n = R
  BY <1>1, <1>2 DEF gte_r
<1>3. CASE n # R
  <2> DEFINE Same == {k \in 0..Limbs : \A l \in 1..k : n[l] = R[l]}
  <2>1. Limbs \notin Same
    BY <1>1, <1>3, SameNumber
  <2>2. PICK k \in 1..Limbs : k - 1 \in Same /\ k \notin Same
    <3>1. 0 \in Same /\ Limbs \in 0..Limbs
      OBVIOUS
    <3> HIDE DEF Same
    <3> QED
      BY <2>1, <3>1, IntervalInduction
  <2>3. (\A l \in 1..(k - 1) : n[l] = R[l]) /\ n[k] # R[k]
    BY <2>2
  <2>4. n[k] \in Int /\ R[k] \in Int /\ n[k] # R[k]
    BY <1>1, <2>3, LimbType
  <2>5. CASE n[k] > R[k]
    <3>1. Value(R) < Value(n)
      BY <1>1, <2>3, <2>5, FirstDifference
    <3> QED
      BY <1>1, <2>3, <2>5, <3>1 DEF gte_r
  <2>6. CASE n[k] < R[k]
    <3>1. Value(n) < Value(R)
      BY <1>1, <2>3, <2>6, FirstDifference
    <3>2. ~gte_r(n)
      <4> SUFFICES ASSUME NEW l \in 1..Limbs, n[l] > R[l],
                          \A h \in 1..(l - 1) : n[h] = R[h]
                   PROVE  FALSE
        BY <1>3 DEF gte_r
      <4>1. l <= k
        BY <2>3, <2>4
      <4>2. l # k
        BY <2>4, <2>6
      <4>3. l \in 1..(k - 1)
        BY <2>3, <4>1, <4>2
      <4>4. n[l] = R[l] /\ n[l] \in Int
        BY <2>3, <4>3, LimbType
      <4> QED
        BY <4>4
    <3> QED
      BY <1>1, <3>1, <3>2
  <2> QED
    BY <2>4, <2>5, <2>6
<1> QED
  BY <1>2, <1>3

-----------------------------------------------------------------------------
(* Remainders.                                                              *)

LEMMA Division ==
  ASSUME NEW n \in Int, NEW m \in Nat \ {0}
  PROVE  /\ n = (n \div m) * m + (n % m)
         /\ n \div m \in Int /\ n % m \in 0..(m - 1)
  OBVIOUS

\* What is left when a multiple is taken away is the remainder, if it is small
\* enough.
LEMMA RemainderIsUnique ==
  ASSUME NEW m \in Nat \ {0}, NEW q \in Nat, NEW x \in 0..(m - 1)
  PROVE  (x + q * m) % m = x
<1> DEFINE n == x + q * m
           y == n % m
<1>1. q * m \in Int /\ n \in Int
  OBVIOUS
<1>2. n = (n \div m) * m + y /\ n \div m \in Int /\ y \in 0..(m - 1)
  BY <1>1, Division
<1>3. n = x + q * m
  OBVIOUS
<1> DEFINE r == n \div m
           d == q - r
<1> HIDE DEF n, y, r
<1>4. d * m = y - x /\ d \in Int
  <2>1. r \in Int /\ n = r * m + y
    BY <1>2 DEF r
  <2>2. (q - r) * m = q * m - r * m
    BY <2>1
  <2>3. r * m \in Int
    BY <2>1
  <2> QED
    BY <1>1, <1>2, <1>3, <2>1, <2>2, <2>3
<1> HIDE DEF d
<1>5. ~(d >= 1) /\ ~(d <= -1)
  BY <1>2, <1>4
<1>6. d = 0
  BY <1>4, <1>5
<1>7. y = x
  BY <1>2, <1>4, <1>6
<1> QED
  BY <1>7 DEF n, y

-----------------------------------------------------------------------------
(* The loop.                                                                *)

\* What will be left of v when sub_r is through: its limbs from i + 1 on are
\* final, those before are still to be lowered by those of R and the borrow.
Left == Horner(Leading(v, i) - Leading(R, i) - borrow, i, v)[Limbs]

\* Until now a multiple of R was taken from the input, and never too much.
ModInv ==
  /\ input \in Number /\ R \in Moduli /\ v \in Number
  /\ i \in 0..Limbs
  /\ borrow \in {0, 1}
  /\ i = 0 => borrow = 0
  /\ done \in BOOLEAN
  /\ done => i = 0 /\ Value(v) < Value(R)
  /\ Left >= 0
  /\ \E q \in Nat : Value(input) = Left + q * Value(R)

LEMMA LeftNext ==
  Left' = Horner(Leading(v', i') - Leading(R', i') - borrow', i', v')[Limbs]
  BY DEF Left, Leading, Horner

LEMMA ModulusIsPositive ==
  ASSUME NEW m \in Moduli
  PROVE  m \in Number /\ Value(m) \in Nat \ {0}
<1>1. m \in Number /\ m[1] # 0
  BY ModRConstants
<1> DEFINE zero == [k \in 1..Limbs |-> 0]
<1>2. zero \in Number
  BY DEF Number, Limb
<1>3. zero[1] < m[1] /\ 1 \in 1..Limbs
  BY <1>1, LimbType
<1>4. \A l \in 1..(1 - 1) : zero[l] = m[l]
  OBVIOUS
<1> HIDE DEF zero
<1>5. Value(zero) < Value(m)
  BY <1>1, <1>2, <1>3, <1>4, FirstDifference
<1> QED
  BY <1>1, <1>2, <1>5, LeadingStep

\* Between two calls of sub_r nothing is outstanding.
LEMMA LeftBetween ==
  ASSUME v \in Number, R \in Number, i = 0, borrow = 0
  PROVE  Left = Value(v)
<1>1. Leading(v, i) - Leading(R, i) - borrow = 0
  BY LeadingStep
<1> QED
  BY <1>1 DEF Left, Value

\* A call of sub_r sets out to take R.
LEMMA LeftAtFirst ==
  ASSUME NEW w \in Number, NEW m \in Number
  PROVE  Horner(Leading(w, Limbs) - Leading(m, Limbs) - 0, Limbs, w)[Limbs]
           = Value(w) - Value(m)
<1>1. /\ Leading(w, Limbs) = Value(w) /\ Leading(m, Limbs) = Value(m)
      /\ Value(w) \in Int /\ Value(m) \in Int /\ Limbs \in 0..Limbs
  BY LeadingStep
<1>2. Value(w) - Value(m) - 0 \in Int
  BY <1>1
<1> QED
  BY <1>1, <1>2, HornerStep

\* overflowing_sub of a limb and of the borrow: what wraps is borrowed.
LEMMA LimbArithmetic ==
  ASSUME NEW a \in Limb, NEW c \in Limb, NEW b \in {0, 1}
  PROVE  LET d == diff(a, c)
             e == diff(d, b)
             o == overflows(a, c) + overflows(d, b)
         IN  e \in Limb /\ o \in {0, 1} /\ e = a - c - b + o * Base
<1>1. CASE a < c
  <2>1. diff(a, c) = a - c + Base
    BY <1>1 DEF diff, Limb
  <2>2. a - c + Base - b >= 0 /\ a - c + Base - b < Base
    BY <1>1 DEF Limb
  <2> QED
    BY <1>1, <2>1, <2>2 DEF diff, overflows, Limb
<1>2. CASE a >= c
  <2>1. diff(a, c) = a - c
    BY <1>2 DEF diff, Limb
  <2>2. CASE a - c < b
    <3>1. diff(a - c, b) = a - c - b + Base /\ a - c - b + Base = Base - 1
      BY <1>2, <2>2 DEF diff, Limb
    <3> QED
      BY <1>2, <2>1, <2>2, <3>1 DEF overflows, Limb
  <2>3. CASE a - c >= b
    <3>1. diff(a - c, b) = a - c - b
      BY <1>2, <2>3 DEF diff, Limb
    <3> QED
      BY <1>2, <2>1, <2>3, <3>1 DEF overflows, Limb
  <2> QED
    BY <2>2, <2>3 DEF Limb
<1> QED
  BY <1>1, <1>2 DEF Limb

\* The first number is the input itself.
LEMMA ModInit == Init => ModInv
<1> SUFFICES ASSUME Init PROVE ModInv
  OBVIOUS
<1> USE DEF Init
<1>1. R \in Number /\ Value(R) \in Nat
  BY ModulusIsPositive
<1>2. Left = Value(input) /\ Value(input) \in Nat /\ Left >= 0
  BY <1>1, LeftBetween, LeadingStep
<1>3. Value(input) = Left + 0 * Value(R)
  BY <1>1, <1>2
<1>4. \E q \in Nat : Value(input) = Left + q * Value(R)
  BY <1>3
<1>5. /\ input \in Number /\ R \in Moduli /\ v \in Number
      /\ i \in 0..Limbs /\ borrow = 0
  OBVIOUS
<1>6. done \in BOOLEAN /\ ~done
  BY Zenon
<1> HIDE DEF Init
<1> QED
  BY <1>2, <1>4, <1>5, <1>6 DEF ModInv

\* Subtract: v is at least R, so what will be left is not negative.
LEMMA SubtractStep == ModInv /\ Subtract => ModInv'
<1> SUFFICES ASSUME ModInv, Subtract PROVE ModInv'
  OBVIOUS
<1> USE DEF Subtract
<1>1. R \in Moduli /\ R \in Number /\ v \in Number /\ Value(R) \in Nat \ {0}
  BY ModulusIsPositive DEF ModInv
<1>2. Left = Value(v) /\ Value(v) \in Nat
  BY <1>1, LeftBetween, LeadingStep DEF ModInv
<1>3. Value(R) <= Value(v)
  BY <1>1, GteCompares
<1>4. Left' = Value(v) - Value(R)
  <2>1. Left' = Horner(Leading(v, Limbs) - Leading(R, Limbs) - 0, Limbs, v)[Limbs]
    BY DEF Left, Leading
  <2> QED
    BY <1>1, <2>1, LeftAtFirst
<1>5. \E q \in Nat : Value(input) = Left' + q * Value(R)
  <2>1. PICK q \in Nat : Value(input) = Left + q * Value(R)
    BY DEF ModInv
  <2>2. (q + 1) * Value(R) = q * Value(R) + Value(R) /\ q * Value(R) \in Int
    BY <1>1
  <2>3. Value(input) = Left' + (q + 1) * Value(R)
    BY <1>1, <1>2, <1>4, <2>1, <2>2
  <2> QED
    BY <2>3
<1>6. Value(input)' = Value(input) /\ Value(R)' = Value(R)
  BY DEF Value, Horner
<1> QED
  BY <1>1, <1>2, <1>3, <1>4, <1>5, <1>6 DEF ModInv

\* SubLimb: a limb becomes final, and what will be left is the same.
LEMMA SubLimbKeepsLeft ==
  ASSUME v \in Number, R \in Number, i \in 1..Limbs, borrow \in {0, 1}, SubLimb
  PROVE  Left' = Left /\ v' \in Number /\ borrow' \in {0, 1}
<1> DEFINE d == diff(v[i], R[i])
           e == diff(d, borrow)
           o == overflows(v[i], R[i]) + overflows(d, borrow)
<1>1. v[i] \in Limb /\ R[i] \in Limb
  BY DEF Number
<1>2. e \in Limb /\ o \in {0, 1} /\ e = v[i] - R[i] - borrow + o * Base
  BY <1>1, LimbArithmetic
<1>3. v' = [v EXCEPT ![i] = e] /\ borrow' = o /\ i' = i - 1 /\ R' = R
  BY DEF SubLimb
<1> HIDE DEF e, o
<1>4. v' \in Number /\ borrow' \in {0, 1}
  BY <1>2, <1>3 DEF Number
<1>5. v'[i] = e /\ \A k \in 1..Limbs : k # i => v'[k] = v[k]
  BY <1>3 DEF Number
<1> DEFINE a == Leading(v, i - 1)
           c == Leading(R, i - 1)
           x == a - c - o
           y == Leading(v, i) - Leading(R, i) - borrow
<1>6. a \in Int /\ c \in Int /\ i - 1 \in 0..Limbs /\ i \in 0..Limbs
  BY LeadingStep
<1>7. Leading(v, i) = a * Base + v[i] /\ Leading(R, i) = c * Base + R[i]
  BY LeadingStep
<1>8. v[i] \in Int /\ R[i] \in Int /\ e \in Int /\ o \in Int /\ borrow \in Int
  BY <1>1, <1>2 DEF Limb
<1>9. Leading(v', i - 1) = a
  <2>1. \A k \in 1..(i - 1) : v'[k] = v[k]
    BY <1>5
  <2> QED
    BY <1>4, <1>6, <2>1, EqualUpTo
<1> HIDE DEF a, c
<1>10. y = x * Base + v'[i] /\ x \in Int /\ y \in Int
  <2>1. /\ a * Base \in Int /\ c * Base \in Int /\ o * Base \in Int
        /\ x * Base = a * Base - c * Base - o * Base
    BY <1>6, <1>8
  <2> QED
    BY <1>2, <1>5, <1>6, <1>7, <1>8, <2>1
<1>11. Horner(x, i - 1, v')[Limbs] = Horner(y, i, v)[Limbs]
  <2>1. \A k \in (i + 1)..Limbs : v'[k] = v[k]
    BY <1>5
  <2>2. Limbs \in i..Limbs
    OBVIOUS
  <2> HIDE DEF x, y
  <2> QED
    BY <1>4, <1>10, <2>1, <2>2, HornerShift
<1>12. Left = Horner(y, i, v)[Limbs]
  BY DEF Left
<1>13. Left' = Horner(x, i - 1, v')[Limbs]
  BY <1>3, <1>9, LeftNext DEF c
<1> QED
  BY <1>4, <1>11, <1>12, <1>13

LEMMA SubLimbStep == ModInv /\ SubLimb => ModInv'
<1> SUFFICES ASSUME ModInv, SubLimb PROVE ModInv'
  OBVIOUS
<1>1. R \in Number /\ v \in Number /\ i \in 1..Limbs /\ borrow \in {0, 1}
  BY ModulusIsPositive DEF ModInv, SubLimb
<1>2. Left' = Left /\ v' \in Number /\ borrow' \in {0, 1}
  BY <1>1, SubLimbKeepsLeft
<1>3. Value(input)' = Value(input) /\ Value(R)' = Value(R)
  BY DEF Value, Horner, SubLimb
<1>4. i' = i - 1 /\ i' \in 0..Limbs /\ ~done' /\ done' \in BOOLEAN
  BY <1>1 DEF SubLimb, ModInv
<1>5. i' = 0 => borrow' = 0
  <2> SUFFICES ASSUME i' = 0, borrow' # 0 PROVE FALSE
    OBVIOUS
  <2>1. borrow' = 1
    BY <1>2
  <2>2. Left' = Horner(Leading(v', 0) - Leading(R, 0) - 1, 0, v')[Limbs]
    <3>1. R' = R
      BY DEF SubLimb
    <3> QED
      BY <2>1, <3>1, LeftNext
  <2>3. Leading(v', 0) = 0 /\ Leading(R, 0) = 0
    BY <1>1, <1>2, LeadingStep
  <2>4. Horner(-1, 0, v')[Limbs] < 0
    BY <1>2, HornerType, Limbs \in 0..Limbs, -1 \in Int, -1 < 0, 0 \in 0..Limbs
  <2>5. Left' < 0
    BY <2>2, <2>3, <2>4
  <2>6. Left >= 0
    BY DEF ModInv
  <2> QED
    BY <1>2, <2>2, <2>3, <2>5, <2>6, HornerType
<1> QED
  BY <1>2, <1>3, <1>4, <1>5 DEF ModInv, SubLimb

LEMMA ModStep == ModInv /\ [Next]_vars => ModInv'
<1> SUFFICES ASSUME ModInv, [Next]_vars PROVE ModInv'
  OBVIOUS
<1>1. CASE Subtract
  BY <1>1, SubtractStep
<1>2. CASE SubLimb
  BY <1>2, SubLimbStep
<1>3. CASE Return
  <2>1. R \in Number /\ v \in Number /\ ~(Value(R) <= Value(v))
    BY <1>3, ModulusIsPositive, GteCompares DEF ModInv, Return
  <2>2. Value(v) < Value(R)
    BY <2>1, LeadingStep
  <2>3. Value(v)' = Value(v) /\ Value(R)' = Value(R) /\ Value(input)' = Value(input)
    BY <1>3 DEF Return, Value, Horner
  <2>4. Left' = Left
    BY <1>3 DEF Return, Left, Leading, Horner
  <2> QED
    BY <1>3, <2>2, <2>3, <2>4 DEF ModInv, Return
<1>4. CASE UNCHANGED vars
  <2>1. Left' = Left
    BY <1>4 DEF vars, Left, Leading, Horner
  <2>2. Value(v)' = Value(v) /\ Value(R)' = Value(R) /\ Value(input)' = Value(input)
    BY <1>4 DEF vars, Horner, Value
  <2> QED
    BY <1>4, <2>1, <2>2 DEF vars, ModInv
<1> QED
  BY <1>1, <1>2, <1>3, <1>4 DEF Next

LEMMA ModAlways == Spec => []ModInv
  BY ModInit, ModStep, PTL DEF Spec

-----------------------------------------------------------------------------
\* sub_r never underflows: its two borrows of a limb do not come together, no
\* borrow is left at the end, and only multiples of R have been taken.
THEOREM NothingIsEverOwed == Spec => []NothingIsOwed
<1>1. ModInv => NothingIsOwed
  <2> SUFFICES ASSUME ModInv PROVE NothingIsOwed
    OBVIOUS
  <2>1. v \in Number /\ borrow \in {0, 1} /\ R \in Number /\ input \in Number
    BY ModulusIsPositive DEF ModInv
  <2>2. Value(R) \in Nat \ {0} /\ Value(v) \in Nat /\ Value(input) \in Nat
    BY <2>1, ModulusIsPositive, LeadingStep DEF ModInv
  <2>3. ASSUME i = 0
        PROVE  /\ borrow = 0
               /\ Value(v) <= Value(input)
               /\ (Value(input) - Value(v)) % Value(R) = 0
    <3>1. borrow = 0 /\ Left = Value(v)
      BY <2>1, <2>3, LeftBetween DEF ModInv
    <3>2. PICK q \in Nat : Value(input) = Value(v) + q * Value(R)
      BY <3>1 DEF ModInv
    <3>3. q * Value(R) \in Nat
      BY <2>2
    <3>4. Value(input) - Value(v) = 0 + q * Value(R)
      BY <2>2, <3>2, <3>3
    <3>5. (0 + q * Value(R)) % Value(R) = 0
      BY <2>2, RemainderIsUnique
    <3> QED
      BY <2>2, <3>1, <3>2, <3>3, <3>4, <3>5
  <2> QED
    BY <2>1, <2>3 DEF NothingIsOwed
<1> QED
  BY ModAlways, <1>1, PTL

\* What the program computes is the remainder modulo R of the hash.
THEOREM RemainderIsReturned == Spec => []ReturnsRemainder
<1>1. ModInv => ReturnsRemainder
  <2> SUFFICES ASSUME ModInv, done PROVE Value(v) = Value(input) % Value(R)
    BY DEF ReturnsRemainder
  <2>1. R \in Number /\ v \in Number /\ i = 0 /\ borrow = 0
    BY ModulusIsPositive DEF ModInv
  <2>2. Value(R) \in Nat \ {0} /\ Value(v) \in Nat /\ Value(v) < Value(R)
    BY <2>1, ModulusIsPositive, LeadingStep DEF ModInv
  <2>3. PICK q \in Nat : Value(input) = Value(v) + q * Value(R)
    BY <2>1, LeftBetween DEF ModInv
  <2>4. Value(v) \in 0..(Value(R) - 1)
    BY <2>2
  <2>5. (Value(v) + q * Value(R)) % Value(R) = Value(v)
    BY <2>2, <2>4, RemainderIsUnique
  <2> QED
    BY <2>3, <2>5
<1> QED
  BY ModAlways, <1>1, PTL

=============================================================================
