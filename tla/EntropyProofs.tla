---------------------------- MODULE EntropyProofs ----------------------------
(***************************************************************************)
(* What a bundle proves, for any stations, any answers and any earlier     *)
(* archive: nothing is archived before everything has answered, a finished *)
(* archive yields its hash and seed, the order of samples and events has   *)
(* no part in them, and the hashed bytes say what was measured.            *)
(*                                                                         *)
(* The lemmas before the invariants are about the operators: a least       *)
(* number and induction, the stable sort, the order of event ids, the      *)
(* records by name, the stored numbers, and byte strings with lengths.     *)
(***************************************************************************)
EXTENDS Entropy, FiniteSetTheorems, SequenceTheorems, WellFoundedInduction, TLAPS

\* A set of numbers has a least one.
LEMMA LeastNumber ==
  ASSUME NEW Some \in SUBSET Nat, Some # {}
  PROVE  \E k \in Some : \A l \in Some : k <= l
<1>1. PICK k \in Some : \A l \in Some : <<l, k>> \notin OpToRel(<, Nat)
  BY NatLessThanWellFounded, WFMin, Zenon
<1>2. ASSUME NEW l \in Some PROVE k <= l
  <2>1. k \in Nat /\ l \in Nat /\ ~(l < k)
    BY <1>1, <1>2 DEF OpToRel
  <2> QED
    BY <2>1
<1> QED
  BY <1>2

\* Induction up to n, for a set of numbers.
LEMMA InductionUpTo ==
  ASSUME NEW n \in Nat, NEW Good,
         0 \in Good, \A k \in 1..n : k - 1 \in Good => k \in Good
  PROVE  \A k \in 0..n : k \in Good
<1> DEFINE Bad == {k \in 0..n : k \notin Good}
<1> SUFFICES ASSUME Bad # {} PROVE FALSE
  OBVIOUS
<1>1. PICK k \in Bad : \A l \in Bad : k <= l
  <2>1. Bad \subseteq Nat
    OBVIOUS
  <2> HIDE DEF Bad
  <2> QED
    BY <2>1, LeastNumber
<1>2. k \in 1..n /\ k \notin Good
  OBVIOUS
<1>3. k - 1 \in 0..n /\ k - 1 \notin Good
  BY <1>2
<1> QED
  BY <1>1, <1>3

-----------------------------------------------------------------------------
(* Sorting.                                                                 *)

\* s lists every element of S once.
Lists(s, S) ==
  /\ s \in Seq(S)
  /\ \A i, j \in DOMAIN s : s[i] = s[j] => i = j
  /\ \A x \in S : \E i \in DOMAIN s : s[i] = x

StrictOrder(less, S) ==
  /\ \A x \in S : <<x, x>> \notin less
  /\ \A x, y, z \in S :
       <<x, y>> \in less /\ <<y, z>> \in less => <<x, z>> \in less
  /\ \A x, y \in S : x = y \/ <<x, y>> \in less \/ <<y, x>> \in less

UpTo(x, S, less) == {y \in S : y = x \/ <<y, x>> \in less}

LEMMA ListLength ==
  ASSUME NEW S, NEW s, Lists(s, S)
  PROVE  IsFiniteSet(S) /\ Len(s) \in Nat /\ Cardinality(S) = Len(s)
         /\ DOMAIN s = 1..Len(s) /\ s \in [1..Len(s) -> S]
<1>1. Len(s) \in Nat /\ DOMAIN s = 1..Len(s) /\ s \in [1..Len(s) -> S]
  BY LenProperties DEF Lists
<1>2. s \in Bijection(1..Len(s), S)
  BY <1>1 DEF Lists, Bijection, Injection, Surjection, IsInjective
<1>3. IsFiniteSet(S)
  BY <1>1, <1>2, FS_NatBijection DEF ExistsBijection
<1> QED
  BY <1>1, <1>2, <1>3, FS_CountingElements DEF ExistsBijection

\* The place of an element does not depend on where it is listed.
LEMMA PlaceIsRank ==
  ASSUME NEW S, NEW s, NEW less, Lists(s, S), StrictOrder(less, S),
         NEW i \in DOMAIN s
  PROVE  Place(s, less, i) = Cardinality(UpTo(s[i], S, less))
<1> DEFINE J == {j \in DOMAIN s : \/ <<s[j], s[i]>> \in less
                                  \/ j <= i /\ <<s[i], s[j]>> \notin less}
           U == UpTo(s[i], S, less)
           f == [j \in J |-> s[j]]
<1>1. Len(s) \in Nat /\ DOMAIN s = 1..Len(s) /\ s \in [1..Len(s) -> S]
  BY ListLength
<1>2. \A j \in DOMAIN s : j \in J <=> s[j] = s[i] \/ <<s[j], s[i]>> \in less
  <2> SUFFICES ASSUME NEW j \in DOMAIN s
               PROVE  j \in J <=> s[j] = s[i] \/ <<s[j], s[i]>> \in less
    OBVIOUS
  <2>1. CASE j = i
    BY <1>1, <2>1 DEF StrictOrder
  <2>2. CASE j # i
    <3>1. s[j] # s[i] /\ s[j] \in S /\ s[i] \in S
      BY <1>1, <2>2 DEF Lists
    <3>2. <<s[j], s[i]>> \notin less => <<s[i], s[j]>> \in less
      BY <3>1 DEF StrictOrder
    <3> QED
      BY <3>1, <3>2
  <2> QED
    BY <2>1, <2>2
<1>3. f \in Bijection(J, U)
  <2>1. f \in [J -> U]
    BY <1>1, <1>2 DEF UpTo
  <2>2. IsInjective(f)
    BY <1>1 DEF IsInjective, Lists
  <2>3. \A y \in U : \E j \in J : f[j] = y
    <3> SUFFICES ASSUME NEW y \in U PROVE \E j \in J : f[j] = y
      OBVIOUS
    <3>1. PICK j \in DOMAIN s : s[j] = y
      BY DEF UpTo, Lists
    <3>2. j \in J
      BY <1>2, <3>1 DEF UpTo
    <3> QED
      BY <3>1, <3>2
  <2> HIDE DEF f, J, U
  <2> QED
    BY <2>1, <2>2, <2>3 DEF Bijection, Injection, Surjection
<1>4. IsFiniteSet(J)
  <2>1. IsFiniteSet(1..Len(s)) /\ J \subseteq 1..Len(s)
    BY <1>1, FS_Interval
  <2> QED
    BY <2>1, FS_Subset
<1>5. Place(s, less, i) = Cardinality(J)
  BY DEF Place
<1> HIDE DEF J, U, f
<1>6. Cardinality(U) = Cardinality(J)
  BY <1>3, <1>4, FS_Bijection DEF ExistsBijection
<1> QED
  BY <1>5, <1>6 DEF U

\* An element that is less has less up to it.
LEMMA RankGrows ==
  ASSUME NEW S, NEW less, IsFiniteSet(S), StrictOrder(less, S),
         NEW x \in S, NEW y \in S, <<x, y>> \in less
  PROVE  Cardinality(UpTo(x, S, less)) < Cardinality(UpTo(y, S, less))
<1>1. UpTo(x, S, less) \subseteq UpTo(y, S, less)
  BY DEF UpTo, StrictOrder
<1>2. y \in UpTo(y, S, less) /\ y \notin UpTo(x, S, less)
  <2>1. <<y, x>> \notin less /\ x # y
    BY DEF StrictOrder
  <2> QED
    BY <2>1 DEF UpTo
<1>3. UpTo(y, S, less) \subseteq S
  BY DEF UpTo
<1>4. IsFiniteSet(UpTo(y, S, less)) /\ IsFiniteSet(UpTo(x, S, less))
  BY <1>1, <1>3, FS_Subset
<1>5. Cardinality(UpTo(x, S, less)) \in Nat /\ Cardinality(UpTo(y, S, less)) \in Nat
  BY <1>4, FS_CardinalityType
<1>6. Cardinality(UpTo(x, S, less)) <= Cardinality(UpTo(y, S, less))
  BY <1>1, <1>4, FS_Subset
<1>7. Cardinality(UpTo(x, S, less)) # Cardinality(UpTo(y, S, less))
  BY <1>1, <1>2, <1>4, FS_Subset
<1> QED
  BY <1>5, <1>6, <1>7

\* Every number up to the size of the set is the rank of one element.
LEMMA Ranks ==
  ASSUME NEW S, NEW less, IsFiniteSet(S), StrictOrder(less, S)
  PROVE  [x \in S |-> Cardinality(UpTo(x, S, less))]
           \in Bijection(S, 1..Cardinality(S))
<1> DEFINE f == [x \in S |-> Cardinality(UpTo(x, S, less))]
           n == Cardinality(S)
<1>1. n \in Nat
  BY FS_CardinalityType
<1>2. \A x \in S : f[x] \in 1..n
  <2> SUFFICES ASSUME NEW x \in S PROVE f[x] \in 1..n
    OBVIOUS
  <2>1. UpTo(x, S, less) \subseteq S /\ x \in UpTo(x, S, less)
    BY DEF UpTo
  <2>2. IsFiniteSet(UpTo(x, S, less)) /\ f[x] <= n
    BY <2>1, FS_Subset
  <2>3. f[x] \in Nat /\ f[x] # 0
    BY <2>1, <2>2, FS_CardinalityType, FS_EmptySet
  <2> QED
    BY <1>1, <2>2, <2>3
<1>3. \A x, y \in S : f[x] = f[y] => x = y
  <2> SUFFICES ASSUME NEW x \in S, NEW y \in S, f[x] = f[y], x # y PROVE FALSE
    OBVIOUS
  <2>1. f[x] \in Int /\ f[y] \in Int
    BY <1>1, <1>2
  <2>2. <<x, y>> \in less \/ <<y, x>> \in less
    BY DEF StrictOrder
  <2>3. f[x] < f[y] \/ f[y] < f[x]
    BY <2>2, RankGrows
  <2> HIDE DEF f
  <2> QED
    BY <2>1, <2>3
<1>4. f \in Injection(S, 1..n)
  <2>1. f \in [S -> 1..n]
    BY <1>2
  <2>2. DOMAIN f = S
    OBVIOUS
  <2> HIDE DEF f, n
  <2> QED
    BY <2>1, <2>2, <1>3 DEF Injection, IsInjective
<1>5. IsFiniteSet(1..n) /\ Cardinality(1..n) = n
  BY <1>1, FS_Interval
<1> HIDE DEF f
<1>6. f \in Surjection(S, 1..n)
  BY <1>4, <1>5, FS_Injection
<1> QED
  BY <1>4, <1>6 DEF Bijection, f

\* What is at each place of a sorted list.
LEMMA SortedPlaces ==
  ASSUME NEW S, NEW s, NEW less, Lists(s, S), StrictOrder(less, S)
  PROVE  /\ DOMAIN Sorted(s, less) = 1..Cardinality(S)
         /\ \A k \in 1..Cardinality(S) :
              /\ Sorted(s, less)[k] \in S
              /\ Cardinality(UpTo(Sorted(s, less)[k], S, less)) = k
<1> DEFINE n == Cardinality(S)
           rank == [x \in S |-> Cardinality(UpTo(x, S, less))]
<1>1. IsFiniteSet(S) /\ n = Len(s) /\ DOMAIN s = 1..n /\ s \in [1..n -> S]
  BY ListLength
<1>2. rank \in Bijection(S, 1..n)
  BY <1>1, Ranks
<1>3. DOMAIN Sorted(s, less) = 1..n
  BY <1>1 DEF Sorted
<1>4. ASSUME NEW k \in 1..n
      PROVE  Sorted(s, less)[k] \in S
             /\ Cardinality(UpTo(Sorted(s, less)[k], S, less)) = k
  <2>1. PICK x \in S : rank[x] = k
    BY <1>2 DEF Bijection, Surjection
  <2>2. PICK i \in DOMAIN s : s[i] = x
    BY DEF Lists
  <2>3. Place(s, less, i) = k
    BY <2>1, <2>2, PlaceIsRank
  <2> DEFINE c == CHOOSE j \in DOMAIN s : Place(s, less, j) = k
  <2>4. c \in DOMAIN s /\ Place(s, less, c) = k
    BY <2>3
  <2>5. Sorted(s, less)[k] = s[c]
    BY <1>1 DEF Sorted
  <2> HIDE DEF c
  <2> QED
    BY <1>1, <2>4, <2>5, PlaceIsRank
<1> QED
  BY <1>3, <1>4

LEMMA SortedLists ==
  ASSUME NEW S, NEW s, NEW less, Lists(s, S), StrictOrder(less, S)
  PROVE  Lists(Sorted(s, less), S)
<1> DEFINE n == Cardinality(S)
           t == Sorted(s, less)
<1>1. IsFiniteSet(S) /\ n \in Nat
  BY ListLength
<1>2. /\ DOMAIN t = 1..n
      /\ \A k \in 1..n : t[k] \in S /\ Cardinality(UpTo(t[k], S, less)) = k
  BY SortedPlaces
<1>3. t \in Seq(S)
  <2>1. t = [k \in 1..n |-> t[k]]
    BY <1>2 DEF Sorted
  <2> HIDE DEF t, n
  <2>2. t \in [1..n -> S]
    BY <1>2, <2>1
  <2> QED
    BY <1>1, <2>2, SeqDef
<1>4. \A i, j \in DOMAIN t : t[i] = t[j] => i = j
  <2> HIDE DEF t, n
  <2> QED
    BY <1>2
<1>5. \A x \in S : \E k \in DOMAIN t : t[k] = x
  <2> SUFFICES ASSUME NEW x \in S PROVE \E k \in DOMAIN t : t[k] = x
    OBVIOUS
  <2> DEFINE rank == [y \in S |-> Cardinality(UpTo(y, S, less))]
  <2>1. rank \in Bijection(S, 1..n)
    BY <1>1, Ranks
  <2>2. rank[x] \in 1..n /\ \A y \in S : rank[y] = rank[x] => y = x
    <3> HIDE DEF rank, n
    <3> QED
      BY <2>1 DEF Bijection, Injection, IsInjective
  <2>3. t[rank[x]] \in S /\ rank[t[rank[x]]] = rank[x]
    <3> HIDE DEF t, n
    <3> QED
      BY <1>2, <2>2
  <2> QED
    BY <1>2, <2>2, <2>3
<1> QED
  BY <1>3, <1>4, <1>5 DEF Lists

\* A list is sorted to the same list, whatever its order was.
LEMMA SortedIsUnique ==
  ASSUME NEW S, NEW s, NEW t, NEW less,
         Lists(s, S), Lists(t, S), StrictOrder(less, S)
  PROVE  Sorted(s, less) = Sorted(t, less)
<1> DEFINE n == Cardinality(S)
           rank == [y \in S |-> Cardinality(UpTo(y, S, less))]
<1>1. DOMAIN s = 1..n /\ DOMAIN t = 1..n /\ IsFiniteSet(S)
  BY ListLength
<1>2. \A k \in 1..n : Sorted(s, less)[k] = Sorted(t, less)[k]
  <2> SUFFICES ASSUME NEW k \in 1..n
               PROVE  Sorted(s, less)[k] = Sorted(t, less)[k]
    OBVIOUS
  <2> DEFINE x == Sorted(s, less)[k]
             y == Sorted(t, less)[k]
  <2>1. x \in S /\ y \in S /\ rank[x] = k /\ rank[y] = k
    BY SortedPlaces
  <2>2. rank \in Bijection(S, 1..n)
    BY <1>1, Ranks
  <2> HIDE DEF rank, x, y, n
  <2>3. x = y
    BY <2>1, <2>2 DEF Bijection, Injection, IsInjective
  <2> QED
    BY <2>3 DEF x, y
<1> QED
  BY <1>1, <1>2 DEF Sorted

-----------------------------------------------------------------------------
(* The order of event ids is a strict total order.                          *)

\* The strings a and b differ at i first, where a ends or is smaller.
LessAt(a, b, i) ==
  /\ i \in 1..Len(b)
  /\ \A j \in 1..i - 1 : j \in 1..Len(a) /\ a[j] = b[j]
  /\ i \in 1..Len(a) => a[i] < b[i]

LEMMA TextType ==
  ASSUME NEW a \in Text
  PROVE  /\ Len(a) \in Nat /\ DOMAIN a = 1..Len(a)
         /\ \A i \in 1..Len(a) : a[i] \in Nat
  BY LenProperties DEF Text

LEMMA PrefixIsEqualUpTo ==
  ASSUME NEW a \in Text, NEW b \in Text
  PROVE  IsPrefix(a, b) <=> Len(a) <= Len(b) /\ \A j \in 1..Len(a) : a[j] = b[j]
<1>1. /\ Len(a) \in Nat /\ Len(b) \in Nat
      /\ \A i \in 1..Len(a) : a[i] \in Nat
      /\ \A i \in 1..Len(b) : b[i] \in Nat
  BY TextType
<1> SUFFICES ASSUME Len(a) <= Len(b)
             PROVE  SubSeq(a, 1, Len(a)) = SubSeq(b, 1, Len(a))
                      <=> \A j \in 1..Len(a) : a[j] = b[j]
  BY DEF IsPrefix
<1>2. /\ SubSeq(a, 1, Len(a)) \in Seq(Nat) /\ Len(SubSeq(a, 1, Len(a))) = Len(a)
      /\ \A i \in 1..Len(a) : SubSeq(a, 1, Len(a))[i] = a[i]
  <2>1. Len(a) \in Int /\ 1 \in Int /\ \A i \in 1..Len(a) : a[i] \in Nat
    BY <1>1
  <2>2. /\ SubSeq(a, 1, Len(a)) \in Seq(Nat)
        /\ Len(SubSeq(a, 1, Len(a))) = IF 1 <= Len(a) THEN Len(a) - 1 + 1 ELSE 0
        /\ \A i \in 1..Len(a) - 1 + 1 : SubSeq(a, 1, Len(a))[i] = a[1 + i - 1]
    BY <2>1, SubSeqProperties
  <2> QED
    BY <1>1, <2>2
<1>3. /\ SubSeq(b, 1, Len(a)) \in Seq(Nat) /\ Len(SubSeq(b, 1, Len(a))) = Len(a)
      /\ \A i \in 1..Len(a) : SubSeq(b, 1, Len(a))[i] = b[i]
  <2>1. Len(a) \in Int /\ 1 \in Int /\ \A i \in 1..Len(a) : b[i] \in Nat
    BY <1>1
  <2>2. /\ SubSeq(b, 1, Len(a)) \in Seq(Nat)
        /\ Len(SubSeq(b, 1, Len(a))) = IF 1 <= Len(a) THEN Len(a) - 1 + 1 ELSE 0
        /\ \A i \in 1..Len(a) - 1 + 1 : SubSeq(b, 1, Len(a))[i] = b[1 + i - 1]
    BY <2>1, SubSeqProperties
  <2> QED
    BY <1>1, <2>2
<1> QED
  BY <1>2, <1>3, SeqEqual

LEMMA IdIsLessAt ==
  ASSUME NEW a, NEW b, a.id \in Text, b.id \in Text
  PROVE  IdIsLess(a, b) <=> \E i \in Nat : LessAt(a.id, b.id, i)
<1> DEFINE x == a.id
           y == b.id
<1>1. /\ Len(x) \in Nat /\ DOMAIN x = 1..Len(x) /\ \A i \in 1..Len(x) : x[i] \in Nat
      /\ Len(y) \in Nat /\ DOMAIN y = 1..Len(y) /\ \A i \in 1..Len(y) : y[i] \in Nat
  BY TextType
<1>2. IsStrictPrefix(x, y) <=>
        Len(x) < Len(y) /\ \A j \in 1..Len(x) : x[j] = y[j]
  <2>1. Len(x) = Len(y) /\ (\A j \in 1..Len(x) : x[j] = y[j]) => x = y
    BY SeqEqual DEF Text
  <2> QED
    BY <1>1, <2>1, PrefixIsEqualUpTo DEF IsStrictPrefix
<1>3. ASSUME NEW i \in Nat, i = Len(x) + 1
      PROVE  IsStrictPrefix(x, y) <=> LessAt(x, y, i)
  <2>1. i \in 1..Len(y) <=> Len(x) < Len(y)
    BY <1>1, <1>3
  <2>2. 1..i - 1 = 1..Len(x) /\ i \notin 1..Len(x)
    BY <1>1, <1>3
  <2> QED
    BY <1>2, <2>1, <2>2 DEF LessAt
<1>4. ASSUME NEW i \in DOMAIN x \cap DOMAIN y,
             x[i] < y[i], \A j \in 1..i - 1 : x[j] = y[j]
      PROVE  LessAt(x, y, i)
  BY <1>1, <1>4 DEF LessAt
<1>5. ASSUME NEW i \in Nat, LessAt(x, y, i) PROVE IdIsLess(a, b)
  <2>1. CASE i \notin 1..Len(x)
    <3>1. i >= 1 /\ (i > 1 => i - 1 \in 1..Len(x))
      BY <1>1, <1>5 DEF LessAt
    <3>2. i = Len(x) + 1
      BY <1>1, <2>1, <3>1
    <3> QED
      BY <1>3, <1>5, <3>2 DEF IdIsLess
  <2>2. CASE i \in 1..Len(x)
    <3>1. /\ i \in DOMAIN x \cap DOMAIN y /\ x[i] < y[i]
          /\ \A j \in 1..i - 1 : x[j] = y[j]
      BY <1>1, <1>5, <2>2 DEF LessAt
    <3> QED
      BY <3>1 DEF IdIsLess
  <2> QED
    BY <2>1, <2>2
<1>6. ASSUME IdIsLess(a, b) PROVE \E i \in Nat : LessAt(x, y, i)
  <2>1. CASE IsStrictPrefix(x, y)
    BY <1>1, <1>3, <2>1
  <2>2. CASE ~IsStrictPrefix(x, y)
    <3>1. PICK i \in DOMAIN x \cap DOMAIN y :
            x[i] < y[i] /\ \A j \in 1..i - 1 : x[j] = y[j]
      BY <1>6, <2>2 DEF IdIsLess
    <3>2. i \in Nat
      BY <1>1
    <3> QED
      BY <1>4, <3>1, <3>2
  <2> QED
    BY <2>1, <2>2
<1> QED
  BY <1>5, <1>6

LEMMA LessIsTransitive ==
  ASSUME NEW a \in Text, NEW b \in Text, NEW c \in Text,
         NEW i \in Nat, NEW k \in Nat, LessAt(a, b, i), LessAt(b, c, k)
  PROVE  \E m \in Nat : LessAt(a, c, m)
<1>1. /\ Len(a) \in Nat /\ Len(b) \in Nat /\ Len(c) \in Nat
      /\ \A j \in 1..Len(a) : a[j] \in Nat
      /\ \A j \in 1..Len(b) : b[j] \in Nat
      /\ \A j \in 1..Len(c) : c[j] \in Nat
  BY TextType
<1>2. CASE i < k
  <2>1. i \in 1..Len(c) /\ i \in 1..k - 1 /\ b[i] = c[i]
    BY <1>1, <1>2 DEF LessAt
  <2>2. \A j \in 1..i - 1 : j \in 1..Len(a) /\ a[j] = c[j]
    BY <1>1, <1>2 DEF LessAt
  <2> QED
    BY <2>1, <2>2 DEF LessAt
<1>3. CASE k < i
  <2>1. k \in 1..Len(c) /\ k \in 1..Len(a) /\ a[k] = b[k] /\ k \in 1..Len(b)
    BY <1>1, <1>3 DEF LessAt
  <2>2. \A j \in 1..k - 1 : j \in 1..Len(a) /\ a[j] = c[j]
    BY <1>1, <1>3 DEF LessAt
  <2> QED
    BY <2>1, <2>2 DEF LessAt
<1>4. CASE i = k
  <2>1. k \in 1..Len(c) /\ k \in 1..Len(b) /\ b[k] < c[k]
    BY <1>4 DEF LessAt
  <2>2. \A j \in 1..k - 1 : j \in 1..Len(a) /\ a[j] = c[j]
    BY <1>4 DEF LessAt
  <2>3. k \in 1..Len(a) => a[k] < c[k]
    BY <1>1, <1>4, <2>1 DEF LessAt
  <2> QED
    BY <2>1, <2>2, <2>3 DEF LessAt
<1> QED
  BY <1>2, <1>3, <1>4

LEMMA LessIsTotal ==
  ASSUME NEW a \in Text, NEW b \in Text
  PROVE  a = b \/ \E i \in Nat : LessAt(a, b, i) \/ LessAt(b, a, i)
<1>1. /\ Len(a) \in Nat /\ Len(b) \in Nat
      /\ \A j \in 1..Len(a) : a[j] \in Nat
      /\ \A j \in 1..Len(b) : b[j] \in Nat
  BY TextType
<1> DEFINE Agree(j) == j \in 1..Len(a) /\ j \in 1..Len(b) /\ a[j] = b[j]
           Differ == {j \in Nat : j >= 1 /\ ~Agree(j)}
<1>2. Differ # {}
  <2>1. Len(a) + 1 \in Differ
    BY <1>1
  <2> QED
    BY <2>1
<1>3. PICK i \in Differ : \A j \in Differ : i <= j
  <2>1. Differ \subseteq Nat
    OBVIOUS
  <2> HIDE DEF Differ
  <2> QED
    BY <1>2, <2>1, LeastNumber
<1>4. \A j \in 1..i - 1 : Agree(j)
  BY <1>3
<1>5. i \in Nat /\ i >= 1
  OBVIOUS
<1>6. CASE i \in 1..Len(a) /\ i \in 1..Len(b)
  <2>1. a[i] < b[i] \/ b[i] < a[i]
    BY <1>1, <1>6
  <2>2. LessAt(a, b, i) \/ LessAt(b, a, i)
    BY <1>4, <1>6, <2>1 DEF LessAt
  <2> QED
    BY <1>5, <2>2
<1>7. CASE i \notin 1..Len(a) /\ i \in 1..Len(b)
  BY <1>4, <1>5, <1>7 DEF LessAt
<1>8. CASE i \in 1..Len(a) /\ i \notin 1..Len(b)
  BY <1>4, <1>5, <1>8 DEF LessAt
<1>9. CASE i \notin 1..Len(a) /\ i \notin 1..Len(b)
  <2>1. i - 1 = 0 \/ Agree(i - 1)
    BY <1>4, <1>5
  <2>2. Len(a) = i - 1 /\ Len(b) = i - 1
    BY <1>1, <1>5, <1>9, <2>1
  <2>3. \A j \in 1..Len(a) : a[j] = b[j]
    BY <1>4, <2>2
  <2> QED
    BY <2>2, <2>3, SeqEqual DEF Text
<1> QED
  BY <1>6, <1>7, <1>8, <1>9

LEMMA IdOrderIsStrict ==
  ASSUME NEW S, \A x \in S : x.id \in Text,
         \A x, y \in S : x.id = y.id => x = y
  PROVE  StrictOrder(IdOrder(S), S)
<1>1. \A x, y \in S : <<x, y>> \in IdOrder(S) <=> \E i \in Nat : LessAt(x.id, y.id, i)
  <2> SUFFICES ASSUME NEW x \in S, NEW y \in S
               PROVE  <<x, y>> \in IdOrder(S) <=> \E i \in Nat : LessAt(x.id, y.id, i)
    OBVIOUS
  <2>1. <<x, y>> \in IdOrder(S) <=> IdIsLess(x, y)
    BY DEF IdOrder
  <2> QED
    BY <2>1, IdIsLessAt
<1>2. ASSUME NEW x \in S PROVE <<x, x>> \notin IdOrder(S)
  <2>1. /\ Len(x.id) \in Nat
        /\ \A j \in 1..Len(x.id) : x.id[j] \in Nat
    BY TextType
  <2>2. \A i \in Nat : ~LessAt(x.id, x.id, i)
    BY <2>1 DEF LessAt
  <2> QED
    BY <1>1, <2>2
<1>3. ASSUME NEW x \in S, NEW y \in S, NEW z \in S,
             <<x, y>> \in IdOrder(S), <<y, z>> \in IdOrder(S)
      PROVE  <<x, z>> \in IdOrder(S)
  <2>1. PICK i \in Nat : LessAt(x.id, y.id, i)
    BY <1>1, <1>3
  <2>2. PICK k \in Nat : LessAt(y.id, z.id, k)
    BY <1>1, <1>3
  <2>3. \E m \in Nat : LessAt(x.id, z.id, m)
    BY <2>1, <2>2, LessIsTransitive
  <2> QED
    BY <1>1, <2>3
<1>4. ASSUME NEW x \in S, NEW y \in S, x # y
      PROVE  <<x, y>> \in IdOrder(S) \/ <<y, x>> \in IdOrder(S)
  <2>1. x.id # y.id
    BY <1>4
  <2> QED
    BY <1>1, <2>1, LessIsTotal
<1> QED
  BY <1>2, <1>3, <1>4 DEF StrictOrder

-----------------------------------------------------------------------------
(* The records of the four sources.                                         *)

\* The records of four samples, in some order.
IsRecordSet(S) ==
  /\ \A r \in S : r.name \in Source
  /\ \A r, q \in S : r.name = q.name => r = q

LEMMA NameOrderIsStrict ==
  ASSUME NEW S, IsRecordSet(S)
  PROVE  StrictOrder(NameOrder(S), S)
<1>1. /\ DOMAIN SourceNames = 1..4 /\ SourceNames[1] = "btc" /\ SourceNames[2] = "drand"
      /\ SourceNames[3] = "nws" /\ SourceNames[4] = "usgs"
  BY DEF SourceNames
<1>2. \A name \in Source : Rank[name] \in 1..4 /\ SourceNames[Rank[name]] = name
  <2> SUFFICES ASSUME NEW name \in Source
               PROVE  Rank[name] \in 1..4 /\ SourceNames[Rank[name]] = name
    OBVIOUS
  <2>1. \E k \in DOMAIN SourceNames : SourceNames[k] = name
    BY DEF Source, ToSet
  <2>2. Rank[name] = CHOOSE k \in DOMAIN SourceNames : SourceNames[k] = name
    BY DEF Rank
  <2> QED
    BY <1>1, <2>1, <2>2
<1>3. \A r, q \in S : <<r, q>> \in NameOrder(S) <=> Rank[r.name] < Rank[q.name]
  BY DEF NameOrder
<1>4. \A r \in S : Rank[r.name] \in 1..4
  BY <1>2 DEF IsRecordSet
<1>5. \A r, q \in S : Rank[r.name] = Rank[q.name] => r = q
  BY <1>2 DEF IsRecordSet
<1> QED
  BY <1>3, <1>4, <1>5 DEF StrictOrder

LEMMA ByNameOfSet ==
  ASSUME NEW S, NEW s, NEW t, Lists(s, S), Lists(t, S), IsRecordSet(S)
  PROVE  /\ ByName(s) = ByName(t)
         /\ ByName(ByName(s)) = ByName(s)
<1>1. ToSet(s) = S /\ ToSet(t) = S
  BY ListLength DEF ToSet, Lists
<1>2. StrictOrder(NameOrder(S), S)
  BY NameOrderIsStrict
<1>3. ByName(s) = Sorted(s, NameOrder(S)) /\ ByName(t) = Sorted(t, NameOrder(S))
  BY <1>1 DEF ByName
<1>4. Lists(ByName(s), S)
  BY <1>2, <1>3, SortedLists
<1>5. ToSet(ByName(s)) = S
  BY <1>4, ListLength DEF ToSet, Lists
<1>6. ByName(ByName(s)) = Sorted(ByName(s), NameOrder(S))
  BY <1>5 DEF ByName
<1> QED
  BY <1>2, <1>3, <1>4, <1>6, SortedIsUnique

-----------------------------------------------------------------------------
(* Stored numbers.                                                          *)

LEMMA RoundedIsNearest ==
  ASSUME NEW v \in Int
  PROVE  Rounded(v) \in Int /\ 2 * Rounded(v) - v \in -1..1
<1>1. CASE v >= 0
  <2>1. Rounded(v) = (v + 1) \div 2
    BY <1>1 DEF Rounded
  <2> QED
    BY <2>1
<1>2. CASE v < 0
  <2>1. Rounded(v) = -((1 - v) \div 2)
    BY <1>2 DEF Rounded
  <2>2. (1 - v) \div 2 \in Int /\ 2 * ((1 - v) \div 2) - (1 - v) \in -1..0
    OBVIOUS
  <2> QED
    BY <2>1, <2>2
<1> QED
  BY <1>1, <1>2

LEMMA StoredMeasurement ==
  ASSUME NEW v \in Measurement, NEW half \in Nat \ {0, 1}
  PROVE  float_to_fixed(v, half) \in Int /\ Stored(v, half)
<1> DEFINE r == Rounded(v)
           f == float_to_fixed(v, half)
<1>1. CASE v = Null
  <2>1. f = -half
    BY <1>1 DEF float_to_fixed, MinInt
  <2> QED
    BY <1>1, <2>1 DEF Stored, MinInt
<1>2. CASE v # Null
  <2>1. v \in Int
    BY <1>2 DEF Measurement
  <2>2. r \in Int /\ 2 * r - v \in -1..1
    BY <2>1, RoundedIsNearest
  <2>3. CASE r >= half - 1
    <3>1. f = half - 1
      <4>1. ~(r <= -half + 1)
        BY <2>2, <2>3
      <4> QED
        BY <1>2, <2>3, <4>1 DEF float_to_fixed, MinInt, MaxInt
    <3> HIDE DEF f, r
    <3>2. /\ f \in -half + 1..half - 1
          /\ 2 * f - v \in -1..1 \/ v > 2 * f
      BY <2>1, <2>2, <2>3, <3>1
    <3> QED
      BY <1>2, <3>1, <3>2 DEF Stored, MinInt, MaxInt, f
  <2>4. CASE r < half - 1 /\ r <= -half + 1
    <3>1. f = -half + 1
      <4>1. ~(r >= half - 1)
        BY <2>2, <2>4
      <4> QED
        BY <1>2, <2>4, <4>1 DEF float_to_fixed, MinInt, MaxInt
    <3> HIDE DEF f, r
    <3>2. /\ f \in -half + 1..half - 1
          /\ 2 * f - v \in -1..1 \/ v < 2 * f
      BY <2>1, <2>2, <2>4, <3>1
    <3> QED
      BY <1>2, <3>1, <3>2 DEF Stored, MinInt, MaxInt, f
  <2>5. CASE r < half - 1 /\ r > -half + 1
    <3>1. f = r
      <4>1. ~(r >= half - 1) /\ ~(r <= -half + 1)
        BY <2>2, <2>5
      <4> QED
        BY <1>2, <4>1 DEF float_to_fixed, MinInt, MaxInt
    <3> HIDE DEF f, r
    <3>2. f \in -half + 1..half - 1 /\ 2 * f - v \in -1..1
      BY <2>1, <2>2, <2>5, <3>1
    <3> QED
      BY <1>2, <3>2 DEF Stored, MinInt, MaxInt, f
  <2> QED
    BY <2>2, <2>3, <2>4, <2>5
<1> QED
  BY <1>1, <1>2

-----------------------------------------------------------------------------
(* Bytes that are read back.                                                *)

\* FlattenSeq appends one sequence after another.
Appends(p, seqs) ==
  p = [k \in 1..Len(seqs) |-> IF k = 1 THEN seqs[k] ELSE p[k - 1] \o seqs[k]]

LEMMA Flattening ==
  ASSUME NEW seqs, Len(seqs) \in Nat \ {0}
  PROVE  \E p : Appends(p, seqs) /\ FlattenSeq(seqs) = p[Len(seqs)]
<1> DEFINE Is(g, m) ==
             \A k \in 1..m : g[k] = IF k = 1 THEN seqs[k] ELSE g[k - 1] \o seqs[k]
           n == Len(seqs)
           Good == {m \in 0..n : \E g : Is(g, m)}
<1> HIDE DEF Is, n
<1>0. n \in Nat /\ n # 0
  BY DEF n
<1>1. 0 \in Good
  BY <1>0 DEF Is
<1>2. ASSUME NEW m \in 1..n, m - 1 \in Good PROVE m \in Good
  <2>1. PICK g : Is(g, m - 1)
    BY <1>2
  <2> DEFINE h == [k \in 1..m |-> IF k < m THEN g[k]
                     ELSE IF m = 1 THEN seqs[m] ELSE g[m - 1] \o seqs[m]]
  <2>2. Is(h, m)
    <3> SUFFICES ASSUME NEW k \in 1..m
                 PROVE  h[k] = IF k = 1 THEN seqs[k] ELSE h[k - 1] \o seqs[k]
      BY DEF Is
    <3>0. m \in Nat /\ k \in Nat
      BY <1>0
    <3>1. CASE k < m
      <4>1. k \in 1..(m - 1) /\ h[k] = g[k]
        BY <3>0, <3>1
      <4>2. k # 1 => k - 1 \in 1..m /\ k - 1 < m /\ h[k - 1] = g[k - 1]
        BY <3>0, <3>1
      <4> QED
        BY <4>1, <4>2, <2>1 DEF Is
    <3>2. CASE k = m
      <4>1. h[m] = IF m = 1 THEN seqs[m] ELSE g[m - 1] \o seqs[m]
        BY <3>0
      <4>2. m # 1 => h[m - 1] = g[m - 1]
        BY <3>0
      <4> HIDE DEF h
      <4> QED
        BY <3>2, <4>1, <4>2
    <3> QED
      BY <3>0, <3>1, <3>2
  <2> HIDE DEF h
  <2>3. m \in 0..n
    BY <1>0
  <2> QED
    BY <2>2, <2>3
<1>3. PICK g : Is(g, n)
  <2>1. n \in 0..n
    BY <1>0
  <2> HIDE DEF Good
  <2>2. n \in Good
    BY <1>0, <1>1, <1>2, <2>1, InductionUpTo
  <2> QED
    BY <2>2 DEF Good
<1> DEFINE f == [k \in 1..n |-> g[k]]
<1>4. Appends(f, seqs)
  <2>1. ASSUME NEW k \in 1..n
        PROVE  f[k] = IF k = 1 THEN seqs[k] ELSE f[k - 1] \o seqs[k]
    <3>1. g[k] = IF k = 1 THEN seqs[k] ELSE g[k - 1] \o seqs[k]
      BY <1>3 DEF Is
    <3>2. k # 1 => k - 1 \in 1..n
      BY <1>0
    <3> QED
      BY <3>1, <3>2
  <2>2. f = [k \in 1..n |-> IF k = 1 THEN seqs[k] ELSE f[k - 1] \o seqs[k]]
    BY <2>1
  <2> HIDE DEF f
  <2> QED
    BY <2>2 DEF Appends, n
<1> DEFINE p == CHOOSE q : Appends(q, seqs)
<1> HIDE DEF f
<1>5. Appends(p, seqs)
  BY <1>4, Zenon
<1>6. FlattenSeq(seqs) = p[Len(seqs)]
  BY <1>0, Zenon DEF FlattenSeq, Appends, n
<1> QED
  BY <1>5, <1>6

LEMMA AppendStep ==
  ASSUME NEW n \in Nat, NEW seqs, Len(seqs) = n, NEW p, Appends(p, seqs),
         NEW k \in 1..n
  PROVE  p[k] = IF k = 1 THEN seqs[k] ELSE p[k - 1] \o seqs[k]
<1>1. p = [l \in 1..n |-> IF l = 1 THEN seqs[l] ELSE p[l - 1] \o seqs[l]]
  BY DEF Appends
<1> QED
  BY <1>1

LEMMA AppendType ==
  ASSUME NEW S, NEW n \in Nat, NEW seqs, Len(seqs) = n, NEW p, Appends(p, seqs),
         \A k \in 1..n : seqs[k] \in Seq(S)
  PROVE  \A k \in 1..n : p[k] \in Seq(S)
<1> DEFINE Good == {k \in 0..n : k >= 1 => p[k] \in Seq(S)}
<1>1. 0 \in Good
  OBVIOUS
<1>2. ASSUME NEW k \in 1..n, k - 1 \in Good PROVE k \in Good
  <2>1. p[k] = IF k = 1 THEN seqs[k] ELSE p[k - 1] \o seqs[k]
    BY AppendStep
  <2>2. CASE k = 1
    BY <2>1, <2>2
  <2>3. CASE k # 1
    <3>1. p[k - 1] \in Seq(S) /\ seqs[k] \in Seq(S)
      BY <1>2, <2>3
    <3>2. p[k] \in Seq(S)
      BY <2>1, <2>3, <3>1, ConcatProperties
    <3> QED
      BY <3>2
  <2> QED
    BY <2>2, <2>3
<1> HIDE DEF Good
<1>3. \A k \in 0..n : k \in Good
  BY <1>1, <1>2, InductionUpTo
<1> QED
  BY <1>3 DEF Good

\* What is written first stays at the beginning.
Begins(t, s) == \A j \in 1..Len(s) : t[j] = s[j]

LEMMA AppendBegins ==
  ASSUME NEW S, NEW n \in Nat, NEW seqs, Len(seqs) = n, NEW p, Appends(p, seqs),
         \A k \in 1..n : seqs[k] \in Seq(S), NEW k \in 1..n
  PROVE  Begins(p[n], p[k])
<1> DEFINE Long(m) == Len(p[k]) <= Len(p[m]) /\ Begins(p[m], p[k])
           Good == {m \in 0..n : m >= k => Long(m)}
<1>1. \A m \in 1..n : p[m] \in Seq(S) /\ Len(p[m]) \in Nat
  <2>1. \A m \in 1..n : p[m] \in Seq(S)
    BY AppendType
  <2> QED
    BY <2>1, LenProperties
<1>2. 0 \in Good
  OBVIOUS
<1>3. ASSUME NEW m \in 1..n, m - 1 \in Good PROVE m \in Good
  <2>1. CASE m < k
    BY <2>1
  <2>2. CASE m = k
    BY <1>1, <2>2 DEF Begins
  <2>3. CASE m > k
    <3>1. m - 1 \in 1..n /\ m - 1 >= k /\ m # 1
      BY <2>3
    <3>2. Long(m - 1)
      BY <1>3, <3>1
    <3>3. p[m] = p[m - 1] \o seqs[m]
      <4>1. p[m] = IF m = 1 THEN seqs[m] ELSE p[m - 1] \o seqs[m]
        BY AppendStep
      <4> QED
        BY <3>1, <4>1
    <3>4. p[m - 1] \in Seq(S) /\ seqs[m] \in Seq(S) /\ Len(seqs[m]) \in Nat
      BY <1>1, <3>1, LenProperties
    <3>5. /\ Len(p[m]) = Len(p[m - 1]) + Len(seqs[m])
          /\ \A j \in 1..Len(p[m - 1]) : p[m][j] = p[m - 1][j]
      <4>1. /\ Len(p[m]) = Len(p[m - 1]) + Len(seqs[m])
            /\ \A j \in 1..Len(p[m - 1]) + Len(seqs[m]) :
                 p[m][j] = IF j <= Len(p[m - 1]) THEN p[m - 1][j]
                           ELSE seqs[m][j - Len(p[m - 1])]
        BY <3>3, <3>4, ConcatProperties
      <4>2. Len(p[m - 1]) \in Nat
        BY <1>1, <3>1
      <4>3. \A j \in 1..Len(p[m - 1]) :
              j \in 1..Len(p[m - 1]) + Len(seqs[m]) /\ j <= Len(p[m - 1])
        BY <3>4, <4>2
      <4> QED
        BY <4>1, <4>3
    <3>6. Long(m)
      BY <1>1, <3>1, <3>2, <3>4, <3>5 DEF Begins
    <3> QED
      BY <3>6
  <2> QED
    BY <2>1, <2>2, <2>3
<1> HIDE DEF Good
<1>4. \A m \in 0..n : m \in Good
  BY <1>2, <1>3, InductionUpTo
<1> QED
  BY <1>4 DEF Good

LEMMA EventBytesAre ==
  ASSUME NEW ev \in Event
  PROVE  /\ EventBytes(ev) \in Seq(Int)
         /\ Len(EventBytes(ev)) = Len(ev.id) + 2
         /\ EventBytes(ev)[1] = Len(ev.id)
         /\ \A j \in 1..Len(ev.id) : EventBytes(ev)[j + 1] = ev.id[j]
         /\ EventBytes(ev)[Len(ev.id) + 2] = float_to_fixed(ev.mag, Wide)
<1> DEFINE s == ev.id
           f == float_to_fixed(ev.mag, Wide)
           n == Len(s)
           head == <<n>> \o s
           last == <<f>>
<1>1. s \in Seq(Int) /\ n \in Nat /\ s \in Text
  <2>1. s \in Text
    BY DEF Event
  <2> QED
    BY <2>1, LenProperties, SeqMonotonic DEF Text
<1>2. f \in Int
  BY StoredMeasurement, EntropyConstants DEF Event
<1> HIDE DEF s, f, n
<1>3. /\ <<n>> \in Seq(Int) /\ Len(<<n>>) = 1
      /\ last \in Seq(Int) /\ Len(last) = 1 /\ last[1] = f
  BY <1>1, <1>2
<1>4. Len(s) = n
  BY DEF n
<1>5. /\ head \in Seq(Int) /\ Len(head) = 1 + n
      /\ \A i \in 1..1 + n : head[i] = IF i <= 1 THEN <<n>>[i] ELSE s[i - 1]
  BY <1>1, <1>3, <1>4, ConcatProperties
<1> HIDE DEF head, last
<1> DEFINE E == head \o last
<1>6. /\ E \in Seq(Int) /\ Len(E) = Len(head) + Len(last)
      /\ \A i \in 1..Len(head) + Len(last) :
           E[i] = IF i <= Len(head) THEN head[i] ELSE last[i - Len(head)]
  BY <1>3, <1>5, ConcatProperties
<1>7. EventBytes(ev) = E
  BY DEF EventBytes, write_lp_str, head, last, s, n, f
<1> HIDE DEF E
<1>8. E[1] = n
  <2>1. E[1] = head[1] /\ head[1] = <<n>>[1]
    BY <1>1, <1>3, <1>5, <1>6
  <2> QED
    BY <2>1
<1>9. ASSUME NEW j \in 1..n PROVE E[j + 1] = s[j]
  <2>1. PICK i \in 1..1 + n : i = j + 1 /\ ~(i <= 1) /\ i - 1 = j
    BY <1>1
  <2>2. E[i] = head[i]
    BY <1>1, <1>3, <1>5, <1>6
  <2> QED
    BY <1>5, <2>1, <2>2
<1>10. E[n + 2] = f
  <2>1. PICK i \in 1..Len(head) + Len(last) :
          i = n + 2 /\ ~(i <= Len(head)) /\ i - Len(head) = 1
    BY <1>1, <1>3, <1>5
  <2> QED
    BY <1>3, <1>6, <2>1
<1>11. Len(E) = n + 2
  BY <1>1, <1>3, <1>5, <1>6
<1> QED
  BY <1>6, <1>7, <1>8, <1>9, <1>10, <1>11 DEF s, n, f

\* An event says what its length and bytes say.
Same(e, f) ==
  e.id = f.id /\ float_to_fixed(e.mag, Wide) = float_to_fixed(f.mag, Wide)

\* Two events that could be read at the same place are the same.
LEMMA OneEvent ==
  ASSUME NEW e \in Event, NEW f \in Event, NEW past \in Seq(Int), NEW t,
         Begins(t, past \o EventBytes(e)), Begins(t, past \o EventBytes(f))
  PROVE  Same(e, f) /\ EventBytes(e) = EventBytes(f)
<1> DEFINE a == e.id
           b == f.id
           l == Len(past)
           E == EventBytes(e)
           F == EventBytes(f)
<1>1. /\ a \in Text /\ Len(a) \in Nat /\ b \in Text /\ Len(b) \in Nat /\ l \in Nat
  BY TextType, LenProperties DEF Event
<1>2. /\ E \in Seq(Int) /\ Len(E) = Len(a) + 2 /\ E[1] = Len(a)
      /\ \A j \in 1..Len(a) : E[j + 1] = a[j]
      /\ E[Len(a) + 2] = float_to_fixed(e.mag, Wide)
  BY EventBytesAre
<1>3. /\ F \in Seq(Int) /\ Len(F) = Len(b) + 2 /\ F[1] = Len(b)
      /\ \A j \in 1..Len(b) : F[j + 1] = b[j]
      /\ F[Len(b) + 2] = float_to_fixed(f.mag, Wide)
  BY EventBytesAre
<1> HIDE DEF E, F, l, a, b
<1>4. ASSUME NEW s \in Seq(Int), Begins(t, past \o s)
      PROVE  \A i \in 1..Len(s) : t[l + i] = s[i]
  <2> SUFFICES ASSUME NEW i \in 1..Len(s) PROVE t[l + i] = s[i]
    OBVIOUS
  <2>1. /\ Len(past \o s) = l + Len(s)
        /\ \A j \in 1..l + Len(s) : (past \o s)[j] = IF j <= l THEN past[j] ELSE s[j - l]
    BY ConcatProperties DEF l
  <2>2. Len(s) \in Nat
    BY LenProperties
  <2>3. PICK j \in 1..l + Len(s) : j = l + i /\ ~(j <= l) /\ j - l = i
    BY <1>1, <2>2
  <2>4. t[j] = (past \o s)[j] /\ (past \o s)[j] = s[j - l]
    BY <1>4, <2>1, <2>3 DEF Begins
  <2> QED
    BY <2>3, <2>4
<1>5. /\ \A i \in 1..Len(E) : t[l + i] = E[i]
      /\ \A i \in 1..Len(F) : t[l + i] = F[i]
  BY <1>2, <1>3, <1>4 DEF E, F
<1>6. Len(a) = Len(b)
  <2>1. 1 \in 1..Len(E) /\ 1 \in 1..Len(F)
    BY <1>1, <1>2, <1>3
  <2> QED
    BY <1>2, <1>3, <1>5, <2>1
<1>7. \A i \in 1..Len(a) + 2 : E[i] = F[i]
  BY <1>2, <1>3, <1>5, <1>6
<1>8. \A j \in 1..Len(a) : a[j] = b[j]
  <2>1. \A j \in 1..Len(a) : j + 1 \in 1..Len(a) + 2
    BY <1>1
  <2> QED
    BY <1>2, <1>3, <1>6, <1>7, <2>1
<1>9. a = b
  BY <1>1, <1>6, <1>8, SeqEqual DEF Text
<1>10. float_to_fixed(e.mag, Wide) = float_to_fixed(f.mag, Wide)
  <2>1. Len(a) + 2 \in 1..Len(a) + 2
    BY <1>1
  <2> QED
    BY <1>2, <1>3, <1>6, <1>7, <2>1
<1>11. E = F
  BY <1>2, <1>3, <1>6, <1>7, SeqEqual
<1> QED
  BY <1>9, <1>10, <1>11 DEF Same, E, F, a, b

Written(events) == FlattenSeq([i \in DOMAIN events |-> EventBytes(events[i])])

\* As many events can be read from their bytes in one way only.
LEMMA EventsAreReadBack ==
  ASSUME NEW n \in Nat, NEW a \in [1..n -> Event], NEW b \in [1..n -> Event],
         Written(a) = Written(b)
  PROVE  \A i \in 1..n : Same(a[i], b[i])
<1> SUFFICES ASSUME n # 0 PROVE \A i \in 1..n : Same(a[i], b[i])
  OBVIOUS
<1> DEFINE es == [i \in DOMAIN a |-> EventBytes(a[i])]
           fs == [i \in DOMAIN b |-> EventBytes(b[i])]
<1>1. \A k \in 1..n : /\ es[k] = EventBytes(a[k]) /\ es[k] \in Seq(Int) /\ a[k] \in Event
                      /\ fs[k] = EventBytes(b[k]) /\ fs[k] \in Seq(Int) /\ b[k] \in Event
  BY EventBytesAre
<1>2. Len(es) = n /\ Len(fs) = n
  <2>1. es \in Seq(Seq(Int)) /\ fs \in Seq(Seq(Int))
    <3>1. es \in [1..n -> Seq(Int)] /\ fs \in [1..n -> Seq(Int)]
      BY <1>1
    <3>2. Seq(Seq(Int)) = UNION {[1..m -> Seq(Int)] : m \in Nat}
      BY SeqDef
    <3> HIDE DEF es, fs
    <3> QED
      BY <3>1, <3>2
  <2>2. DOMAIN es = 1..n /\ DOMAIN fs = 1..n
    OBVIOUS
  <2> HIDE DEF es, fs
  <2> QED
    BY <2>1, <2>2, LenProperties
<1>3. FlattenSeq(es) = FlattenSeq(fs)
  BY DEF Written
<1> HIDE DEF es, fs
<1>4. PICK v : Appends(v, es) /\ FlattenSeq(es) = v[n]
  BY <1>2, Flattening
<1>5. PICK w : Appends(w, fs) /\ FlattenSeq(fs) = w[n]
  BY <1>2, Flattening
<1>6. \A k \in 1..n : v[k] \in Seq(Int) /\ w[k] \in Seq(Int)
  BY <1>1, <1>2, <1>4, <1>5, AppendType
<1>7. \A k \in 1..n : Begins(v[n], v[k]) /\ Begins(v[n], w[k])
  <2>1. \A k \in 1..n : Begins(v[n], v[k])
    BY <1>1, <1>2, <1>4, AppendBegins
  <2>2. \A k \in 1..n : Begins(w[n], w[k])
    BY <1>1, <1>2, <1>5, AppendBegins
  <2> QED
    BY <1>3, <1>4, <1>5, <2>1, <2>2
<1> DEFINE Good == {k \in 0..n : k >= 1 => v[k] = w[k] /\ Same(a[k], b[k])}
<1>8. 0 \in Good
  OBVIOUS
<1>9. ASSUME NEW k \in 1..n, k - 1 \in Good PROVE k \in Good
  <2>1. /\ v[k] = IF k = 1 THEN es[k] ELSE v[k - 1] \o es[k]
        /\ w[k] = IF k = 1 THEN fs[k] ELSE w[k - 1] \o fs[k]
    <3>1. v = [m \in 1..n |-> IF m = 1 THEN es[m] ELSE v[m - 1] \o es[m]]
      BY <1>2, <1>4 DEF Appends
    <3>2. w = [m \in 1..n |-> IF m = 1 THEN fs[m] ELSE w[m - 1] \o fs[m]]
      BY <1>2, <1>5 DEF Appends
    <3>3. v[k] = IF k = 1 THEN es[k] ELSE v[k - 1] \o es[k]
      BY <3>1
    <3>4. w[k] = IF k = 1 THEN fs[k] ELSE w[k - 1] \o fs[k]
      BY <3>2
    <3> QED
      BY <3>3, <3>4
  <2> DEFINE past == IF k = 1 THEN <<>> ELSE v[k - 1]
  <2>2. past \in Seq(Int) /\ v[k] = past \o es[k] /\ w[k] = past \o fs[k]
    <3>1. CASE k = 1
      <4>1. past = <<>> /\ v[k] = es[k] /\ w[k] = fs[k]
        BY <2>1, <3>1
      <4>2. <<>> \in Seq(Int) /\ <<>> \o es[k] = es[k] /\ <<>> \o fs[k] = fs[k]
        BY <1>1, EmptySeq, ConcatEmptySeq
      <4> QED
        BY <4>1, <4>2
    <3>2. CASE k # 1
      <4>1. k - 1 \in 1..n /\ v[k - 1] = w[k - 1]
        BY <1>9, <3>2
      <4> QED
        BY <1>6, <2>1, <3>2, <4>1
    <3> QED
      BY <3>1, <3>2
  <2> HIDE DEF past
  <2>3. Same(a[k], b[k]) /\ es[k] = fs[k]
    <3>1. /\ Begins(v[n], past \o EventBytes(a[k]))
          /\ Begins(v[n], past \o EventBytes(b[k]))
      BY <1>1, <1>7, <2>2
    <3> QED
      BY <1>1, <2>2, <3>1, OneEvent
  <2>4. v[k] = w[k]
    BY <2>2, <2>3
  <2> QED
    BY <2>3, <2>4
<1> HIDE DEF Good
<1>10. \A k \in 0..n : k \in Good
  BY <1>8, <1>9, InductionUpTo
<1> QED
  BY <1>10 DEF Good

\* Two byte strings that begin with as many bytes are equal part by part.
LEMMA SameLengthPrefix ==
  ASSUME NEW S, NEW h \in Seq(S), NEW g \in Seq(S), NEW u \in Seq(S), NEW v \in Seq(S),
         Len(h) = Len(g), h \o u = g \o v
  PROVE  h = g /\ u = v
<1>1. /\ Len(h) \in Nat /\ Len(g) \in Nat /\ Len(u) \in Nat /\ Len(v) \in Nat
  BY LenProperties
<1>2. /\ Len(h \o u) = Len(h) + Len(u)
      /\ \A i \in 1..Len(h) + Len(u) :
           (h \o u)[i] = IF i <= Len(h) THEN h[i] ELSE u[i - Len(h)]
  BY ConcatProperties
<1>3. /\ Len(g \o v) = Len(g) + Len(v)
      /\ \A i \in 1..Len(g) + Len(v) :
           (g \o v)[i] = IF i <= Len(g) THEN g[i] ELSE v[i - Len(g)]
  BY ConcatProperties
<1>4. Len(u) = Len(v)
  BY <1>1, <1>2, <1>3
<1>5. \A i \in 1..Len(h) : h[i] = g[i]
  BY <1>1, <1>2, <1>3, <1>4
<1>6. h = g
  BY <1>5, SeqEqual
<1>7. ASSUME NEW i \in 1..Len(u) PROVE u[i] = v[i]
  <2>1. PICK j \in 1..Len(h) + Len(u) : j = Len(h) + i /\ ~(j <= Len(h)) /\ j - Len(h) = i
    BY <1>1
  <2> QED
    BY <1>2, <1>3, <1>4, <1>6, <2>1
<1> QED
  BY <1>4, <1>6, <1>7, SeqEqual

LEMMA WrittenType ==
  ASSUME NEW n \in Nat, NEW a \in [1..n -> Event]
  PROVE  Written(a) \in Seq(Int)
<1> DEFINE es == [i \in DOMAIN a |-> EventBytes(a[i])]
<1>1. es \in [1..n -> Seq(Int)]
  BY EventBytesAre
<1>2. es \in Seq(Seq(Int)) /\ DOMAIN es = 1..n
  <2>1. Seq(Seq(Int)) = UNION {[1..m -> Seq(Int)] : m \in Nat}
    BY SeqDef
  <2> HIDE DEF es
  <2> QED
    BY <1>1, <2>1
<1>3. Len(es) = n /\ \A k \in 1..n : es[k] \in Seq(Int)
  <2> HIDE DEF es
  <2> QED
    BY <1>1, <1>2, LenProperties
<1>4. Written(a) = FlattenSeq(es)
  BY DEF Written
<1> HIDE DEF es
<1>5. CASE n = 0
  <2>1. FlattenSeq(es) = es /\ es = <<>>
    BY <1>2, <1>3, <1>5, EmptySeq DEF FlattenSeq
  <2> QED
    BY <1>4, <2>1, EmptySeq
<1>6. CASE n # 0
  <2>1. PICK p : Appends(p, es) /\ FlattenSeq(es) = p[n]
    BY <1>3, <1>6, Flattening
  <2>2. \A k \in 1..n : p[k] \in Seq(Int)
    BY <1>3, <2>1, AppendType
  <2> QED
    BY <1>4, <1>6, <2>1, <2>2
<1> QED
  BY <1>5, <1>6

LEMMA HeaderIsReadBack ==
  ASSUME NEW n \in Nat, NEW m \in Nat, NEW u \in Seq(Int), NEW v \in Seq(Int),
         <<"usgs", n>> \o u = <<"usgs", m>> \o v
  PROVE  n = m /\ u = v
<1> DEFINE S == Int \cup {"usgs"}
           h == <<"usgs", n>>
           g == <<"usgs", m>>
<1>1. h \in Seq(S) /\ Len(h) = 2 /\ g \in Seq(S) /\ Len(g) = 2
  OBVIOUS
<1>2. u \in Seq(S) /\ v \in Seq(S)
  BY SeqMonotonic
<1>3. h = g /\ u = v
  <2>1. h \o u = g \o v /\ Len(h) = Len(g)
    BY <1>1
  <2> HIDE DEF S, h, g
  <2> QED
    BY <1>1, <1>2, <2>1, SameLengthPrefix, Zenon
<1> QED
  BY <1>3

\* A sequence of every element of S once, as SetToSeqs makes them, lists S.
LEMMA ArrangementLists ==
  ASSUME NEW S, IsFiniteSet(S), NEW f \in SetToSeqs(S)
  PROVE  Lists(f, S)
<1> DEFINE n == Cardinality(S)
<1>1. n \in Nat /\ f \in [1..n -> S] /\ \A i, j \in 1..n : f[i] = f[j] => i = j
  BY FS_CardinalityType DEF SetToSeqs
<1> HIDE DEF n
<1>2. f \in Seq(S)
  BY <1>1, SeqDef
<1>3. f \in Injection(1..n, S)
  BY <1>1 DEF Injection, IsInjective
<1>4. f \in Surjection(1..n, S)
  <2>1. Cardinality(1..n) = Cardinality(S)
    BY <1>1, FS_Interval DEF n
  <2> QED
    BY <1>3, <2>1, FS_Injection
<1> QED
  BY <1>1, <1>2, <1>4 DEF Lists, Surjection

LEMMA FeedLists ==
  ASSUME NEW feed \in Data["usgs"]
  PROVE  /\ Lists(feed, ToSet(feed))
         /\ StrictOrder(IdOrder(ToSet(feed)), ToSet(feed))
         /\ ToSet(feed) \subseteq Event
<1>1. /\ feed \in Seq(Event)
      /\ \A i, j \in DOMAIN feed : feed[i].id = feed[j].id => i = j
  BY DataIsTyped
<1>2. Len(feed) \in Nat /\ DOMAIN feed = 1..Len(feed)
      /\ \A i \in DOMAIN feed : feed[i] \in Event
  BY <1>1, LenProperties
<1>3. Lists(feed, ToSet(feed))
  <2>1. feed \in [1..Len(feed) -> ToSet(feed)]
    BY <1>1, <1>2, LenProperties DEF ToSet
  <2>2. feed \in Seq(ToSet(feed))
    BY <1>2, <2>1, SeqDef
  <2> QED
    BY <1>1, <2>2 DEF Lists, ToSet
<1>4. \A x \in ToSet(feed) : x \in Event /\ x.id \in Text
  BY <1>2 DEF ToSet, Event
<1>5. \A x, y \in ToSet(feed) : x.id = y.id => x = y
  BY <1>1 DEF ToSet
<1> QED
  BY <1>3, <1>4, <1>5, IdOrderIsStrict

\* The order in which the server lists the events has no part in the bytes.
LEMMA ServerOrderIsImmaterial ==
  ASSUME NEW feed \in Data["usgs"], NEW f \in SetToSeqs(ToSet(feed))
  PROVE  CanonicalUsgs(f) = CanonicalUsgs(feed)
<1> DEFINE S == ToSet(feed)
<1>1. Lists(feed, S) /\ StrictOrder(IdOrder(S), S)
  BY FeedLists
<1>2. Lists(f, S)
  BY <1>1, ListLength, ArrangementLists
<1>3. ToSet(f) = S
  BY <1>2, ListLength DEF ToSet, Lists
<1>4. Sorted(f, IdOrder(S)) = Sorted(feed, IdOrder(S))
  BY <1>1, <1>2, SortedIsUnique
<1> QED
  BY <1>3, <1>4 DEF CanonicalUsgs

\* The bytes of two feeds are the same only if their events are.
LEMMA UsgsBytesBind ==
  ASSUME NEW feed \in Data["usgs"], NEW other \in Data["usgs"],
         CanonicalUsgs(feed) = CanonicalUsgs(other)
  PROVE  EventsSay(feed) = EventsSay(other)
<1> DEFINE a == Sorted(feed, IdOrder(ToSet(feed)))
           b == Sorted(other, IdOrder(ToSet(other)))
<1>1. Lists(a, ToSet(feed)) /\ Lists(b, ToSet(other))
  BY FeedLists, SortedLists
<1>2. ToSet(feed) \subseteq Event /\ ToSet(other) \subseteq Event
  BY FeedLists
<1>3. CanonicalUsgs(feed) = <<"usgs", Len(a)>> \o Written(a)
      /\ CanonicalUsgs(other) = <<"usgs", Len(b)>> \o Written(b)
  BY DEF CanonicalUsgs, Written
<1> HIDE DEF a, b
<1>4. /\ Len(a) \in Nat /\ DOMAIN a = 1..Len(a) /\ a \in [1..Len(a) -> Event]
      /\ Len(b) \in Nat /\ DOMAIN b = 1..Len(b) /\ b \in [1..Len(b) -> Event]
  <2>1. /\ Len(a) \in Nat /\ DOMAIN a = 1..Len(a) /\ a \in [1..Len(a) -> ToSet(feed)]
    BY <1>1, ListLength
  <2>2. /\ Len(b) \in Nat /\ DOMAIN b = 1..Len(b) /\ b \in [1..Len(b) -> ToSet(other)]
    BY <1>1, ListLength
  <2> QED
    BY <1>2, <2>1, <2>2
<1>5. Len(a) = Len(b) /\ Written(a) = Written(b)
  BY <1>3, <1>4, HeaderIsReadBack, WrittenType
<1>6. \A i \in 1..Len(a) : Same(a[i], b[i])
  BY <1>4, <1>5, EventsAreReadBack
<1>7. EventsSay(feed) = {<<a[i].id, float_to_fixed(a[i].mag, Wide)>> : i \in 1..Len(a)}
  <2>1. ToSet(feed) = {a[i] : i \in 1..Len(a)}
    BY <1>1, <1>4, ListLength DEF Lists
  <2> QED
    BY <2>1 DEF EventsSay
<1>8. EventsSay(other) = {<<b[i].id, float_to_fixed(b[i].mag, Wide)>> : i \in 1..Len(b)}
  <2>1. ToSet(other) = {b[i] : i \in 1..Len(b)}
    BY <1>1, <1>4, ListLength DEF Lists
  <2> QED
    BY <2>1 DEF EventsSay
<1> QED
  BY <1>5, <1>6, <1>7, <1>8 DEF Same

LEMMA DrandBytesBind ==
  ASSUME NEW round \in Data["drand"], NEW other \in Data["drand"],
         CanonicalDrand(round) = CanonicalDrand(other)
  PROVE  round = other
<1>1. /\ round \in [round : Nat, randomness : Nat, signature : Text]
      /\ other \in [round : Nat, randomness : Nat, signature : Text]
  BY DataIsTyped
<1> DEFINE s == round.signature
           t == other.signature
<1>2. s \in Text /\ t \in Text /\ s \in Seq(Int) /\ t \in Seq(Int)
      /\ Len(s) \in Nat /\ Len(t) \in Nat
  <2>1. s \in Text /\ t \in Text
    BY <1>1
  <2> QED
    BY <2>1, TextType, SeqMonotonic DEF Text
<1> HIDE DEF s, t
<1> DEFINE S == Int \cup {"drand"}
           h == <<"drand", round.round, round.randomness>>
           g == <<"drand", other.round, other.randomness>>
           u == <<Len(s)>> \o s
           v == <<Len(t)>> \o t
<1>3. h \in Seq(S) /\ Len(h) = 3 /\ g \in Seq(S) /\ Len(g) = 3
  BY <1>1
<1>4. h \o u = g \o v
  BY DEF CanonicalDrand, write_lp_str, s, t
<1>5. /\ <<Len(s)>> \in Seq(S) /\ s \in Seq(S) /\ <<Len(t)>> \in Seq(S) /\ t \in Seq(S)
      /\ u \in Seq(S) /\ v \in Seq(S)
  <2>1. <<Len(s)>> \in Seq(S) /\ <<Len(t)>> \in Seq(S)
    BY <1>2
  <2>2. s \in Seq(S) /\ t \in Seq(S)
    BY <1>2, SeqMonotonic
  <2> QED
    BY <2>1, <2>2, ConcatProperties
<1> HIDE DEF u, v
<1>6. h = g /\ u = v
  <2> HIDE DEF S, h, g
  <2> QED
    BY <1>3, <1>4, <1>5, SameLengthPrefix
<1>7. s = t
  <2>1. Len(<<Len(s)>>) = 1 /\ Len(<<Len(t)>>) = 1
    OBVIOUS
  <2> QED
    BY <1>5, <1>6, <2>1, SameLengthPrefix DEF u, v
<1>8. round.round = other.round /\ round.randomness = other.randomness
  BY <1>6
<1> QED
  BY <1>1, <1>7, <1>8 DEF s, t

-----------------------------------------------------------------------------
(* What is archived.                                                        *)

USE EntropyConstants DEF Endpoint, Answers

\* A bundle is built from data alone: once requests are over nothing is
\* waiting, and once canonicalize has accepted every sample nothing has failed.
BundleInv ==
  /\ \A e \in Endpoint : reply[e] \in Answers(e) \cup {Waiting}
  /\ DOMAIN reply = Endpoint
  /\ pc = "finalize" => \A e \in Endpoint : reply[e] # Waiting
  /\ pc \in {"rebuild", "write"} => \A e \in Endpoint : reply[e] \in Data[e]

\* Every endpoint is the payload, or a line of the payload, of one sample.
LEMMA AcceptedIsData ==
  ASSUME BundleInv, pc = "finalize",
         \A i \in DOMAIN RawSamples : ~Rejects(RawSamples[i])
  PROVE  \A e \in Endpoint : reply[e] \in Data[e]
<1>1. DOMAIN RawSamples = 1..4
  BY DEF RawSamples, SourceNames
<1>2. /\ RawSamples[1] = [source |-> "btc", payload |-> reply["btc"]]
      /\ RawSamples[2] = [source |-> "drand", payload |-> reply["drand"]]
      /\ RawSamples[3] = [source |-> "nws",
                          payload |-> [s \in Station |-> reply[s]]]
      /\ RawSamples[4] = [source |-> "usgs", payload |-> reply["usgs"]]
  BY DEF RawSamples, SourceNames, Payload
<1>3. \A s \in Station : reply[s] \notin Failures
  <2>1. ~Rejects(RawSamples[3])
    BY <1>1
  <2> QED
    BY <1>2, <2>1 DEF Rejects
<1>4. \A e \in {"btc", "drand", "usgs"} : reply[e] \notin Failures
  <2>1. ~Rejects(RawSamples[1]) /\ ~Rejects(RawSamples[2]) /\ ~Rejects(RawSamples[4])
    BY <1>1
  <2> QED
    BY <1>2, <2>1 DEF Rejects
<1>5. \A e \in Endpoint : reply[e] \in Answers(e)
  BY DEF BundleInv
<1> QED
  BY <1>3, <1>4, <1>5

\* No request has been answered when a build begins.
LEMMA BundleInit == EntropyInit => BundleInv
  BY DEF EntropyInit, BundleInv

\* Each step of a build keeps the invariant.
LEMMA BundleStep == BundleInv /\ [EntropyNext]_evars => BundleInv'
<1> SUFFICES ASSUME BundleInv, [EntropyNext]_evars PROVE BundleInv'
  OBVIOUS
<1>1. ASSUME NEW e \in Endpoint, Answer(e) PROVE BundleInv'
  <2>1. PICK a \in Answers(e) : reply' = [reply EXCEPT ![e] = a]
    BY <1>1 DEF Answer
  <2>2. \A f \in Endpoint : reply'[f] = IF f = e THEN a ELSE reply[f]
    BY <2>1 DEF BundleInv
  <2>3. pc = "fetch" /\ pc' = "fetch"
    BY <1>1 DEF Answer
  <2> QED
    BY <2>1, <2>2, <2>3 DEF BundleInv
<1>2. CASE FetchFails
  BY <1>2 DEF FetchFails, BundleInv
<1>3. CASE Gathered
  BY <1>3 DEF Gathered, BundleInv
<1>4. CASE CanonicalizeFails
  BY <1>4 DEF CanonicalizeFails, BundleInv
<1>5. CASE FinalizeBundle
  <2>1. \A e \in Endpoint : reply[e] \in Data[e]
    BY <1>5, AcceptedIsData DEF FinalizeBundle
  <2>2. reply' = reply /\ pc' \in {"write", "rebuild"}
    BY <1>5 DEF FinalizeBundle
  <2> QED
    BY <2>1, <2>2 DEF BundleInv
<1>6. CASE Rebuild
  <2>1. pc = "rebuild" /\ pc' = "write" /\ reply' = reply
    BY <1>6 DEF Rebuild
  <2> QED
    BY <2>1 DEF BundleInv
<1>7. CASE WriteFile
  <2>1. pc = "write" /\ pc' \in {"write", "done"} /\ reply' = reply
    BY <1>7 DEF WriteFile
  <2> QED
    BY <2>1 DEF BundleInv
<1>8. CASE WriteFails
  BY <1>8 DEF WriteFails, BundleInv
<1>9. CASE UNCHANGED evars
  BY <1>9 DEF evars, BundleInv
<1> QED
  BY <1>1, <1>2, <1>3, <1>4, <1>5, <1>6, <1>7, <1>8, <1>9 DEF EntropyNext

\* Only WriteFile and WriteFails touch the files.
LEMMA WritesFollowData ==
  BundleInv /\ [EntropyNext]_evars
    => [disk' # disk => \A e \in Endpoint : reply[e] \in Data[e]]_evars
<1> SUFFICES ASSUME BundleInv, EntropyNext, disk' # disk
             PROVE  \A e \in Endpoint : reply[e] \in Data[e]
  OBVIOUS
<1>1. WriteFile \/ WriteFails
  BY DEF EntropyNext, Answer, FetchFails, Gathered, CanonicalizeFails,
         FinalizeBundle, Rebuild
<1>2. pc = "write"
  BY <1>1 DEF WriteFile, WriteFails
<1> QED
  BY <1>2 DEF BundleInv

-----------------------------------------------------------------------------
(* What is on the disk.                                                     *)

Sources == Records(CanonicalSamples(RawSamples))

\* manifest.json, before and after it is written.
IsManifest(file) ==
  /\ file.epoch = Epoch
  /\ file.manifest_hash =
       manifest_hash(file.manifest_fetched_at_ms, CanonicalSamples(RawSamples))
  /\ file.seed = derive_seed(file.manifest_hash)
  /\ file.sources \in {Sources, ByName(Sources)}
  /\ tool = "run" => file.manifest_hash = bundle.manifest_hash

\* The bundle holds the answers, manifest.json is of the bundle, and the files
\* written so far are of this build, whatever the disk held before it.
FileInv ==
  /\ DOMAIN disk = ToSet(Files)
  /\ written \in 0..Len(Files)
  /\ pc = "done" => written = Len(Files)
  /\ pc = "rebuild" => tool # "run"
  /\ pc \in {"rebuild", "write", "done"} =>
       /\ bundle.raw_samples = RawSamples
       /\ bundle.canonical_samples = CanonicalSamples(RawSamples)
       /\ bundle.manifest_hash =
            manifest_hash(bundle.fetched_at_ms, CanonicalSamples(RawSamples))
  /\ pc \in {"fetch", "finalize", "rebuild"} => written = 0
  /\ pc \in {"write", "done"} =>
       /\ IsManifest(record)
       /\ \A i \in 1..written : disk[Files[i]] = Content(Files[i])

LEMMA FileNames ==
  /\ DOMAIN SourceNames = 1..4 /\ Len(SourceNames) = 4
  /\ SourceNames[1] = "btc" /\ SourceNames[2] = "drand"
  /\ SourceNames[3] = "nws" /\ SourceNames[4] = "usgs"
  /\ DOMAIN Files = 1..5 /\ Len(Files) = 5
  /\ \A i \in 1..4 : Files[i] = SourceNames[i] /\ SourceNames[i] # "manifest"
  /\ Files[5] = "manifest"
  /\ \A i \in 1..5 : Files[i] \in ToSet(Files)
  /\ \A i, j \in 1..5 : Files[i] = Files[j] => i = j
<1>1. /\ DOMAIN SourceNames = 1..4 /\ Len(SourceNames) = 4
      /\ SourceNames[1] = "btc" /\ SourceNames[2] = "drand"
      /\ SourceNames[3] = "nws" /\ SourceNames[4] = "usgs"
  BY DEF SourceNames
<1> DEFINE Name == {"btc", "drand", "nws", "usgs", "manifest"}
<1>2. SourceNames \in Seq(Name) /\ <<"manifest">> \in Seq(Name)
  <2>1. SourceNames \in Seq(Name)
    BY DEF SourceNames
  <2>2. <<"manifest">> \in Seq(Name)
    OBVIOUS
  <2> QED
    BY <2>1, <2>2
<1>3. DOMAIN Files = 1..5 /\ Len(Files) = 5
      /\ Files[1] = "btc" /\ Files[2] = "drand" /\ Files[3] = "nws"
      /\ Files[4] = "usgs" /\ Files[5] = "manifest"
  <2> DEFINE last == <<"manifest">>
  <2>0. Len(last) = 1 /\ last[1] = "manifest" /\ last \in Seq(Name)
    BY <1>2
  <2> HIDE DEF last, Name
  <2>1. /\ Files \in Seq(Name) /\ Len(Files) = Len(SourceNames) + Len(last)
        /\ \A i \in 1..Len(SourceNames) + Len(last) :
             Files[i] = IF i <= Len(SourceNames) THEN SourceNames[i]
                        ELSE last[i - Len(SourceNames)]
    BY <1>2, <2>0, ConcatProperties DEF Files, last
  <2>2. Files[5] = last[1]
    <3>1. PICK i \in 1..Len(SourceNames) + Len(last) :
            i = 5 /\ ~(i <= Len(SourceNames)) /\ i - Len(SourceNames) = 1
      BY <1>1, <2>0
    <3> QED
      BY <2>1, <3>1
  <2> QED
    BY <1>1, <2>0, <2>1, <2>2, LenProperties
<1>4. \A i \in 1..4 : Files[i] = SourceNames[i] /\ SourceNames[i] # "manifest"
  <2> SUFFICES ASSUME NEW i \in 1..4
               PROVE  Files[i] = SourceNames[i] /\ SourceNames[i] # "manifest"
    OBVIOUS
  <2>1. i = 1 \/ i = 2 \/ i = 3 \/ i = 4
    OBVIOUS
  <2> QED
    BY <1>1, <1>3, <2>1
<1>5. \A i \in 1..5 : Files[i] \in ToSet(Files)
  BY <1>3 DEF ToSet
<1>6. \A i, j \in 1..5 : Files[i] = Files[j] => i = j
  BY <1>3
<1> QED
  BY <1>1, <1>3, <1>4, <1>5, <1>6

LEMMA FileInit == EntropyInit => FileInv
<1> SUFFICES ASSUME EntropyInit PROVE FileInv
  OBVIOUS
<1>1. DOMAIN disk = ToSet(Files)
  BY DEF EntropyInit
<1>2. pc = "fetch" /\ written = 0 /\ 0 \in 0..Len(Files)
  BY FileNames DEF EntropyInit
<1> QED
  BY <1>1, <1>2 DEF FileInv

\* What is derived from the answers stays as long as they do.
LEMMA DerivedStays ==
  ASSUME UNCHANGED reply
  PROVE  RawSamples' = RawSamples /\ Sources' = Sources
<1>1. RawSamples' = RawSamples
  BY DEF RawSamples, Payload
<1> QED
  BY <1>1 DEF Sources

LEMMA FileStep == FileInv /\ [EntropyNext]_evars => FileInv'
<1> SUFFICES ASSUME FileInv, [EntropyNext]_evars PROVE FileInv'
  OBVIOUS
<1>1. ASSUME NEW e \in Endpoint, Answer(e) PROVE FileInv'
  BY <1>1 DEF Answer, FileInv
<1>2. CASE FetchFails
  BY <1>2 DEF FetchFails, FileInv
<1>3. CASE Gathered
  BY <1>3 DEF Gathered, FileInv
<1>4. CASE CanonicalizeFails
  BY <1>4 DEF CanonicalizeFails, FileInv
<1>5. CASE FinalizeBundle
  <2> DEFINE samples == CanonicalSamples(RawSamples)
  <2>1. PICK t \in Time :
          /\ bundle' = [raw_samples |-> RawSamples, fetched_at_ms |-> t,
                        canonical_samples |-> samples,
                        manifest_hash |-> manifest_hash(t, samples)]
          /\ record' = IF tool = "run"
                       THEN Record(t, manifest_hash(t, samples), Records(samples))
                       ELSE record
    BY <1>5 DEF FinalizeBundle
  <2>2. /\ UNCHANGED <<tool, reply, disk, written>> /\ written = 0
        /\ pc' = IF tool = "run" THEN "write" ELSE "rebuild"
    BY <1>5 DEF FinalizeBundle, FileInv
  <2>3. RawSamples' = RawSamples /\ Sources' = Sources
    BY <2>2, DerivedStays
  <2>4. /\ bundle'.raw_samples = RawSamples /\ bundle'.canonical_samples = samples
        /\ bundle'.manifest_hash = manifest_hash(bundle'.fetched_at_ms, samples)
        /\ bundle'.manifest_hash = manifest_hash(t, samples)
    BY <2>1
  <2>5. tool = "run" => IsManifest(record)'
    <3> SUFFICES ASSUME tool = "run" PROVE IsManifest(record)'
      OBVIOUS
    <3>1. /\ record'.epoch = Epoch /\ record'.manifest_fetched_at_ms = t
          /\ record'.manifest_hash = manifest_hash(t, samples)
          /\ record'.seed = derive_seed(manifest_hash(t, samples))
          /\ record'.sources = Sources
      BY <2>1 DEF Record, Sources
    <3> QED
      BY <2>3, <2>4, <3>1 DEF IsManifest
  <2>6. DOMAIN disk' = ToSet(Files) /\ written' \in 0..Len(Files)
    BY <2>2 DEF FileInv
  <2>7. \A i \in 1..written' : FALSE
    BY <2>2
  <2> HIDE DEF samples
  <2> QED
    BY <2>2, <2>3, <2>4, <2>5, <2>6, <2>7 DEF FileInv, samples
<1>6. CASE Rebuild
  <2> DEFINE samples == CanonicalSamples(RawSamples)
  <2>1. /\ pc = "rebuild" /\ pc' = "write" /\ tool # "run"
        /\ UNCHANGED <<tool, reply, bundle, disk, written>>
        /\ written = 0 /\ bundle.canonical_samples = samples
    BY <1>6 DEF Rebuild, FileInv
  <2>2. PICK t \in Time :
          record' = Record(RecordedTime(t),
                           Sha256(build_manifest_bytes(t, ByName(Records(samples)))),
                           ByName(Records(samples)))
    BY <1>6, <2>1 DEF Rebuild
  <2>3. RawSamples' = RawSamples /\ Sources' = Sources
    BY <2>1, DerivedStays
  <2>4. IsManifest(record)'
    <3>1. /\ record'.epoch = Epoch /\ record'.manifest_fetched_at_ms = t
          /\ record'.manifest_hash = manifest_hash(t, samples)
          /\ record'.seed = derive_seed(manifest_hash(t, samples))
          /\ record'.sources = ByName(Sources)
      BY <2>2 DEF Record, RecordedTime, build_manifest_bytes, manifest_hash, Sources
    <3> QED
      BY <2>1, <2>3, <3>1 DEF IsManifest
  <2>5. \A i \in 1..written' : FALSE
    BY <2>1
  <2> QED
    BY <2>1, <2>3, <2>4, <2>5 DEF FileInv
<1>7. CASE WriteFile
  <2> DEFINE k == written + 1
  <2>1. /\ pc = "write" /\ written < Len(Files) /\ written' = written + 1
        /\ disk' = [disk EXCEPT ![Files[k]] = Content(Files[k])]
        /\ pc' = IF written' = Len(Files) THEN "done" ELSE "write"
        /\ UNCHANGED <<tool, reply, bundle, record>>
    BY <1>7 DEF WriteFile
  <2>2. /\ DOMAIN disk = ToSet(Files) /\ written \in 0..5
        /\ \A i \in 1..written : disk[Files[i]] = Content(Files[i])
    BY <2>1, FileNames DEF FileInv
  <2>3. k \in 1..5 /\ written' = k
    BY <2>1, <2>2, FileNames
  <2>4. DOMAIN disk' = ToSet(Files) /\ Files[k] \in ToSet(Files)
    BY <2>1, <2>2, <2>3, FileNames
  <2>5. \A i \in 1..k : disk'[Files[i]] = Content(Files[i])
    <3> SUFFICES ASSUME NEW i \in 1..k PROVE disk'[Files[i]] = Content(Files[i])
      OBVIOUS
    <3>1. CASE i = k
      BY <2>1, <2>2, <2>4, <3>1
    <3>2. CASE i # k
      <4>1. i \in 1..written /\ i \in 1..5
        BY <2>2, <2>3, <3>2
      <4>2. Files[i] # Files[k] /\ Files[i] \in ToSet(Files)
        BY <2>3, <3>2, <4>1, FileNames
      <4> QED
        BY <2>1, <2>2, <4>1, <4>2
    <3> QED
      BY <3>1, <3>2
  <2>6. RawSamples' = RawSamples /\ Sources' = Sources
    BY <2>1, DerivedStays
  <2>7. \A i \in 1..k : Content(Files[i])' = Content(Files[i])
    BY <2>1 DEF Content, Payload
  <2>8. IsManifest(record)'
    BY <2>1, <2>6 DEF FileInv, IsManifest
  <2>9. pc' \in {"write", "done"} /\ (pc' = "done" => written' = Len(Files))
    BY <2>1
  <2>10. \A i \in 1..written' : (disk[Files[i]] = Content(Files[i]))'
    BY <2>3, <2>5, <2>7
  <2>11. written' \in 0..Len(Files)
    BY <2>3, FileNames
  <2> QED
    BY <2>1, <2>4, <2>6, <2>8, <2>9, <2>10, <2>11 DEF FileInv
<1>8. CASE WriteFails
  BY <1>8 DEF WriteFails, FileInv
<1>9. CASE UNCHANGED evars
  <2>1. RawSamples' = RawSamples /\ Sources' = Sources
    BY <1>9, DerivedStays DEF evars
  <2>2. \A f : Content(f)' = Content(f)
    BY <1>9 DEF evars, Content, Payload
  <2>3. IsManifest(record)' <=> IsManifest(record)
    BY <1>9, <2>1 DEF evars, IsManifest
  <2> QED
    BY <1>9, <2>1, <2>2, <2>3 DEF evars, FileInv
<1> QED
  BY <1>1, <1>2, <1>3, <1>4, <1>5, <1>6, <1>7, <1>8, <1>9 DEF EntropyNext

-----------------------------------------------------------------------------
(* The records of samples in any order.                                     *)

\* One sample of each source, as RawSamples has them.
IsSampled(samples) ==
  DOMAIN samples = 1..4 /\ \A i \in 1..4 : samples[i].source = SourceNames[i]

LEMMA FourSources == IsFiniteSet(1..4) /\ Cardinality(1..4) = 4
<1>1. /\ IsFiniteSet(1..4)
      /\ Cardinality(1..4) = IF 1 > 4 THEN 0 ELSE 4 - 1 + 1
  <2>1. 1 \in Int /\ 4 \in Int
    OBVIOUS
  <2> QED
    BY <2>1, FS_Interval, Zenon
<1> QED
  BY <1>1

LEMMA RecordsOfSamples ==
  ASSUME NEW samples, IsSampled(samples), NEW p \in SetToSeqs(1..4)
  PROVE  /\ ByName(Records([i \in 1..4 |-> samples[p[i]]])) = ByName(Records(samples))
         /\ ByName(ByName(Records(samples))) = ByName(Records(samples))
<1> DEFINE R == Records(samples)
           S == {R[i] : i \in 1..4}
           Q == Records([i \in 1..4 |-> samples[p[i]]])
<1>1. Lists(p, 1..4)
  BY ArrangementLists, FourSources
<1>2. p \in [1..4 -> 1..4] /\ DOMAIN p = 1..4
  <2>1. Len(p) = 4
    BY <1>1, ListLength, FourSources
  <2> QED
    BY <1>1, <2>1, ListLength
<1>3. /\ DOMAIN R = 1..4 /\ \A i \in 1..4 : R[i].name = SourceNames[i]
      /\ R = [i \in 1..4 |-> R[i]]
  BY DEF Records, IsSampled
<1>4. Q = [i \in 1..4 |-> R[p[i]]]
  BY <1>2 DEF Records, IsSampled
<1> HIDE DEF R, Q
<1>5. \A i, j \in 1..4 : R[i] = R[j] => i = j
  <2>1. \A i, j \in 1..4 : SourceNames[i] = SourceNames[j] => i = j
    BY FileNames
  <2> QED
    BY <1>3, <2>1
<1>6. IsRecordSet(S)
  <2>1. \A i, j \in 1..4 : R[i].name = R[j].name => i = j
    BY <1>3, FileNames
  <2>2. \A i \in 1..4 : R[i].name \in Source
    BY <1>3, FileNames DEF Source, ToSet
  <2> QED
    BY <2>1, <2>2 DEF IsRecordSet
<1>7. 4 \in Nat /\ Seq(S) = UNION {[1..m -> S] : m \in Nat}
  BY SeqDef
<1>8. Lists(R, S)
  <2>1. R \in [1..4 -> S]
    BY <1>3
  <2>2. R \in Seq(S)
    BY <1>7, <2>1
  <2> QED
    BY <1>3, <1>5, <2>2 DEF Lists
<1>9. Lists(Q, S)
  <2>1. Q \in [1..4 -> S] /\ DOMAIN Q = 1..4
    BY <1>2, <1>4
  <2>2. Q \in Seq(S)
    BY <1>7, <2>1
  <2>3. \A i, j \in 1..4 : Q[i] = Q[j] => i = j
    BY <1>1, <1>2, <1>4, <1>5 DEF Lists
  <2>4. \A x \in S : \E i \in 1..4 : Q[i] = x
    <3> SUFFICES ASSUME NEW k \in 1..4 PROVE \E i \in 1..4 : Q[i] = R[k]
      OBVIOUS
    <3>1. PICK i \in 1..4 : p[i] = k
      BY <1>1, <1>2 DEF Lists
    <3> QED
      BY <1>4, <3>1
  <2> QED
    BY <2>1, <2>2, <2>3, <2>4 DEF Lists
<1> HIDE DEF S
<1> QED
  BY <1>6, <1>8, <1>9, ByNameOfSet DEF R, Q

LEMMA RawSamplesAre ==
  /\ DOMAIN RawSamples = 1..4
  /\ \A i \in 1..4 : RawSamples[i].source = SourceNames[i]
  /\ \A raws : DOMAIN raws = 1..4 /\ (\A i \in 1..4 : raws[i].source = SourceNames[i])
                 => IsSampled(CanonicalSamples(raws))
<1>1. /\ DOMAIN RawSamples = 1..4
      /\ \A i \in 1..4 : RawSamples[i].source = SourceNames[i]
  BY FileNames DEF RawSamples
<1> QED
  BY <1>1 DEF CanonicalSamples, IsSampled

-----------------------------------------------------------------------------
(* The invariants.                                                          *)

LEMMA ArchiveIsDerived == FileInv => ArchiveRederives
<1> SUFFICES ASSUME FileInv, pc = "done" PROVE ArchiveRederives
  BY DEF ArchiveRederives
<1> DEFINE file == disk["manifest"]
           raws == [i \in DOMAIN SourceNames |->
                      [source |-> SourceNames[i], payload |-> disk[SourceNames[i]]]]
<1>1. \A i \in 1..5 : disk[Files[i]] = Content(Files[i])
  BY FileNames DEF FileInv
<1>2. file = record
  <2>1. disk[Files[5]] = Content(Files[5])
    BY <1>1
  <2> QED
    BY <2>1, FileNames DEF Content
<1>3. raws = RawSamples
  <2>1. \A i \in 1..4 : disk[SourceNames[i]] = Payload(SourceNames[i])
    BY <1>1, FileNames DEF Content
  <2> QED
    BY <2>1, FileNames DEF RawSamples
<1>4. IsManifest(record)
  BY DEF FileInv
<1>5. ByName(file.sources) = ByName(Sources)
  <2>1. IsSampled(CanonicalSamples(RawSamples))
    BY RawSamplesAre
  <2>2. PICK p : p \in SetToSeqs(1..4)
    <3> DEFINE p == [i \in 1..4 |-> i]
    <3>1. p \in SetToSeqs(1..4)
      BY FourSources DEF SetToSeqs
    <3> QED
      BY <3>1
  <2>3. ByName(ByName(Sources)) = ByName(Sources)
    BY <2>1, <2>2, RecordsOfSamples DEF Sources
  <2> QED
    BY <1>2, <1>4, <2>3 DEF IsManifest
<1> HIDE DEF file, raws
<1>6. file.manifest_hash = Sha256(buildManifestBytes(file))
  BY <1>2, <1>4, <1>5 DEF IsManifest, buildManifestBytes, manifest_hash, Sources
<1>7. file.seed = Sha256(buildSeedInputBytes(file.manifest_hash))
  BY <1>2, <1>4 DEF IsManifest, derive_seed, buildSeedInputBytes
<1>8. file.manifest_hash = manifest_hash(file.manifest_fetched_at_ms, CanonicalSamples(raws))
  BY <1>2, <1>3, <1>4 DEF IsManifest
<1>9. tool = "run" => file.manifest_hash = bundle.manifest_hash
  BY <1>2, <1>4 DEF IsManifest
<1> QED
  BY <1>6, <1>7, <1>8, <1>9 DEF ArchiveRederives, file, raws

LEMMA OrderHasNoPart == BundleInv /\ FileInv => OrderIsImmaterial
<1> SUFFICES ASSUME BundleInv, FileInv, Built,
                    NEW p \in SetToSeqs(1..4),
                    NEW usgs \in Reordered(bundle.raw_samples[4])
             PROVE  LET raws == [bundle.raw_samples EXCEPT ![4] = usgs]
                    IN  manifest_hash(bundle.fetched_at_ms,
                                      CanonicalSamples([i \in 1..4 |-> raws[p[i]]]))
                          = bundle.manifest_hash
  BY DEF OrderIsImmaterial
<1> DEFINE raws == [bundle.raw_samples EXCEPT ![4] = usgs]
           samples == CanonicalSamples(RawSamples)
<1>1. bundle.raw_samples = RawSamples /\ reply["usgs"] \in Data["usgs"]
      /\ bundle.manifest_hash = manifest_hash(bundle.fetched_at_ms, samples)
  BY DEF Built, BundleInv, FileInv
<1>2. RawSamples[4] = [source |-> "usgs", payload |-> reply["usgs"]]
  BY FileNames DEF RawSamples, Payload
<1>3. usgs.source = "usgs" /\ Canonical(usgs) = Canonical(RawSamples[4])
  <2>1. PICK feed \in SetToSeqs(ToSet(reply["usgs"])) :
          usgs = [source |-> "usgs", payload |-> feed]
    BY <1>1, <1>2 DEF Reordered
  <2>2. CanonicalUsgs(feed) = CanonicalUsgs(reply["usgs"])
    BY <1>1, ServerOrderIsImmaterial
  <2> QED
    BY <1>2, <2>1, <2>2 DEF Canonical
<1>4. /\ DOMAIN raws = 1..4 /\ raws[4] = usgs
      /\ \A i \in 1..4 : i # 4 => raws[i] = RawSamples[i]
  BY <1>1, RawSamplesAre
<1>5. CanonicalSamples(raws) = samples
  <2>1. \A i \in 1..4 : raws[i].source = RawSamples[i].source
                        /\ Canonical(raws[i]) = Canonical(RawSamples[i])
    BY <1>2, <1>3, <1>4
  <2> HIDE DEF raws
  <2> QED
    BY <1>4, <2>1, RawSamplesAre DEF CanonicalSamples
<1> HIDE DEF raws
<1>6. p \in [1..4 -> 1..4]
  BY FourSources DEF SetToSeqs
<1>7. CanonicalSamples([i \in 1..4 |-> raws[p[i]]]) = [i \in 1..4 |-> samples[p[i]]]
  <2>1. \A i \in 1..4 : samples[i] = [source |-> raws[i].source, bytes |-> Canonical(raws[i])]
    BY <1>4, <1>5 DEF CanonicalSamples
  <2> HIDE DEF samples
  <2> QED
    BY <1>6, <2>1 DEF CanonicalSamples
<1>8. IsSampled(samples)
  BY RawSamplesAre
<1> HIDE DEF samples
<1>9. ByName(Records([i \in 1..4 |-> samples[p[i]]])) = ByName(Records(samples))
  BY <1>8, RecordsOfSamples
<1>10. manifest_hash(bundle.fetched_at_ms, CanonicalSamples([i \in 1..4 |-> raws[p[i]]]))
         = bundle.manifest_hash
  BY <1>1, <1>7, <1>9 DEF manifest_hash
<1> QED
  BY <1>10 DEF raws

LEMMA BytesBind == BundleInv => BytesBindTheData
<1> SUFFICES ASSUME BundleInv, Built PROVE BytesBindTheData
  BY DEF BytesBindTheData
<1>1. reply["usgs"] \in Data["usgs"] /\ reply["drand"] \in Data["drand"]
  BY DEF Built, BundleInv
<1> QED
  BY <1>1, UsgsBytesBind, DrandBytesBind DEF BytesBindTheData

LEMMA MeasurementsStay == BundleInv => MeasurementsAreStored
<1> SUFFICES ASSUME BundleInv, Built, NEW s \in Station
             PROVE  /\ Stored(reply[s].temperature, Wide)
                    /\ Stored(reply[s].humidity, Narrow)
  BY DEF MeasurementsAreStored
<1>1. reply[s] \in Data[s]
  BY DEF Built, BundleInv
<1>2. reply[s].temperature \in Measurement /\ reply[s].humidity \in Measurement
  BY <1>1, DataIsTyped
<1> QED
  BY <1>2, StoredMeasurement

-----------------------------------------------------------------------------
\* gather_all and canonicalize: a file of the archive is written only after every
\* endpoint has answered with what the code accepts as data.
THEOREM OnlyAnswersAreArchived == EntropySpec => OnlyAnsweredBundlesAreArchived
  BY BundleInit, BundleStep, WritesFollowData, PTL
     DEF EntropySpec, OnlyAnsweredBundlesAreArchived

\* archive, entropy_once and the audit page: whatever an earlier build left on
\* the disk, a finished archive proves its manifest hash and its seed, and a
\* bundle of oracle run goes on the chain with the hash that is archived.
THEOREM ArchiveIsRederivable == EntropySpec => []ArchiveRederives
  BY FileInit, FileStep, ArchiveIsDerived, PTL DEF EntropySpec

\* manifest::build and UsgsSource::canonicalize sort: the hash depends neither
\* on the order of the samples nor on that of the events in the feed.
THEOREM OrderNeverMatters == EntropySpec => []OrderIsImmaterial
  BY BundleInit, BundleStep, FileInit, FileStep, OrderHasNoPart, PTL DEF EntropySpec

\* write_lp_str and the fixed fields: the bytes of a feed say which events it
\* has, and those of a round the round, for feeds and strings of any length.
THEOREM BytesAlwaysBind == EntropySpec => []BytesBindTheData
  BY BundleInit, BundleStep, BytesBind, PTL DEF EntropySpec

\* float_to_fixed_i32 and _i16: a missing measurement is the reserved number
\* and no other is; the others are rounded and held within the range.
THEOREM MeasurementsAreAlwaysStored == EntropySpec => []MeasurementsAreStored
  BY BundleInit, BundleStep, MeasurementsStay, PTL DEF EntropySpec

=============================================================================
