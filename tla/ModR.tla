-------------------------------- MODULE ModR --------------------------------
(***************************************************************************)
(* reduce_be_bytes_mod_r of programs/randomness-beacon: the multi-word     *)
(* reduction, by repeated subtraction, of a hash modulo the order r of the *)
(* scalar field.  A number is a sequence of limbs, the most significant    *)
(* first, and limb arithmetic wraps around as u64 arithmetic does.  The    *)
(* state machine takes one limb of sub_r at a time; gte_r is a function of *)
(* the value.  The program has four limbs of base 2^64 and one modulus; a  *)
(* state here keeps its modulus, so that many are checked at once.         *)
(***************************************************************************)
EXTENDS Integers

CONSTANTS
  Base,      \* 2^64 in the program
  Limbs,     \* 4 in the program
  Moduli     \* the values R may have

Limb == 0..(Base - 1)
Number == [1..Limbs -> Limb]

\* The most significant limb of R is not zero, else the loop would run for
\* about as many rounds as a limb has values.
ASSUME ModRConstants ==
  /\ Base \in Nat \ {0, 1} /\ Limbs \in Nat \ {0}
  /\ \A m \in Moduli : m \in Number /\ m[1] # 0

VARIABLES
  input,     \* be_bytes_to_limbs(bytes)
  R,         \* the modulus
  v,         \* the local of reduce_be_bytes_mod_r
  i,         \* the limb sub_r is at; 0 between calls
  borrow,    \* the local of sub_r
  done       \* limbs_to_be_bytes(&v) was returned

vars == <<input, R, v, i, borrow, done>>

\* The integers that x stands for once limbs j + 1 to k of n are appended, by k.
Horner(x, j, n) ==
  LET H[k \in 0..Limbs] == IF k <= j THEN x ELSE H[k - 1] * Base + n[k]
  IN  H

\* The integer that the limbs of n stand for.
Value(n) == Horner(0, 0, n)[Limbs]

-----------------------------------------------------------------------------
\* The first limb that differs decides; equal numbers compare as >=.
gte_r_strict(n) ==
  \E k \in 1..Limbs :
    n[k] > R[k] /\ \A j \in 1..(k - 1) : n[j] = R[j]
gte_r(n) ==
  \/ \E k \in 1..Limbs :
       n[k] > R[k] /\ \A j \in 1..(k - 1) : n[j] = R[j]
  \/ n = R

\* u64::overflowing_sub: the wrapped difference and whether it wrapped.
diff(a, b) == (a - b) % Base
overflows(a, b) == IF a < b THEN 1 ELSE 0

Subtract ==
  /\ ~done
  /\ i = 0
  /\ gte_r(v)
  /\ i' = Limbs
  /\ borrow' = 0
  /\ UNCHANGED <<input, R, v, done>>

\* One limb: the borrow is taken after R[i] is, and may wrap as well.
SubLimb_first_borrow ==
  /\ i > 0
  /\ LET d == diff(v[i], R[i]) IN
       /\ v' = [v EXCEPT ![i] = diff(d, borrow)]
       /\ borrow' = overflows(v[i], R[i])
  /\ i' = i - 1
  /\ UNCHANGED <<input, R, done>>
SubLimb ==
  /\ i > 0
  /\ LET d == diff(v[i], R[i]) IN
       /\ v' = [v EXCEPT ![i] = diff(d, borrow)]
       /\ borrow' = overflows(v[i], R[i]) + overflows(d, borrow)
  /\ i' = i - 1
  /\ UNCHANGED <<input, R, done>>

Return ==
  /\ ~done
  /\ i = 0
  /\ ~gte_r(v)
  /\ done' = TRUE
  /\ UNCHANGED <<input, R, v, i, borrow>>

Init ==
  /\ input \in Number
  /\ R \in Moduli
  /\ v = input
  /\ i = 0
  /\ borrow = 0
  /\ done = FALSE

Next == Subtract \/ SubLimb \/ Return

Spec == Init /\ [][Next]_vars

-----------------------------------------------------------------------------
\* The result is the remainder, so the prover and the program agree on every
\* alpha, the multiples of r and the numbers next to them included.
ReturnsRemainder == done => Value(v) = Value(input) % Value(R)

\* sub_r's "Assumes v >= R" is met: the two borrows of a limb never come
\* together, no subtraction is left with a borrow, and between two of them the
\* value is the input less a multiple of r.
NothingIsOwed ==
  /\ v \in Number /\ borrow \in {0, 1}
  /\ i = 0 => /\ borrow = 0
              /\ Value(v) <= Value(input)
              /\ (Value(input) - Value(v)) % Value(R) = 0

=============================================================================
