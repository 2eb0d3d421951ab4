------------------------------- MODULE MCModR -------------------------------
(***************************************************************************)
(* Constants of ModR for TLC: all numbers of four limbs in base 6, and     *)
(* moduli whose lower limbs are zero, one and the largest, in every order, *)
(* so that every chain of borrows occurs and the quotient reaches 5.       *)
(***************************************************************************)
EXTENDS ModR

MCModuli == [1..Limbs -> {0, 1, Base - 1}] \cap {m \in Number : m[1] = 1}

=============================================================================
