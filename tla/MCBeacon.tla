------------------------------ MODULE MCBeacon ------------------------------
(***************************************************************************)
(* Constants of Beacon for TLC.                                            *)
(***************************************************************************)
EXTENDS SymbolicHashes

\* Every relative order of the three deadlines, ties included.
AnyDeadlines ==
  {d \in {1, 2, 3} \X {1, 2, 3} \X {1, 2, 3} :
     \A i \in 1..3 : d[i] = 1 \/ \E j \in 1..3 : d[j] = d[i] - 1}

=============================================================================
