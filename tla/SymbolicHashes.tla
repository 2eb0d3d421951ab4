--------------------------- MODULE SymbolicHashes ---------------------------
(***************************************************************************)
(* Values for TLC of the hash functions and of the VRF of Beacon: free     *)
(* constructors, so two values are equal exactly when their inputs are.    *)
(***************************************************************************)
EXTENDS Beacon

MCCommitmentHash == [s \in Salt |-> <<"commitment", s>>]
MCCommitment == {<<"commitment", s>> : s \in Salt}
MCOracleSeed == [p \in Salt \X Manifest |-> <<"seed", p>>]
MCSeed == {<<"seed", p>> : p \in Salt \X Manifest}
MCAlphaHash == [x \in MCSeed \cup {Zero} |-> <<"alpha", x>>]
MCAlpha == {<<"alpha", x>> : x \in MCSeed \cup {Zero}}
MCEvaluate == [p \in SecretKey \X MCAlpha |-> <<"beta", p>>]
MCBeta == {<<"beta", p>> : p \in SecretKey \X MCAlpha}

=============================================================================
