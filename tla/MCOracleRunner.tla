--------------------------- MODULE MCOracleRunner ---------------------------
(***************************************************************************)
(* Constants of OracleRunner for TLC: one epoch with two slots to commit   *)
(* (0 and 1), two to reveal, one to finalize and one after the deadlines.  *)
(***************************************************************************)
EXTENDS OracleRunner, SymbolicHashes

DemoDeadlines == {<<1, 3, 4>>}

=============================================================================
