--------------------------- MODULE MCRunnerHistory ---------------------------
(***************************************************************************)
(* Constants of RunnerHistory for TLC, those of MCOracleRunner.            *)
(***************************************************************************)
EXTENDS RunnerHistory, SymbolicHashes

DemoDeadlines == {<<1, 3, 4>>}

=============================================================================
