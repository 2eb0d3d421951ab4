---------------------------- MODULE MCRunnerDemo -----------------------------
(***************************************************************************)
(* Constants of RunnerDemo for TLC, those of MCOracleRunner.               *)
(***************************************************************************)
EXTENDS RunnerDemo, SymbolicHashes

DemoDeadlines == {<<1, 3, 4>>}

=============================================================================
