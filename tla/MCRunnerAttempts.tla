-------------------------- MODULE MCRunnerAttempts --------------------------
(***************************************************************************)
(* Constants of RunnerAttempts for TLC, those of MCOracleRunner.           *)
(***************************************************************************)
EXTENDS RunnerAttempts, SymbolicHashes

DemoDeadlines == {<<1, 3, 4>>}

=============================================================================
