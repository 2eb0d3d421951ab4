----------------------------- MODULE MCScripts ------------------------------
(***************************************************************************)
(* Constants of Scripts for TLC: two statements, one authority.            *)
(***************************************************************************)
EXTENDS Scripts

MCKey == 0..MaxCommands
MCProvable == {<<"alpha1", "beta1">>, <<"alpha2", "beta2">>}
MCInputs == MCProvable \cup {<<"alpha1", "beta2">>}

=============================================================================
