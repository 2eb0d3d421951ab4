---------------------------- MODULE MCVisualizer ----------------------------
(***************************************************************************)
(* Three archives for TLC: the newest as entropy_once writes it, one in    *)
(* which neither the seed nor the manifest hash fits the rest, and the     *)
(* oldest without its list of sources: drawing it stops at the panel,      *)
(* unless the stage of the proof is selected, and its manifest cannot be   *)
(* rebuilt.                                                                *)
(***************************************************************************)
EXTENDS Visualizer

MCEpochs == <<1, 2, 3>>

MCServed == <<[manifest_hash |-> "h1", seed |-> "s1"],
              [manifest_hash |-> "h1", seed |-> "s2"],
              [manifest_hash |-> "h1", seed |-> "s1"]>>
MCManifestDigest == <<"h1", "h2", "h1">>
MCSeedDigest == [hash \in {"h1"} |-> "s1"]
MCAlphaDigest == [seed \in {"s1", "s2"} |-> <<"alpha", seed>>]
MCAlpha == <<"alpha", "s1">>
MCDamage == <<{"sources"}, {}, {}>>

=============================================================================
