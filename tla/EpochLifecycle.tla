--------------------------- MODULE EpochLifecycle ---------------------------
(***************************************************************************)
(* What the randomness-beacon program promises to a consumer that reads    *)
(* epoch accounts: an epoch is opened once, its entropy seed is bound at   *)
(* most once, its output is published at most once, the published output   *)
(* is a VRF evaluation of the seed the account holds, and nothing about a  *)
(* published epoch ever changes again.  Module Beacon implements it.       *)
(***************************************************************************)

CONSTANTS
  EpochId,       \* the epoch ids accounts are derived from
  Seed,          \* values an entropy seed can be bound to
  SecretKey,     \* VRF secret keys
  AlphaHash,     \* seed -> the scalar the proof is about
  Evaluate,      \* <<secret key, scalar>> -> VRF output
  Zero           \* 32 zero bytes: "not set"

VARIABLES
  stage,         \* epoch id -> "absent", "open", "bound" or "published"
  seed,          \* epoch id -> its entropy seed, or Zero
  output         \* epoch id -> its published output, or Zero

vars == <<stage, seed, output>>

Init ==
  /\ stage = [e \in EpochId |-> "absent"]
  /\ seed = [e \in EpochId |-> Zero]
  /\ output = [e \in EpochId |-> Zero]

Open(e) ==
  /\ stage[e] = "absent"
  /\ stage' = [stage EXCEPT ![e] = "open"]
  /\ UNCHANGED <<seed, output>>

Bind(e) ==
  /\ stage[e] = "open"
  /\ \E s \in Seed : seed' = [seed EXCEPT ![e] = s]
  /\ stage' = [stage EXCEPT ![e] = "bound"]
  /\ UNCHANGED output

\* An epoch may be published over the zero seed: the program does not ask
\* for a reveal before it finalizes.
Publish(e) ==
  /\ stage[e] \in {"open", "bound"}
  /\ \E sk \in SecretKey :
       output' = [output EXCEPT ![e] = Evaluate[<<sk, AlphaHash[seed[e]]>>]]
  /\ stage' = [stage EXCEPT ![e] = "published"]
  /\ UNCHANGED seed

Next == \E e \in EpochId : Open(e) \/ Bind(e) \/ Publish(e)

Spec == Init /\ [][Next]_vars

=============================================================================
