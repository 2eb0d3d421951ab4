------------------------------- MODULE Beacon -------------------------------
(***************************************************************************)
(* The on-chain program programs/randomness-beacon: the epoch accounts and *)
(* the four instructions that change them.  Every transaction is atomic    *)
(* (a failed require! leaves the account as it was), so an instruction is  *)
(* one action whose guards are the require! checks in source order, and a  *)
(* rejected instruction is a step that does not happen.                    *)
(*                                                                         *)
(* Byte strings are members of the constant sets below; the hash functions *)
(* and the VRF are arbitrary constant functions on them, about which only  *)
(* Assumption HashesAreNotZero is made.                                    *)
(***************************************************************************)
EXTENDS Naturals, Sequences

CONSTANTS
  EpochId,          \* epoch ids (the seed of the account address)
  Signer,           \* public keys that sign transactions
  Salt,             \* 32-byte oracle salts
  Manifest,         \* entropy manifest hashes
  Commitment,       \* values a commitment can have
  Seed,             \* values an entropy seed can have
  Alpha,            \* scalars an alpha hash can have
  Beta,             \* VRF outputs
  SecretKey,        \* VRF secret keys
  CommitmentHash,   \* Salt -> Commitment          (commitment_hash)
  OracleSeed,       \* Salt \X Manifest -> Seed    (oracle_seed)
  AlphaHash,        \* seed -> Alpha               (reduce(sha256(seed)))
  Evaluate,         \* SecretKey \X Alpha -> Beta  (compute_beta)
  Zero,             \* 32 zero bytes
  BadProof,         \* a proof of the wrong length, or one that proves nothing
  DeadlineChoices,  \* <<commit, reveal, finalize>> slots epochs are opened with
  MaxSlot           \* bound on the slot clock

ASSUME HashesAreNotZero ==
  /\ CommitmentHash \in [Salt -> Commitment]
  /\ OracleSeed \in [Salt \X Manifest -> Seed]
  /\ AlphaHash \in [Seed \cup {Zero} -> Alpha]
  /\ Evaluate \in [SecretKey \X Alpha -> Beta]
  /\ Zero \notin Commitment
  /\ Zero \notin Seed

ASSUME SlotsAreNat ==
  /\ DeadlineChoices \subseteq Nat \X Nat \X Nat
  /\ MaxSlot \in Nat

VARIABLES
  epoch,   \* the epoch accounts: a function on the ids that were initialized
  slot     \* Clock::get()?.slot

vars == <<epoch, slot>>

EpochPhase == {"Commit", "Reveal", "Finalize", "Closed"}

EpochState ==
  [phase : EpochPhase,
   commit_deadline_slot : Nat,
   reveal_deadline_slot : Nat,
   finalize_deadline_slot : Nat,
   oracle_pubkey : Signer,
   commitment : Commitment \cup {Zero},
   aggregated_seed : Seed \cup {Zero},
   vrf_output : Beta \cup {Zero},
   is_finalized : BOOLEAN,
   entropy_manifest_hash : Manifest \cup {Zero},
   entropy_seed : Seed \cup {Zero}]

\* Every account is an EpochState in which each 32-byte field holds a value of
\* its own kind.  The program has one type, [u8; 32], for salts, manifest
\* hashes, commitments, seeds and outputs alike.
TypeOK ==
  /\ DOMAIN epoch \subseteq EpochId
  /\ epoch \in [DOMAIN epoch -> EpochState]
  /\ slot \in Nat

-----------------------------------------------------------------------------
(* The checks of the handlers, on an account st.  The definitions whose     *)
(* name ends in a fault are wrong variants used to test the properties.     *)

require_oracle(signer, st) == signer = st.oracle_pubkey

CommitWindow_no_deadline(st, now) == TRUE
CommitWindow(st, now) == now <= st.commit_deadline_slot

RevealWindow(st, now) ==
  st.commit_deadline_slot < now /\ now <= st.reveal_deadline_slot

FinalizeWindow_after_commit(st, now) ==
  st.commit_deadline_slot < now /\ now <= st.finalize_deadline_slot
FinalizeWindow(st, now) ==
  st.reveal_deadline_slot < now /\ now <= st.finalize_deadline_slot

NotRevealed_dropped(st) == TRUE
NotRevealed(st) == st.entropy_seed = Zero

NotFinalized_dropped(st) == TRUE
NotFinalized(st) == ~st.is_finalized

OpensCommitment_dropped(salt, st) == TRUE
OpensCommitment(salt, st) == CommitmentHash[salt] = st.commitment

\* The first public input must be the reduced hash of the stored seed.
AlphaMatches(inputs, st) ==
  Len(inputs) > 0 /\ inputs[1] = AlphaHash[st.entropy_seed]

\* What a Groth16 proof can prove: beta is the output of some secret key.
Statement == {<<a, Evaluate[<<sk, a>>]>> : a \in Alpha, sk \in SecretKey}
Proof == Statement \cup {BadProof}

\* verify_vrf_proof: the proof has the right length, there are exactly two
\* public inputs, and the proof is one of the statement they make.
verify_vrf_proof(proof, inputs) ==
  Len(inputs) = 2 /\ proof \in Statement /\ proof = inputs

\* The public input vectors a transaction may carry.
PublicInputs ==
  {<< >>} \cup {<<a>> : a \in Alpha} \cup {<<a, b>> : a \in Alpha, b \in Beta}
          \cup {<<a, b, b>> : a \in Alpha, b \in Beta}

-----------------------------------------------------------------------------
(* The handlers.                                                            *)

Fresh(authority, d) ==
  [phase |-> "Commit",
   commit_deadline_slot |-> d[1],
   reveal_deadline_slot |-> d[2],
   finalize_deadline_slot |-> d[3],
   oracle_pubkey |-> authority,
   commitment |-> Zero,
   aggregated_seed |-> Zero,
   vrf_output |-> Zero,
   is_finalized |-> FALSE,
   entropy_manifest_hash |-> Zero,
   entropy_seed |-> Zero]

\* The init constraint: the account must not exist yet.
AccountIsNew_reinit(e) == TRUE
AccountIsNew(e) == e \notin DOMAIN epoch

initialize_epoch(e, authority, d) ==
  /\ AccountIsNew(e)
  /\ epoch' = [x \in DOMAIN epoch \cup {e} |->
                 IF x = e THEN Fresh(authority, d) ELSE epoch[x]]
  /\ UNCHANGED slot

\* What a commit writes.
Committed(st, commitment) ==
  [st EXCEPT !.commitment = commitment, !.phase = "Commit"]

oracle_commit(e, oracle, commitment) ==
  /\ e \in DOMAIN epoch
  /\ require_oracle(oracle, epoch[e])
  /\ CommitWindow(epoch[e], slot)
  /\ epoch' = [epoch EXCEPT ![e] = Committed(@, commitment)]
  /\ UNCHANGED slot

\* What a reveal writes.  Salt and manifest hash are both [u8; 32].
Revealed_salt_as_manifest(st, salt, manifest_hash) ==
  [st EXCEPT !.entropy_manifest_hash = salt,
             !.entropy_seed = OracleSeed[<<salt, manifest_hash>>],
             !.aggregated_seed = OracleSeed[<<salt, manifest_hash>>],
             !.phase = "Reveal"]
Revealed_salt_only(st, salt, manifest_hash) ==
  [st EXCEPT !.entropy_seed = OracleSeed[<<salt, manifest_hash>>],
             !.aggregated_seed = OracleSeed[<<salt, manifest_hash>>],
             !.phase = "Reveal"]
Revealed(st, salt, manifest_hash) ==
  [st EXCEPT !.entropy_manifest_hash = manifest_hash,
             !.entropy_seed = OracleSeed[<<salt, manifest_hash>>],
             !.aggregated_seed = OracleSeed[<<salt, manifest_hash>>],
             !.phase = "Reveal"]

oracle_reveal(e, oracle, salt, manifest_hash) ==
  /\ e \in DOMAIN epoch
  /\ require_oracle(oracle, epoch[e])
  /\ epoch[e].commitment # Zero
  /\ NotRevealed(epoch[e])
  /\ RevealWindow(epoch[e], slot)
  /\ OpensCommitment(salt, epoch[e])
  /\ epoch' = [epoch EXCEPT ![e] = Revealed(@, salt, manifest_hash)]
  /\ UNCHANGED slot

\* What a finalization writes.
Finalized_keeps_phase(st, vrf_output) ==
  [st EXCEPT !.vrf_output = vrf_output, !.is_finalized = TRUE]
Finalized(st, vrf_output) ==
  [st EXCEPT !.vrf_output = vrf_output,
             !.is_finalized = TRUE,
             !.phase = "Closed"]

finalize_epoch(e, oracle, vrf_output, proof, public_inputs) ==
  /\ e \in DOMAIN epoch
  /\ require_oracle(oracle, epoch[e])
  /\ FinalizeWindow(epoch[e], slot)
  /\ NotFinalized(epoch[e])
  /\ AlphaMatches(public_inputs, epoch[e])
  /\ verify_vrf_proof(proof, public_inputs)
  /\ public_inputs[2] = vrf_output
  /\ epoch' = [epoch EXCEPT ![e] = Finalized(@, vrf_output)]
  /\ UNCHANGED slot

\* The cluster produces slots.
AdvanceSlot ==
  /\ slot < MaxSlot
  /\ slot' = slot + 1
  /\ UNCHANGED epoch

-----------------------------------------------------------------------------
Init ==
  /\ epoch = [e \in {} |-> Zero]
  /\ slot = 0

Initialize ==
  \E e \in EpochId, s \in Signer, d \in DeadlineChoices :
    initialize_epoch(e, s, d)
Commit ==
  \E e \in EpochId, s \in Signer, c \in Commitment \cup {Zero} :
    oracle_commit(e, s, c)
Reveal ==
  \E e \in EpochId, s \in Signer, salt \in Salt, m \in Manifest :
    oracle_reveal(e, s, salt, m)
Finalize ==
  \E e \in EpochId, s \in Signer, p \in Proof, pi \in PublicInputs, b \in Beta :
    finalize_epoch(e, s, b, p, pi)

Next == Initialize \/ Commit \/ Reveal \/ Finalize \/ AdvanceSlot

Spec == Init /\ [][Next]_vars

-----------------------------------------------------------------------------
(* Properties.                                                              *)

\* The order main.rs ensures of the deadlines; initialize_epoch does not
\* check it.
Ordered(st) ==
  /\ st.commit_deadline_slot < st.reveal_deadline_slot
  /\ st.reveal_deadline_slot < st.finalize_deadline_slot

\* A bound seed is the hash of the published manifest hash and of a salt that
\* opens the commitment the account still shows: an auditor who is given the
\* salt of the reveal can redo the check long after it happened.
SeedOpensCommitment ==
  \A e \in DOMAIN epoch :
    LET st == epoch[e] IN
    st.entropy_seed # Zero =>
      /\ st.aggregated_seed = st.entropy_seed
      /\ \E salt \in Salt :
           /\ st.commitment = CommitmentHash[salt]
           /\ st.entropy_manifest_hash \in Manifest
           /\ st.entropy_seed = OracleSeed[<<salt, st.entropy_manifest_hash>>]

\* A finalized account shows an output proved for the seed it shows, whatever
\* instructions came between and after, and for any deadlines.
OutputProvesSeed ==
  \A e \in DOMAIN epoch :
    epoch[e].is_finalized =>
      \E sk \in SecretKey :
        epoch[e].vrf_output =
          Evaluate[<<sk, AlphaHash[epoch[e].entropy_seed]>>]

\* With ordered deadlines the stored phase tells a reader the truth: it is
\* Closed exactly when the output is there, and Reveal exactly when the seed
\* is there and the output is not.
PhaseTellsProgress ==
  \A e \in DOMAIN epoch :
    LET st == epoch[e] IN
    Ordered(st) =>
      /\ st.phase = "Closed" <=> st.is_finalized
      /\ st.phase = "Reveal" <=> st.entropy_seed # Zero /\ ~st.is_finalized

\* An account that exists keeps its oracle and its deadlines for ever.
SameTerms(st, st2) ==
  /\ st2.oracle_pubkey = st.oracle_pubkey
  /\ st2.commit_deadline_slot = st.commit_deadline_slot
  /\ st2.reveal_deadline_slot = st.reveal_deadline_slot
  /\ st2.finalize_deadline_slot = st.finalize_deadline_slot
TermsKept ==
  \A e \in DOMAIN epoch :
    e \in DOMAIN epoch' /\ SameTerms(epoch[e], epoch'[e])
TermsAreFixed == [][TermsKept]_vars

\* Once a seed is bound, neither it nor the commitment it opens can be
\* replaced, for any deadlines.
BoundSeedKept ==
  \A e \in DOMAIN epoch :
    epoch[e].entropy_seed # Zero =>
      /\ epoch'[e].entropy_seed = epoch[e].entropy_seed
      /\ epoch'[e].entropy_manifest_hash = epoch[e].entropy_manifest_hash
      /\ epoch'[e].commitment = epoch[e].commitment
RevealIsBinding == [][BoundSeedKept]_vars

\* A finalized account with ordered deadlines never changes again.
FinalAccountKept ==
  \A e \in DOMAIN epoch :
    epoch[e].is_finalized /\ Ordered(epoch[e]) => epoch'[e] = epoch[e]
FinalizedIsForever == [][FinalAccountKept]_vars

\* The accounts implement the abstract life cycle of an epoch, for any
\* deadlines: commits and the clock are stuttering steps.
Stage(e) ==
  IF e \notin DOMAIN epoch THEN "absent"
  ELSE IF epoch[e].is_finalized THEN "published"
  ELSE IF epoch[e].entropy_seed # Zero THEN "bound"
  ELSE "open"

StageMap == [e \in EpochId |-> Stage(e)]
SeedMap ==
  [e \in EpochId |-> IF e \in DOMAIN epoch THEN epoch[e].entropy_seed ELSE Zero]
OutputMap ==
  [e \in EpochId |-> IF e \in DOMAIN epoch THEN epoch[e].vrf_output ELSE Zero]

Lifecycle == INSTANCE EpochLifecycle WITH
  stage <- StageMap, seed <- SeedMap, output <- OutputMap

ImplementsLifecycle == Lifecycle!Spec

=============================================================================
