---------------------------- MODULE BeaconProofs ----------------------------
(***************************************************************************)
(* Proofs about module Beacon, for every set of epochs, signers, salts,    *)
(* manifests and keys, every hash function that avoids zero, and every     *)
(* choice of deadlines; then about the program behind module Cluster.      *)
(*                                                                         *)
(* The invariants of Beacon say nothing of the clock, and are not          *)
(* inductive: a commit would break SeedOpensCommitment, were a seed ever   *)
(* bound while the commit window is open.  AccountInv adds what rules that *)
(* out, where the slot is once a seed is bound and once an output is       *)
(* published.  It is a predicate of one account and the slot, so the steps *)
(* that keep it are proved account by account.                             *)
(***************************************************************************)
EXTENDS Cluster, TLAPS

SeedInv(st) ==
  st.entropy_seed # Zero =>
    /\ st.aggregated_seed = st.entropy_seed
    /\ \E salt \in Salt :
         /\ st.commitment = CommitmentHash[salt]
         /\ st.entropy_manifest_hash \in Manifest
         /\ st.entropy_seed = OracleSeed[<<salt, st.entropy_manifest_hash>>]

OutputInv(st) ==
  st.is_finalized =>
    \E sk \in SecretKey :
      st.vrf_output = Evaluate[<<sk, AlphaHash[st.entropy_seed]>>]

PhaseInv(st) ==
  Ordered(st) =>
    /\ st.phase = "Closed" <=> st.is_finalized
    /\ st.phase = "Reveal" <=> st.entropy_seed # Zero /\ ~st.is_finalized

WindowInv(st, now) ==
  /\ st.entropy_seed # Zero => st.commit_deadline_slot < now
  /\ st.is_finalized => st.reveal_deadline_slot < now

AccountInv(st, now) ==
  /\ st \in EpochState
  /\ SeedInv(st)
  /\ OutputInv(st)
  /\ PhaseInv(st)
  /\ WindowInv(st, now)

IInv ==
  /\ TypeOK
  /\ \A e \in DOMAIN epoch : AccountInv(epoch[e], slot)

-----------------------------------------------------------------------------
(* One account.                                                             *)

\* The account initialize_epoch creates is in order.
LEMMA FreshAccount ==
  ASSUME NEW authority \in Signer, NEW d \in DeadlineChoices, NEW now \in Nat
  PROVE  AccountInv(Fresh(authority, d), now)
<1>1. d[1] \in Nat /\ d[2] \in Nat /\ d[3] \in Nat
  BY SlotsAreNat
<1>2. Fresh(authority, d) \in EpochState
  BY <1>1 DEF Fresh, EpochState, EpochPhase
<1>3. QED
  BY <1>2 DEF Fresh, AccountInv, SeedInv, OutputInv, PhaseInv, WindowInv

\* A commit in its window finds no seed, so it cannot orphan one.
LEMMA CommittedAccount ==
  ASSUME NEW st, NEW now \in Nat, NEW c \in Commitment \cup {Zero},
         AccountInv(st, now), CommitWindow(st, now)
  PROVE  AccountInv(Committed(st, c), now)
<1>1. st \in EpochState
  BY DEF AccountInv
<1>2. st.entropy_seed = Zero
  BY <1>1 DEF AccountInv, WindowInv, CommitWindow, EpochState
<1>3. Ordered(st) => ~st.is_finalized
  BY <1>1 DEF AccountInv, WindowInv, CommitWindow, Ordered, EpochState
<1>4. Committed(st, c) \in EpochState
  BY <1>1 DEF Committed, EpochState, EpochPhase
<1>5. SeedInv(Committed(st, c)) /\ OutputInv(Committed(st, c))
  BY <1>1, <1>2 DEF Committed, AccountInv, SeedInv, OutputInv, EpochState
<1>6. PhaseInv(Committed(st, c))
  BY <1>1, <1>2, <1>3 DEF Committed, PhaseInv, Ordered, EpochState
<1>7. WindowInv(Committed(st, c), now)
  BY <1>1 DEF Committed, AccountInv, WindowInv, EpochState
<1>8. QED
  BY <1>4, <1>5, <1>6, <1>7 DEF AccountInv

\* A reveal in its window finds no output, so it cannot change the seed an
\* output was proved for.
LEMMA RevealedAccount ==
  ASSUME NEW st, NEW now \in Nat, NEW salt \in Salt, NEW m \in Manifest,
         AccountInv(st, now), RevealWindow(st, now), OpensCommitment(salt, st)
  PROVE  AccountInv(Revealed(st, salt, m), now)
<1>1. st \in EpochState
  BY DEF AccountInv
<1>2. OracleSeed[<<salt, m>>] \in Seed
  BY HashesAreNotZero
<1>3. ~st.is_finalized
  BY <1>1 DEF AccountInv, WindowInv, RevealWindow, EpochState
<1>4. Revealed(st, salt, m) \in EpochState
  BY <1>1, <1>2 DEF Revealed, EpochState, EpochPhase
<1>5. SeedInv(Revealed(st, salt, m))
  BY <1>1 DEF Revealed, SeedInv, OpensCommitment, EpochState
<1>6. OutputInv(Revealed(st, salt, m))
  BY <1>1, <1>3 DEF Revealed, OutputInv, EpochState
<1>7. PhaseInv(Revealed(st, salt, m))
  BY <1>1, <1>2, <1>3, HashesAreNotZero
  DEF Revealed, PhaseInv, Ordered, EpochState
<1>8. WindowInv(Revealed(st, salt, m), now)
  BY <1>1, <1>3 DEF Revealed, WindowInv, RevealWindow, EpochState
<1>9. QED
  BY <1>4, <1>5, <1>6, <1>7, <1>8 DEF AccountInv

\* An accepted proof whose first input is the hash of the stored seed carries
\* an output of that seed.
LEMMA VerifiedOutput ==
  ASSUME NEW st, NEW proof, NEW inputs,
         AlphaMatches(inputs, st), verify_vrf_proof(proof, inputs)
  PROVE  \E sk \in SecretKey :
           inputs[2] = Evaluate[<<sk, AlphaHash[st.entropy_seed]>>]
<1>1. inputs \in Statement
  BY DEF verify_vrf_proof
<1>2. PICK a \in Alpha, sk \in SecretKey : inputs = <<a, Evaluate[<<sk, a>>]>>
  BY <1>1 DEF Statement
<1>3. inputs[1] = a /\ inputs[2] = Evaluate[<<sk, a>>]
  BY <1>2
<1>4. QED
  BY <1>3 DEF AlphaMatches

\* A finalization publishes an output of the seed the account holds.
LEMMA FinalizedAccount ==
  ASSUME NEW st, NEW now \in Nat, NEW b \in Beta,
         AccountInv(st, now), FinalizeWindow(st, now),
         \E sk \in SecretKey : b = Evaluate[<<sk, AlphaHash[st.entropy_seed]>>]
  PROVE  AccountInv(Finalized(st, b), now)
<1>1. st \in EpochState
  BY DEF AccountInv
<1>2. Finalized(st, b) \in EpochState
  BY <1>1 DEF Finalized, EpochState, EpochPhase
<1>3. SeedInv(Finalized(st, b))
  BY <1>1 DEF Finalized, AccountInv, SeedInv, EpochState
<1>4. OutputInv(Finalized(st, b))
  BY <1>1 DEF Finalized, OutputInv, EpochState
<1>5. PhaseInv(Finalized(st, b))
  BY <1>1 DEF Finalized, PhaseInv, EpochState
<1>6. WindowInv(Finalized(st, b), now)
  BY <1>1 DEF Finalized, AccountInv, WindowInv, FinalizeWindow, EpochState
<1>7. QED
  BY <1>2, <1>3, <1>4, <1>5, <1>6 DEF AccountInv

\* The clock only moves forward, which AccountInv allows.
LEMMA OlderAccount ==
  ASSUME NEW st, NEW now \in Nat, AccountInv(st, now)
  PROVE  AccountInv(st, now + 1)
<1>1. st \in EpochState
  BY DEF AccountInv
<1>2. QED
  BY <1>1 DEF AccountInv, WindowInv, EpochState

-----------------------------------------------------------------------------
(* The accounts.                                                            *)

\* Replacing one account by one in order keeps the invariant.
LEMMA OneAccountStep ==
  ASSUME IInv, NEW e \in DOMAIN epoch, NEW st, AccountInv(st, slot),
         epoch' = [epoch EXCEPT ![e] = st], slot' = slot
  PROVE  IInv'
<1>1. DOMAIN epoch' = DOMAIN epoch
  OBVIOUS
<1>2. \A x \in DOMAIN epoch : AccountInv(epoch'[x], slot)
  BY DEF IInv
<1>3. \A x \in DOMAIN epoch : epoch'[x] \in EpochState
  BY <1>2 DEF AccountInv
<1>4. TypeOK'
  BY <1>1, <1>3 DEF IInv, TypeOK
<1>5. QED
  BY <1>1, <1>2, <1>4 DEF IInv

LEMMA InitInvariant == Init => IInv
BY DEF Init, IInv, TypeOK

\* Every step keeps the invariant, one step of the proof per action.
LEMMA NextInvariant == IInv /\ [Next]_vars => IInv'
<1> SUFFICES ASSUME IInv, [Next]_vars
             PROVE  IInv'
  OBVIOUS
<1>0. slot \in Nat /\ \A e \in DOMAIN epoch : AccountInv(epoch[e], slot)
  BY DEF IInv, TypeOK
<1>1. CASE Initialize
  <2>1. PICK e \in EpochId, s \in Signer, d \in DeadlineChoices :
          initialize_epoch(e, s, d)
    BY <1>1 DEF Initialize
  <2>2. DOMAIN epoch' = DOMAIN epoch \cup {e} /\ slot' = slot
    BY <2>1 DEF initialize_epoch
  <2>3. \A x \in DOMAIN epoch' : AccountInv(epoch'[x], slot)
    BY <1>0, <2>1, <2>2, FreshAccount DEF initialize_epoch
  <2>4. \A x \in DOMAIN epoch' : epoch'[x] \in EpochState
    BY <2>3 DEF AccountInv
  <2>5. epoch' = [x \in DOMAIN epoch' |-> epoch'[x]]
    BY <2>1, <2>2 DEF initialize_epoch
  <2>6. TypeOK'
    BY <2>2, <2>4, <2>5 DEF TypeOK, IInv
  <2>7. QED
    BY <2>2, <2>3, <2>6 DEF IInv
<1>2. CASE Commit
  <2>1. PICK e \in EpochId, s \in Signer, c \in Commitment \cup {Zero} :
          oracle_commit(e, s, c)
    BY <1>2 DEF Commit
  <2>2. AccountInv(Committed(epoch[e], c), slot)
    BY <1>0, <2>1, CommittedAccount DEF oracle_commit
  <2>3. QED
    BY <2>1, <2>2, OneAccountStep DEF oracle_commit
<1>3. CASE Reveal
  <2>1. PICK e \in EpochId, s \in Signer, salt \in Salt, m \in Manifest :
          oracle_reveal(e, s, salt, m)
    BY <1>3 DEF Reveal
  <2>2. AccountInv(Revealed(epoch[e], salt, m), slot)
    BY <1>0, <2>1, RevealedAccount DEF oracle_reveal
  <2>3. QED
    BY <2>1, <2>2, OneAccountStep DEF oracle_reveal
<1>4. CASE Finalize
  <2>1. PICK e \in EpochId, s \in Signer, p \in Proof, pi \in PublicInputs,
             b \in Beta : finalize_epoch(e, s, b, p, pi)
    BY <1>4 DEF Finalize
  <2>2. \E sk \in SecretKey :
          b = Evaluate[<<sk, AlphaHash[epoch[e].entropy_seed]>>]
    BY <2>1, VerifiedOutput DEF finalize_epoch
  <2>3. AccountInv(Finalized(epoch[e], b), slot)
    BY <1>0, <2>1, <2>2, FinalizedAccount DEF finalize_epoch
  <2>4. QED
    BY <2>1, <2>3, OneAccountStep DEF finalize_epoch
<1>5. CASE AdvanceSlot
  <2>1. slot' \in Nat /\ epoch' = epoch
    BY <1>0, <1>5 DEF AdvanceSlot
  <2>2. \A e \in DOMAIN epoch : AccountInv(epoch[e], slot + 1)
    BY <1>0, OlderAccount
  <2>3. QED
    BY <1>5, <2>1, <2>2 DEF IInv, TypeOK, AdvanceSlot
<1>6. CASE UNCHANGED vars
  BY <1>6 DEF vars, IInv, TypeOK
<1>7. QED
  BY <1>1, <1>2, <1>3, <1>4, <1>5, <1>6 DEF Next

\* The inductive invariant holds of every behaviour.
LEMMA Invariance == Spec => []IInv
BY InitInvariant, NextInvariant, PTL DEF Spec

-----------------------------------------------------------------------------
(* What a reader of the accounts may rely on.                               *)

\* Every account is a well-formed EpochState (lib.rs EpochState).
THEOREM TypeCorrect == Spec => []TypeOK
<1>1. IInv => TypeOK
  BY DEF IInv
<1>2. QED
  BY <1>1, Invariance, PTL

\* A stored seed always opens the stored commitment and manifest hash
\* (oracle_reveal, and oracle_commit which could overwrite the commitment).
THEOREM SeedsOpenCommitments == Spec => []SeedOpensCommitment
<1>1. IInv => SeedOpensCommitment
  BY DEF IInv, AccountInv, SeedInv, SeedOpensCommitment
<1>2. QED
  BY <1>1, Invariance, PTL

\* A published output is a VRF output of the stored seed (finalize_epoch, and
\* oracle_reveal which could replace the seed), whatever the deadlines.
THEOREM OutputsProveSeeds == Spec => []OutputProvesSeed
<1>1. IInv => OutputProvesSeed
  BY DEF IInv, AccountInv, OutputInv, OutputProvesSeed
<1>2. QED
  BY <1>1, Invariance, PTL

\* With ordered deadlines the stored phase agrees with the rest of the account
\* (oracle_commit could set a finalized account back to Commit).
THEOREM PhasesTellProgress == Spec => []PhaseTellsProgress
<1>1. IInv => PhaseTellsProgress
  BY DEF IInv, AccountInv, PhaseInv, PhaseTellsProgress
<1>2. QED
  BY <1>1, Invariance, PTL

-----------------------------------------------------------------------------
(* What a step may do to an account that exists.                            *)

AccountStep(st, st2, now) ==
  \/ st2 = st
  \/ \E c \in Commitment \cup {Zero} :
       CommitWindow(st, now) /\ st2 = Committed(st, c)
  \/ \E salt \in Salt, m \in Manifest :
       NotRevealed(st) /\ RevealWindow(st, now) /\ st2 = Revealed(st, salt, m)
  \/ \E b \in Beta :
       NotFinalized(st) /\ FinalizeWindow(st, now) /\ st2 = Finalized(st, b)

LEMMA StepOfAccount ==
  ASSUME TypeOK, [Next]_vars, NEW e \in DOMAIN epoch
  PROVE  e \in DOMAIN epoch' /\ AccountStep(epoch[e], epoch'[e], slot)
<1>1. CASE Initialize
  BY <1>1 DEF Initialize, initialize_epoch, AccountIsNew, AccountStep
<1>2. CASE Commit
  <2>1. PICK x \in EpochId, s \in Signer, c \in Commitment \cup {Zero} :
          oracle_commit(x, s, c)
    BY <1>2 DEF Commit
  <2>2. CASE x = e
    BY <2>1, <2>2 DEF TypeOK, oracle_commit, AccountStep
  <2>3. CASE x # e
    BY <2>1, <2>3 DEF TypeOK, oracle_commit, AccountStep
  <2>4. QED
    BY <2>2, <2>3
<1>3. CASE Reveal
  <2>1. PICK x \in EpochId, s \in Signer, salt \in Salt, m \in Manifest :
          oracle_reveal(x, s, salt, m)
    BY <1>3 DEF Reveal
  <2>2. CASE x = e
    BY <2>1, <2>2 DEF TypeOK, oracle_reveal, AccountStep
  <2>3. CASE x # e
    BY <2>1, <2>3 DEF TypeOK, oracle_reveal, AccountStep
  <2>4. QED
    BY <2>2, <2>3
<1>4. CASE Finalize
  <2>1. PICK x \in EpochId, s \in Signer, p \in Proof, pi \in PublicInputs,
             b \in Beta : finalize_epoch(x, s, b, p, pi)
    BY <1>4 DEF Finalize
  <2>2. CASE x = e
    BY <2>1, <2>2 DEF TypeOK, finalize_epoch, AccountStep
  <2>3. CASE x # e
    BY <2>1, <2>3 DEF TypeOK, finalize_epoch, AccountStep
  <2>4. QED
    BY <2>2, <2>3
<1>5. CASE AdvanceSlot
  BY <1>5 DEF AdvanceSlot, AccountStep
<1>6. CASE UNCHANGED vars
  BY <1>6 DEF vars, AccountStep
<1>7. QED
  BY <1>1, <1>2, <1>3, <1>4, <1>5, <1>6 DEF Next

\* An account that exists keeps its terms (initialize_epoch is init, not
\* init_if_needed, and no other handler writes them).
THEOREM TermsNeverChange == Spec => TermsAreFixed
<1>1. IInv /\ [Next]_vars => TermsKept
  <2> SUFFICES ASSUME IInv, [Next]_vars, NEW e \in DOMAIN epoch
               PROVE  /\ e \in DOMAIN epoch'
                      /\ SameTerms(epoch[e], epoch'[e])
    BY DEF TermsKept
  <2>1. AccountStep(epoch[e], epoch'[e], slot) /\ e \in DOMAIN epoch'
    BY StepOfAccount DEF IInv
  <2>2. epoch[e] \in EpochState
    BY DEF IInv, AccountInv
  <2>3. QED
    BY <2>1, <2>2
    DEF SameTerms, AccountStep, Committed, Revealed, Finalized, EpochState
<1>2. QED
  BY <1>1, Invariance, PTL DEF TermsAreFixed, Spec

LEMMA BoundSeedStays == IInv /\ [Next]_vars => BoundSeedKept
<1> SUFFICES ASSUME IInv, [Next]_vars, NEW e \in DOMAIN epoch,
                    epoch[e].entropy_seed # Zero
             PROVE  /\ epoch'[e].entropy_seed = epoch[e].entropy_seed
                    /\ epoch'[e].entropy_manifest_hash
                         = epoch[e].entropy_manifest_hash
                    /\ epoch'[e].commitment = epoch[e].commitment
  BY DEF BoundSeedKept
<1>1. AccountStep(epoch[e], epoch'[e], slot)
  BY StepOfAccount DEF IInv
<1>2. epoch[e] \in EpochState /\ slot \in Nat
  BY DEF IInv, AccountInv, TypeOK
<1>3. ~CommitWindow(epoch[e], slot) /\ ~NotRevealed(epoch[e])
  BY <1>2
  DEF IInv, AccountInv, WindowInv, CommitWindow, NotRevealed, EpochState
<1>4. QED
  BY <1>1, <1>2, <1>3 DEF AccountStep, Finalized, EpochState

\* A bound seed and the commitment under it are never replaced
\* (oracle_reveal's AlreadyRevealed, oracle_commit's deadline).
THEOREM RevealsBind == Spec => RevealIsBinding
BY BoundSeedStays, Invariance, PTL DEF RevealIsBinding, Spec

\* A finalized account with ordered deadlines never changes (oracle_commit and
\* oracle_reveal do not look at is_finalized: their deadlines stop them).
THEOREM FinalizedNeverChanges == Spec => FinalizedIsForever
<1>1. IInv /\ [Next]_vars => FinalAccountKept
  <2> SUFFICES ASSUME IInv, [Next]_vars, NEW e \in DOMAIN epoch,
                      epoch[e].is_finalized, Ordered(epoch[e])
               PROVE  epoch'[e] = epoch[e]
    BY DEF FinalAccountKept
  <2>1. AccountStep(epoch[e], epoch'[e], slot)
    BY StepOfAccount DEF IInv
  <2>2. epoch[e] \in EpochState /\ slot \in Nat
    BY DEF IInv, AccountInv, TypeOK
  <2>3. /\ ~CommitWindow(epoch[e], slot)
        /\ ~RevealWindow(epoch[e], slot)
        /\ ~NotFinalized(epoch[e])
    BY <2>2
    DEF IInv, AccountInv, WindowInv, CommitWindow, RevealWindow, NotFinalized,
        Ordered, EpochState
  <2>4. QED
    BY <2>1, <2>3 DEF AccountStep
<1>2. QED
  BY <1>1, Invariance, PTL DEF FinalizedIsForever, Spec

-----------------------------------------------------------------------------
(* The refinement of EpochLifecycle.                                        *)

LEMMA LifecycleInit == Init => Lifecycle!Init
BY DEF Init, Lifecycle!Init, StageMap, SeedMap, OutputMap, Stage

\* Steps that leave every epoch's stage, seed and output alone stutter.
LEMMA Stutter ==
  ASSUME StageMap' = StageMap, SeedMap' = SeedMap, OutputMap' = OutputMap
  PROVE  UNCHANGED Lifecycle!vars
BY DEF Lifecycle!vars

LEMMA LifecycleStep == IInv /\ [Next]_vars => [Lifecycle!Next]_(Lifecycle!vars)
<1> SUFFICES ASSUME IInv, [Next]_vars
             PROVE  Lifecycle!Next \/ UNCHANGED Lifecycle!vars
  OBVIOUS
<1> USE DEF StageMap, SeedMap, OutputMap, Stage
<1>0. /\ slot \in Nat
      /\ \A e \in DOMAIN epoch :
           epoch[e] \in EpochState /\ AccountInv(epoch[e], slot)
  BY DEF IInv, TypeOK, AccountInv
<1>1. CASE Initialize
  <2>1. PICK e \in EpochId, s \in Signer, d \in DeadlineChoices :
          initialize_epoch(e, s, d)
    BY <1>1 DEF Initialize
  <2>2. e \notin DOMAIN epoch /\ DOMAIN epoch' = DOMAIN epoch \cup {e}
    BY <2>1 DEF initialize_epoch, AccountIsNew
  <2>3. /\ \A x \in DOMAIN epoch : epoch'[x] = epoch[x]
        /\ epoch'[e] = Fresh(s, d)
    BY <2>1, <2>2 DEF initialize_epoch
  <2>31. /\ epoch'[e].is_finalized = FALSE
        /\ epoch'[e].entropy_seed = Zero
        /\ epoch'[e].vrf_output = Zero
    BY <2>3 DEF Fresh
  <2>4. /\ StageMap[e] = "absent"
        /\ StageMap' = [StageMap EXCEPT ![e] = "open"]
        /\ SeedMap' = SeedMap
        /\ OutputMap' = OutputMap
    BY <2>2, <2>3, <2>31
  <2>5. Lifecycle!Open(e)
    BY <2>4 DEF Lifecycle!Open
  <2>6. QED
    BY <2>5 DEF Lifecycle!Next
<1>2. CASE Commit
  <2>1. PICK e \in EpochId, s \in Signer, c \in Commitment \cup {Zero} :
          oracle_commit(e, s, c)
    BY <1>2 DEF Commit
  <2>2. /\ DOMAIN epoch' = DOMAIN epoch
        /\ \A x \in DOMAIN epoch :
             /\ epoch'[x].is_finalized = epoch[x].is_finalized
             /\ epoch'[x].entropy_seed = epoch[x].entropy_seed
             /\ epoch'[x].vrf_output = epoch[x].vrf_output
    BY <1>0, <2>1 DEF oracle_commit, Committed, EpochState
  <2>3. QED
    BY <2>2, Stutter
<1>3. CASE Reveal
  <2>1. PICK e \in EpochId, s \in Signer, salt \in Salt, m \in Manifest :
          oracle_reveal(e, s, salt, m)
    BY <1>3 DEF Reveal
  <2>2. /\ e \in DOMAIN epoch
        /\ DOMAIN epoch' = DOMAIN epoch
        /\ epoch'[e] = Revealed(epoch[e], salt, m)
        /\ \A x \in DOMAIN epoch : x # e => epoch'[x] = epoch[x]
    BY <2>1 DEF oracle_reveal
  <2>3. epoch[e].entropy_seed = Zero /\ ~epoch[e].is_finalized
    BY <1>0, <2>1, <2>2
    DEF oracle_reveal, NotRevealed, RevealWindow, AccountInv, WindowInv,
        EpochState
  <2>4. OracleSeed[<<salt, m>>] \in Seed /\ OracleSeed[<<salt, m>>] # Zero
    BY HashesAreNotZero
  <2>5. /\ epoch'[e].entropy_seed = OracleSeed[<<salt, m>>]
        /\ epoch'[e].is_finalized = epoch[e].is_finalized
        /\ epoch'[e].vrf_output = epoch[e].vrf_output
    BY <1>0, <2>2 DEF Revealed, EpochState
  <2>6. /\ StageMap[e] = "open"
        /\ StageMap' = [StageMap EXCEPT ![e] = "bound"]
        /\ SeedMap' = [SeedMap EXCEPT ![e] = OracleSeed[<<salt, m>>]]
        /\ OutputMap' = OutputMap
    BY <2>2, <2>3, <2>4, <2>5
  <2>7. Lifecycle!Bind(e)
    BY <2>4, <2>6 DEF Lifecycle!Bind
  <2>8. QED
    BY <2>7 DEF Lifecycle!Next
<1>4. CASE Finalize
  <2>1. PICK e \in EpochId, s \in Signer, p \in Proof, pi \in PublicInputs,
             b \in Beta : finalize_epoch(e, s, b, p, pi)
    BY <1>4 DEF Finalize
  <2>2. /\ e \in DOMAIN epoch
        /\ DOMAIN epoch' = DOMAIN epoch
        /\ epoch'[e] = Finalized(epoch[e], b)
        /\ \A x \in DOMAIN epoch : x # e => epoch'[x] = epoch[x]
        /\ ~epoch[e].is_finalized
    BY <2>1 DEF finalize_epoch, NotFinalized
  <2>3. /\ epoch'[e].entropy_seed = epoch[e].entropy_seed
        /\ epoch'[e].is_finalized
        /\ epoch'[e].vrf_output = b
    BY <1>0, <2>2 DEF Finalized, EpochState
  <2>4. PICK sk \in SecretKey :
          b = Evaluate[<<sk, AlphaHash[epoch[e].entropy_seed]>>]
    BY <2>1, VerifiedOutput DEF finalize_epoch
  <2>5. /\ StageMap[e] \in {"open", "bound"}
        /\ StageMap' = [StageMap EXCEPT ![e] = "published"]
        /\ SeedMap' = SeedMap
        /\ OutputMap' = [OutputMap EXCEPT ![e] = b]
    BY <2>2, <2>3
  <2>6. SeedMap[e] = epoch[e].entropy_seed
    BY <2>2
  <2>7. Lifecycle!Publish(e)
    BY <2>4, <2>5, <2>6 DEF Lifecycle!Publish
  <2>8. QED
    BY <2>7 DEF Lifecycle!Next
<1>5. CASE AdvanceSlot
  BY <1>5, Stutter DEF AdvanceSlot
<1>6. CASE UNCHANGED vars
  BY <1>6, Stutter DEF vars
<1>7. QED
  BY <1>1, <1>2, <1>3, <1>4, <1>5, <1>6 DEF Next

\* The accounts behave as the abstract life cycle promises, whatever the
\* deadlines they were opened with.
THEOREM BeaconImplementsLifecycle == Spec => ImplementsLifecycle
BY LifecycleInit, LifecycleStep, Invariance, PTL
DEF ImplementsLifecycle, Lifecycle!Spec, Spec

-----------------------------------------------------------------------------
(* Behind the network (module Cluster): what the proofs about both oracle   *)
(* processes rest on.  A transaction the network executes is an instruction *)
(* of the program, a window that is over stays over, and a transaction that *)
(* was sent in its window keeps what made it safe to send.                  *)

CommitsOver == Initialized /\ account.commit_deadline_slot < slot
RevealsOver == Initialized /\ account.reveal_deadline_slot < slot
EpochOver == Initialized /\ account.finalize_deadline_slot < slot

\* A transaction is sent only when the window before its own is over, and a
\* finalization with the seed that is then final.
TxInv(tx) ==
  /\ tx.kind = "reveal" => CommitsOver
  /\ tx.kind = "finalize" => RevealsOver /\ tx.seed = account.entropy_seed

-----------------------------------------------------------------------------
(* The network only executes instructions of the program.                   *)

LEMMA Chosen ==
  ASSUME NEW S, S # {}
  PROVE  Fresh1(S) \in S
BY DEF Fresh1

LEMMA OracleInputs ==
  ASSUME NEW seed \in Seed \cup {Zero}
  PROVE  /\ Output(seed) \in Beta
         /\ Inputs(seed) \in Proof
         /\ Inputs(seed) \in PublicInputs
<1>1. AlphaHash[seed] \in Alpha /\ VrfKey \in SecretKey
  BY HashesAreNotZero, ClusterConstants
<1>2. Output(seed) \in Beta
  BY <1>1, HashesAreNotZero DEF Output
<1>3. Inputs(seed) \in Proof
  BY <1>1 DEF Inputs, Output, Proof, Statement
<1>4. Inputs(seed) \in PublicInputs
  BY <1>1, <1>2 DEF Inputs, PublicInputs
<1>5. QED
  BY <1>2, <1>3, <1>4

\* A transaction the network executes is an instruction of the program.
LEMMA ExecuteIsInstruction ==
  ASSUME NEW tx \in Tx, Execute(tx)
  PROVE  Next
<1> USE ClusterConstants
<1>1. CASE /\ tx.kind = "commit"
           /\ oracle_commit(TheEpoch, Oracle, CommitmentHash[tx.salt])
  <2>1. CommitmentHash[tx.salt] \in Commitment
    BY <1>1, HashesAreNotZero DEF Tx, CommitTx, RevealTx, FinalizeTx
  <2>2. Commit
    BY <1>1, <2>1 DEF Commit
  <2>3. QED
    BY <2>2 DEF Next
<1>2. CASE /\ tx.kind = "reveal"
           /\ oracle_reveal(TheEpoch, Oracle, tx.salt, tx.manifest)
  <2>1. tx.salt \in Salt /\ tx.manifest \in Manifest
    BY <1>2 DEF Tx, CommitTx, RevealTx, FinalizeTx
  <2>2. Reveal
    BY <1>2, <2>1 DEF Reveal
  <2>3. QED
    BY <2>2 DEF Next
<1>3. CASE /\ tx.kind = "finalize"
           /\ finalize_epoch(TheEpoch, Oracle, Output(tx.seed), Inputs(tx.seed),
                             Inputs(tx.seed))
  <2>1. tx.seed \in Seed \cup {Zero}
    BY <1>3 DEF Tx, CommitTx, RevealTx, FinalizeTx
  <2>2. Finalize
    BY <1>3, <2>1, OracleInputs DEF Finalize
  <2>3. QED
    BY <2>2 DEF Next
<1>4. QED
  BY <1>1, <1>2, <1>3 DEF Execute

LEMMA NetworkIsProgram ==
  ASSUME ClusterTypeOK, Network
  PROVE  [Next]_vars
<1>1. PICK tx \in pool : Land(tx) \/ Lose(tx)
  BY DEF Network
<1>2. tx \in Tx
  BY DEF ClusterTypeOK
<1>3. QED
  BY <1>1, <1>2, ExecuteIsInstruction DEF Land, Lose, chain, vars

-----------------------------------------------------------------------------
(* What a step of the program leaves as it was.                             *)

LEMMA StepKeeps ==
  ASSUME NEW st \in EpochState, NEW st2, NEW now \in Nat,
         AccountStep(st, st2, now)
  PROVE  /\ SameTerms(st, st2)
         /\ st.is_finalized => st2.is_finalized
         /\ st.reveal_deadline_slot < now => st2.entropy_seed = st.entropy_seed
         /\ st.finalize_deadline_slot < now =>
              st2.is_finalized = st.is_finalized
<1>1. CASE st2 = st
  BY <1>1 DEF SameTerms
<1>2. CASE \E c \in Commitment \cup {Zero} : st2 = Committed(st, c)
  BY <1>2 DEF SameTerms, Committed, EpochState
<1>3. CASE \E salt \in Salt, m \in Manifest :
             RevealWindow(st, now) /\ st2 = Revealed(st, salt, m)
  <2>1. ~(st.reveal_deadline_slot < now)
    BY <1>3 DEF RevealWindow, EpochState
  <2>2. QED
    BY <1>3, <2>1 DEF SameTerms, Revealed, EpochState
<1>4. CASE \E b \in Beta : FinalizeWindow(st, now) /\ st2 = Finalized(st, b)
  <2>1. ~(st.finalize_deadline_slot < now)
    BY <1>4 DEF FinalizeWindow, EpochState
  <2>2. QED
    BY <1>4, <2>1 DEF SameTerms, Finalized, EpochState
<1>5. QED
  BY <1>1, <1>2, <1>3, <1>4 DEF AccountStep

LEMMA ChainKeeps ==
  ASSUME IInv, [Next]_vars, Initialized
  PROVE  /\ Initialized' /\ SameTerms(account, account')
         /\ account \in EpochState /\ account' \in EpochState
         /\ slot \in Nat /\ slot' \in Nat /\ slot <= slot'
         /\ account.is_finalized => account'.is_finalized
         /\ RevealsOver => account'.entropy_seed = account.entropy_seed
         /\ EpochOver => account'.is_finalized = account.is_finalized
<1>1. IInv'
  BY NextInvariant
<1>2. Initialized' /\ AccountStep(account, account', slot)
  BY StepOfAccount DEF IInv, Initialized, account
<1>3. account \in EpochState /\ AccountInv(account, slot) /\ slot \in Nat
  BY DEF IInv, TypeOK, AccountInv, Initialized, account
<1>4. account' \in EpochState /\ slot' \in Nat
  BY <1>1, <1>2 DEF IInv, TypeOK, AccountInv, Initialized, account
<1>5. slot <= slot'
  <2>1. CASE AdvanceSlot
    BY <2>1, <1>3 DEF AdvanceSlot
  <2>2. CASE slot' = slot
    BY <2>2, <1>3
  <2>3. QED
    BY <2>1, <2>2
    DEF Next, vars, Initialize, Commit, Reveal, Finalize, initialize_epoch,
        oracle_commit, oracle_reveal, finalize_epoch
<1>6. /\ SameTerms(account, account')
      /\ account.is_finalized => account'.is_finalized
      /\ RevealsOver => account'.entropy_seed = account.entropy_seed
      /\ EpochOver => account'.is_finalized = account.is_finalized
  BY <1>2, <1>3, StepKeeps DEF RevealsOver, EpochOver
<1>7. QED
  BY <1>2, <1>3, <1>4, <1>5, <1>6

\* A window that is over stays over.
LEMMA WindowsStayOver ==
  ASSUME IInv, [Next]_vars
  PROVE  /\ CommitsOver => CommitsOver'
         /\ RevealsOver => RevealsOver'
         /\ EpochOver => EpochOver'
<1>1. CASE Initialized
  BY <1>1, ChainKeeps
  DEF CommitsOver, RevealsOver, EpochOver, SameTerms, EpochState
<1>2. CASE ~Initialized
  BY <1>2 DEF CommitsOver, RevealsOver, EpochOver
<1>3. QED
  BY <1>1, <1>2

LEMMA SameChain ==
  ASSUME UNCHANGED chain
  PROVE  /\ Initialized' <=> Initialized
         /\ account' = account
         /\ slot' = slot
         /\ CommitsOver' <=> CommitsOver
         /\ RevealsOver' <=> RevealsOver
         /\ EpochOver' <=> EpochOver
         /\ \A tx : TxInv(tx)' <=> TxInv(tx)
BY DEF chain, Initialized, account, CommitsOver, RevealsOver, EpochOver, TxInv

LEMMA SameAccounts ==
  ASSUME IInv, UNCHANGED chain
  PROVE  IInv'
BY NextInvariant DEF chain, vars

\* What made a transaction safe to send stays true.
LEMMA SentStaysSafe ==
  ASSUME IInv, [Next]_vars, NEW tx, TxInv(tx)
  PROVE  TxInv(tx)'
BY WindowsStayOver, ChainKeeps DEF TxInv, RevealsOver

=============================================================================
