------------------------- MODULE RunnerMemoryProofs --------------------------
(***************************************************************************)
(* What the oracle process remembers is true, for every set of faults and  *)
(* schedule, any number of starts and of transactions in flight, and any   *)
(* deadlines.                                                              *)
(*                                                                         *)
(* The process remembers what a confirmation told it.  MemoryInv ties a    *)
(* confirmation to what the transaction has done (Told), the archive to    *)
(* the reveal that was sent for it (Holds), and says why neither is undone *)
(* later: the program keeps a bound seed and an output, and the process    *)
(* builds another archive only as long as no reveal was confirmed.         *)
(*                                                                         *)
(* The second half is about RunnerHistory.  As long as nothing was given   *)
(* up on, a working process has no reveal in flight but the one it awaits, *)
(* so it never rebuilds the archive of one (AloneInv); and in its first    *)
(* life no commit but the one it awaits (StandInv).                        *)
(***************************************************************************)
EXTENDS OracleRunnerProofs, RunnerHistory

Building == {"gather", "archive_begin", "archive_raw", "archive_manifest",
             "reveal"}

Bound(m) ==
  /\ account.entropy_seed # Zero
  /\ account.entropy_manifest_hash = m
Told(tx) ==
  /\ Initialized
  /\ tx.kind = "reveal" => Bound(tx.manifest)
  /\ tx.kind = "finalize" => account.is_finalized
Holds(m) == archive.raw = m /\ archive.manifest = m

AwaitInv ==
  pc = "await" =>
    /\ landed => Told(pending)
    /\ pending.kind = "reveal" => Holds(pending.manifest)
BuildInv ==
  /\ pc \in Building => ~has_revealed
  /\ pc = "archive_manifest" => archive.raw = bundle
  /\ pc = "reveal" => Holds(bundle)
KnownInv == commit_state # NoSalt \/ has_revealed \/ has_finalized => Initialized
NewEpochInv ==
  pc = "slot" /\ seen = NoAccount => commit_state = NoSalt /\ ~has_revealed

MemoryInv ==
  AwaitInv /\ BuildInv /\ KnownInv /\ NewEpochInv /\ ConfirmationsAreTrue

-----------------------------------------------------------------------------
(* The chain and the memory.                                                *)

\* What a transaction has done is not undone.
LEMMA ToldStays ==
  ASSUME IInv, [Next]_vars, Initialized
  PROVE  /\ Initialized'
         /\ \A m : Bound(m) => Bound(m)'
         /\ \A tx : Told(tx) => Told(tx)'
         /\ account.is_finalized => account'.is_finalized
<1>1. Initialized' /\ (account.is_finalized => account'.is_finalized)
  BY ChainKeeps
<1>2. BoundSeedKept
  BY BoundSeedStays
<1>3. account = epoch[TheEpoch] /\ account' = epoch'[TheEpoch]
  BY <1>1 DEF account, Initialized
<1>4. \A m : Bound(m) => Bound(m)'
  BY <1>2, <1>3 DEF Bound, BoundSeedKept, Initialized
<1>5. QED
  BY <1>1, <1>4 DEF Told

\* The process remembers something only of an epoch that exists.
LEMMA MemoryStays ==
  ASSUME RunnerInv, MemoryInv, [Next]_vars, UNCHANGED <<memory, archive>>
  PROVE  KnownInv' /\ ConfirmationsAreTrue'
<1> USE DEF memory
<1>1. CASE Initialized
  <2>1. IInv
    BY DEF RunnerInv
  <2>2. KnownInv'
    BY <1>1, <2>1, ToldStays DEF KnownInv
  <2>3. has_revealed => Bound(archive.raw) /\ Holds(archive.raw)
    BY DEF MemoryInv, ConfirmationsAreTrue, Explains, Bound, Holds
  <2>4. ConfirmationsAreTrue'
    BY <1>1, <2>1, <2>3, ToldStays
    DEF MemoryInv, ConfirmationsAreTrue, Explains, Bound, Holds
  <2>5. QED
    BY <2>2, <2>4
<1>2. CASE ~Initialized
  BY <1>2 DEF MemoryInv, KnownInv, ConfirmationsAreTrue
<1>3. QED
  BY <1>1, <1>2

\* A transaction that lands does what it says.
LEMMA LandedTells ==
  ASSUME RunnerTypeOK, NEW tx \in Tx, Execute(tx)
  PROVE  Told(tx)'
<1> USE DEF account, Initialized
<1>1. /\ TheEpoch \in DOMAIN epoch
      /\ DOMAIN epoch' = DOMAIN epoch
  BY DEF Execute, oracle_commit, oracle_reveal, finalize_epoch
<1>2. epoch[TheEpoch] \in EpochState
  BY <1>1 DEF RunnerTypeOK, ClusterTypeOK, TypeOK
<1>3. CASE tx.kind = "commit"
  BY <1>1, <1>3 DEF Told
<1>4. CASE tx.kind = "reveal"
  <2>1. epoch'[TheEpoch]
          = Revealed(epoch[TheEpoch], tx.salt, tx.manifest)
    BY <1>1, <1>4 DEF Execute, oracle_reveal
  <2>2. tx.salt \in Salt /\ tx.manifest \in Manifest
    BY <1>4 DEF Tx, CommitTx, RevealTx, FinalizeTx
  <2>3. OracleSeed[<<tx.salt, tx.manifest>>] # Zero
    BY <2>2, HashesAreNotZero
  <2>4. Bound(tx.manifest)'
    BY <1>1, <1>2, <2>1, <2>3 DEF Bound, Revealed, EpochState
  <2>5. QED
    BY <1>1, <1>4, <2>4 DEF Told
<1>5. CASE tx.kind = "finalize"
  <2>1. epoch'[TheEpoch] = Finalized(epoch[TheEpoch], Output(tx.seed))
    BY <1>1, <1>5 DEF Execute, finalize_epoch
  <2>2. epoch'[TheEpoch].is_finalized
    BY <1>2, <2>1 DEF Finalized, EpochState
  <2>3. QED
    BY <1>1, <1>5, <2>2 DEF Told
<1>6. QED
  BY <1>3, <1>4, <1>5 DEF Execute

-----------------------------------------------------------------------------
(* The steps of an iteration.                                               *)

LEMMA ChainSame ==
  ASSUME UNCHANGED chain
  PROVE  /\ [Next]_vars
         /\ Initialized' = Initialized /\ account' = account
         /\ \A m : Bound(m)' <=> Bound(m)
         /\ \A tx : Told(tx)' <=> Told(tx)
BY DEF chain, vars, Initialized, account, Bound, Told

LEMMA LoopMemory ==
  ASSUME NEW n \in {"select", "retry"}, Loop(n),
         KnownInv', ConfirmationsAreTrue'
  PROVE  MemoryInv'
BY DEF MemoryInv, AwaitInv, BuildInv, NewEpochInv, Building, Loop

LEMMA RetryMemory ==
  ASSUME RunnerInv, MemoryInv, Retry
  PROVE  MemoryInv'
<1>1. UNCHANGED <<chain, memory, archive>>
  BY DEF Retry, Loop
<1>2. KnownInv' /\ ConfirmationsAreTrue'
  BY <1>1, ChainSame, MemoryStays
<1>3. QED
  BY <1>2, LoopMemory DEF Retry

LEMMA ExitMemory ==
  ASSUME RunnerInv, MemoryInv, NEW code, Exit(code)
  PROVE  MemoryInv'
<1>1. UNCHANGED <<chain, memory, archive>>
  BY DEF Exit, cvars, chain
<1>2. KnownInv' /\ ConfirmationsAreTrue'
  BY <1>1, ChainSame, MemoryStays
<1>3. QED
  BY <1>2 DEF MemoryInv, AwaitInv, BuildInv, NewEpochInv, Building, Exit

\* Steps that touch neither memory nor archive.
LEMMA GoToMemory ==
  ASSUME RunnerInv, MemoryInv, NEW n, n # "await", GoTo(n), UNCHANGED archive,
         BuildInv', NewEpochInv'
  PROVE  MemoryInv'
<1>1. UNCHANGED <<chain, memory, archive>>
  BY DEF GoTo, cvars, chain
<1>2. KnownInv' /\ ConfirmationsAreTrue'
  BY <1>1, ChainSame, MemoryStays
<1>3. AwaitInv'
  BY DEF AwaitInv, GoTo
<1>4. QED
  BY <1>2, <1>3 DEF MemoryInv

LEMMA SendMemory ==
  ASSUME RunnerInv, MemoryInv, NEW tx, Send(tx), Await,
         tx.kind = "reveal" => Holds(tx.manifest)
  PROVE  MemoryInv'
<1>1. UNCHANGED <<chain, memory, archive>>
  BY DEF Send, Await
<1>2. KnownInv' /\ ConfirmationsAreTrue'
  BY <1>1, ChainSame, MemoryStays
<1>3. AwaitInv'
  BY <1>1 DEF AwaitInv, Send, Holds
<1>4. QED
  BY <1>2, <1>3 DEF MemoryInv, BuildInv, NewEpochInv, Building, Await

\* An account that does not exist when it is read has left no trace in memory.
LEMMA ReadStateMemory == RunnerInv /\ MemoryInv /\ ReadState => MemoryInv'
<1> SUFFICES ASSUME RunnerInv, MemoryInv, ReadState PROVE MemoryInv'
  OBVIOUS
<1>1. seen' = account /\ GoTo("slot") /\ UNCHANGED archive
  BY DEF ReadState
<1>2. account = NoAccount => ~Initialized
  BY AccountRead, ClusterConstants
<1>3. NewEpochInv'
  BY <1>1, <1>2 DEF MemoryInv, KnownInv, NewEpochInv, GoTo, memory
<1>4. BuildInv'
  BY <1>1 DEF BuildInv, Building, GoTo
<1>5. QED
  BY <1>1, <1>3, <1>4, GoToMemory

\* A reveal is prepared only if none was confirmed.
LEMMA DecideMemory == RunnerInv /\ MemoryInv /\ Decide => MemoryInv'
<1> SUFFICES ASSUME RunnerInv, MemoryInv, Decide PROVE MemoryInv'
  OBVIOUS
<1>1. /\ Decision \in {"SendCommit", "SendReveal", "SendFinalize", "Idle"}
      /\ Decision = "SendReveal" => ~has_revealed
  BY PhaseIsTrue
  DEF Decide, Decision, decide_action, InCommit, InReveal, InFinalize
<1>2. /\ FirstAwait[Decision] \in {"commit", "gather", "read_seed", "select"}
      /\ FirstAwait[Decision] = "gather" => ~has_revealed
  BY <1>1 DEF FirstAwait
<1>3. GoTo(FirstAwait[Decision]) /\ UNCHANGED archive
  BY DEF Decide
<1>4. BuildInv' /\ NewEpochInv'
  BY <1>2, <1>3 DEF BuildInv, NewEpochInv, Building, GoTo, memory
<1>5. QED
  BY <1>2, <1>3, <1>4, GoToMemory

\* While the archive is rebuilt no reveal is confirmed.
LEMMA ArchiveMemory ==
  RunnerInv /\ MemoryInv /\ (ArchiveBegin \/ ArchiveRaw \/ ArchiveManifest)
    => MemoryInv'
<1> SUFFICES ASSUME RunnerInv, MemoryInv,
                    ArchiveBegin \/ ArchiveRaw \/ ArchiveManifest
             PROVE  MemoryInv'
  OBVIOUS
<1>1. UNCHANGED <<chain, memory, bundle>> /\ ~has_revealed
  BY DEF ArchiveBegin, ArchiveRaw, ArchiveManifest, GoTo, cvars, chain,
         MemoryInv, BuildInv, Building
<1>2. KnownInv' /\ ConfirmationsAreTrue'
  BY <1>1, ChainSame DEF MemoryInv, KnownInv, ConfirmationsAreTrue, memory
<1>3. pc' \in {"archive_raw", "archive_manifest", "reveal"}
  BY DEF ArchiveBegin, ArchiveRaw, ArchiveManifest, GoTo
<1>4. archive \in [raw : Manifest \cup {NoManifest, Torn},
                   manifest : Manifest \cup {NoManifest}]
  BY DEF RunnerInv, RunnerTypeOK, ArchiveTypeOK
<1>5. BuildInv'
  BY <1>1, <1>4
  DEF MemoryInv, BuildInv, Building, Holds, ArchiveBegin, ArchiveRaw,
      ArchiveManifest, GoTo, TearRaw, WriteRaw, WriteManifest, memory
<1>6. AwaitInv' /\ NewEpochInv'
  BY <1>3 DEF AwaitInv, NewEpochInv
<1>7. QED
  BY <1>2, <1>5, <1>6 DEF MemoryInv

LEMMA SendStepMemory ==
  RunnerInv /\ MemoryInv /\ (SendCommit \/ SendReveal \/ SendFinalize)
    => MemoryInv'
<1> SUFFICES ASSUME RunnerInv, MemoryInv
             PROVE  SendCommit \/ SendReveal \/ SendFinalize => MemoryInv'
  OBVIOUS
<1>1. CASE SendCommit
  BY <1>1, SendMemory DEF SendCommit, SendCommitTx
<1>2. CASE SendReveal
  <2>1. Holds(bundle)
    BY <1>2 DEF SendReveal, MemoryInv, BuildInv
  <2>2. QED
    BY <1>2, <2>1, SendMemory DEF SendReveal, SendRevealTx
<1>3. CASE SendFinalize
  BY <1>3, SendMemory DEF SendFinalize, SendFinalizeTx
<1>4. QED
  BY <1>1, <1>2, <1>3

\* The process believes a confirmation, and is right.
LEMMA ConfirmedMemory == RunnerInv /\ MemoryInv /\ Confirmed => MemoryInv'
<1> SUFFICES ASSUME RunnerInv, MemoryInv, Confirmed PROVE MemoryInv'
  OBVIOUS
<1>1. UNCHANGED <<chain, archive>> /\ Loop("select")
  BY DEF Confirmed, Loop
<1>2. /\ Told(pending)
      /\ pending.kind = "reveal" => Holds(pending.manifest)
  BY DEF Confirmed, MemoryInv, AwaitInv
<1>3. KnownInv'
  BY <1>1, <1>2, ChainSame DEF KnownInv, Told
<1>4. has_revealed' =>
        account.entropy_seed # Zero /\ Explains
  BY <1>2 DEF Confirmed, MemoryInv, ConfirmationsAreTrue, Told, Bound, Holds,
              Explains
<1>5. has_finalized' => account.is_finalized
  BY <1>2 DEF Confirmed, MemoryInv, ConfirmationsAreTrue, Told
<1>6. ConfirmationsAreTrue'
  BY <1>1, <1>4, <1>5, ChainSame DEF ConfirmationsAreTrue, Explains
<1>7. QED
  BY <1>1, <1>3, <1>6, LoopMemory

-----------------------------------------------------------------------------
(* The steps of the world.                                                  *)

\* What a step of the world leaves true, if what it lands is what it says.
LEMMA WorldMemory ==
  ASSUME RunnerInv, MemoryInv, [Next]_vars, UNCHANGED <<process, archive>>,
         pending' = pending,
         landed' => landed \/ Told(pending)'
  PROVE  MemoryInv'
<1> USE DEF process, memory
<1>1. KnownInv' /\ ConfirmationsAreTrue'
  BY MemoryStays
<1>2. AwaitInv'
  <2>1. pc = "await" /\ landed => Told(pending) /\ Initialized
    BY DEF MemoryInv, AwaitInv, Told
  <2>2. pc = "await" /\ landed => Told(pending)'
    BY <2>1, ToldStays DEF RunnerInv
  <2>3. pc = "await" /\ landed' => Told(pending)'
    BY <2>2
  <2>4. QED
    BY <2>3 DEF MemoryInv, AwaitInv, Holds
<1>3. BuildInv' /\ NewEpochInv'
  BY DEF MemoryInv, BuildInv, NewEpochInv, Holds
<1>4. QED
  BY <1>1, <1>2, <1>3 DEF MemoryInv

LEMMA ClusterMemory ==
  RunnerInv /\ MemoryInv /\ (ClusterStep \/ SlotStep \/ Open) => MemoryInv'
<1> SUFFICES ASSUME RunnerInv, MemoryInv
             PROVE  ClusterStep \/ SlotStep \/ Open => MemoryInv'
  OBVIOUS
<1>1. CASE SlotStep \/ Open
  <2>1. [Next]_vars
    BY <1>1, ChainStep DEF RunnerInv, RunnerNext, World
  <2>2. UNCHANGED <<process, archive, pending, landed>>
    BY <1>1 DEF SlotStep, Tick, Open, InitEpoch
  <2>3. QED
    BY <2>1, <2>2, WorldMemory
<1>2. CASE ClusterStep
  <2>1. PICK tx \in pool : Land(tx) \/ Lose(tx)
    BY <1>2 DEF ClusterStep, Network
  <2>2. [Next]_vars /\ UNCHANGED <<process, archive>>
    BY <1>2, ChainStep DEF RunnerInv, RunnerNext, World, ClusterStep
  <2>3. RunnerTypeOK /\ tx \in Tx
    BY DEF RunnerInv, RunnerTypeOK, ClusterTypeOK
  <2>4. CASE Land(tx)
    <3>1. Told(tx)'
      BY <2>3, <2>4, LandedTells DEF Land
    <3>2. landed' => landed \/ Told(pending)'
      BY <2>4, <3>1 DEF Land, Told, Bound
    <3>3. QED
      BY <2>2, <2>4, <3>2, WorldMemory DEF Land
  <2>5. CASE Lose(tx)
    BY <2>2, <2>5, WorldMemory DEF Lose
  <2>6. QED
    BY <2>1, <2>4, <2>5
<1>3. QED
  BY <1>1, <1>2

\* A process that starts or dies remembers nothing.
LEMMA RestartMemory ==
  RunnerInv /\ MemoryInv /\ (Start \/ Crash) => MemoryInv'
BY DEF Start, Crash, MemoryInv, AwaitInv, BuildInv, KnownInv, NewEpochInv,
       Building, ConfirmationsAreTrue

LEMMA InitMemory == RunnerInit => MemoryInv
BY DEF RunnerInit, MemoryInv, AwaitInv, BuildInv, KnownInv, NewEpochInv,
       Building, ConfirmationsAreTrue

\* Every step keeps the invariant.
LEMMA NextMemory == RunnerInv /\ MemoryInv /\ [RunnerNext]_rvars => MemoryInv'
<1> SUFFICES ASSUME RunnerInv, MemoryInv, [RunnerNext]_rvars
             PROVE  MemoryInv'
  OBVIOUS
<1>1. CASE Progress
  <2>1. CASE LeaveEpoch \/ CloseEpoch
    BY <2>1, ExitMemory DEF LeaveEpoch, CloseEpoch
  <2>2. CASE Rejected
    BY <2>2, RetryMemory DEF Rejected
  <2>3. CASE Resume \/ DecideReread \/ ReadSeed \/ Prove
    <3>1. PICK n \in {"select", "reread", "prove", "finalize"} :
            GoTo(n) /\ UNCHANGED archive
      BY <2>3 DEF Resume, DecideReread, ReadSeed, Prove
    <3>2. BuildInv' /\ NewEpochInv'
      BY <3>1 DEF BuildInv, NewEpochInv, Building, GoTo
    <3>3. QED
      BY <3>1, <3>2, GoToMemory
  <2>4. CASE Gather
    <3>1. GoTo("archive_begin") /\ UNCHANGED archive /\ ~has_revealed
      BY <2>4 DEF Gather, MemoryInv, BuildInv, Building
    <3>2. BuildInv' /\ NewEpochInv'
      BY <3>1 DEF BuildInv, NewEpochInv, Building, GoTo, memory
    <3>3. QED
      BY <3>1, <3>2, GoToMemory
  <2>5. QED
    BY <1>1, <2>1, <2>2, <2>3, <2>4, ReadStateMemory, DecideMemory,
       ArchiveMemory, SendStepMemory, ConfirmedMemory
    DEF Progress
<1>2. CASE Failure
  BY <1>2, RetryMemory, ExitMemory
  DEF Failure, ReadFails, RereadFails, WorkFails, NotSent, GiveUp
<1>3. CASE World
  BY <1>3, ClusterMemory, RestartMemory, ExitMemory DEF World, Interrupt
<1>4. CASE UNCHANGED rvars
  <2>1. UNCHANGED <<chain, process, archive, pending, landed>>
    BY <1>4 DEF rvars, cvars, chain
  <2>2. QED
    BY <2>1, ChainSame, WorldMemory
<1>5. QED
  BY <1>1, <1>2, <1>3, <1>4 DEF RunnerNext

LEMMA MemoryInvariance == RunnerSpec => [](RunnerInv /\ MemoryInv)
<1>1. RunnerInit => RunnerInv /\ MemoryInv
  BY RunnerInitInvariant, InitMemory
<1>2. RunnerInv /\ MemoryInv /\ [RunnerNext]_rvars => (RunnerInv /\ MemoryInv)'
  BY RunnerNextInvariant, NextMemory
<1>3. QED
  BY <1>1, <1>2, PTL DEF RunnerSpec

-----------------------------------------------------------------------------
\* A confirmed reveal has bound the seed and the archive on disk explains it;
\* a confirmed finalization has published the output (runner.rs: only the Ok
\* branch of a send changes CommitState).
THEOREM ConfirmationsHold == RunnerSpec => []ConfirmationsAreTrue
<1>1. RunnerInv /\ MemoryInv => ConfirmationsAreTrue
  BY DEF MemoryInv
<1>2. QED
  BY <1>1, MemoryInvariance, PTL

\* The exit status tells the outcome of the epoch (runner.rs WaitForNextEpoch
\* and its second read).
THEOREM ExitsTellOutcomes == RunnerSpec => ExitTellsOutcome
<1> DEFINE Tells ==
      pc # "exited" /\ pc' = "exited" =>
        \/ Initialized /\ account.is_finalized
        \/ exit_code' = "ok" /\ pc = "select"
        \/ exit_code' = "ok" /\ commit_state = NoSalt /\ ~has_revealed
        \/ exit_code' # "ok" /\ Initialized
             /\ account.finalize_deadline_slot < slot
<1>1. ASSUME RunnerInv, MemoryInv, RunnerNext PROVE Tells
  <2>1. CASE LeaveEpoch
    <3>1. /\ pc = "slot" /\ exit_code' = "ok"
          /\ Phase # "Closed" /\ Decision = "WaitForNextEpoch"
      BY <2>1 DEF LeaveEpoch, Exit
    <3>2. CASE seen = NoAccount
      BY <1>1, <3>1, <3>2 DEF MemoryInv, NewEpochInv
    <3>3. CASE seen # NoAccount
      <4>1. Phase # "None"
        <5>1. Phase = derive_phase(seen, slot)
          BY <3>3 DEF Phase, PhaseOf
        <5>2. QED
          BY <5>1 DEF derive_phase
      <4>2. Phase = "Reveal" /\ commit_state = NoSalt /\ ~has_revealed
        BY <1>1, <3>1, <4>1, PhaseIsTrue
        DEF Decision, decide_action, InCommit, InReveal, InFinalize
      <4>3. QED
        BY <3>1, <4>2
    <3>4. QED
      BY <3>2, <3>3
  <2>2. CASE CloseEpoch \/ RereadFails
    <3>1. Initialized /\ (account.is_finalized \/ EpochOver)
      BY <1>1, <2>2 DEF RunnerInv, RereadInv, CloseEpoch, RereadFails
    <3>2. CASE account.is_finalized
      BY <3>1, <3>2
    <3>3. CASE ~account.is_finalized
      <4>1. account # NoAccount
        BY <1>1, <3>1, AccountRead, ClusterConstants
      <4>2. exit_code' # "ok"
        BY <2>2, <3>3, <4>1 DEF CloseEpoch, RereadFails, ClosingView, Exit
      <4>3. QED
        BY <3>1, <3>3, <4>2 DEF EpochOver
    <3>4. QED
      BY <3>2, <3>3
  <2>3. CASE Interrupt
    BY <2>3 DEF Interrupt, Exit
  <2>4. CASE ~(LeaveEpoch \/ CloseEpoch \/ RereadFails \/ Interrupt)
    <3>1. pc' # "exited" \/ pc' = pc
      <4>1. CASE Decide
        <5>1. Decision \in {"SendCommit", "SendReveal", "SendFinalize", "Idle"}
          BY <1>1, <4>1, PhaseIsTrue
          DEF Decide, Decision, decide_action, InCommit, InReveal, InFinalize
        <5>2. QED
          BY <4>1, <5>1 DEF Decide, FirstAwait, GoTo
      <4>2. CASE Progress /\ ~Decide
        BY <2>4, <4>2
        DEF Progress, Resume, ReadState, DecideReread, SendCommit, Gather,
            ArchiveBegin, ArchiveRaw, ArchiveManifest, SendReveal, ReadSeed,
            Prove, SendFinalize, Confirmed, Rejected, GoTo, Await, Loop, Retry
      <4>3. CASE Failure
        BY <2>4, <4>3
        DEF Failure, ReadFails, WorkFails, NotSent, GiveUp, Retry, Loop
      <4>4. CASE World
        BY <2>4, <4>4
        DEF World, ClusterStep, SlotStep, Open, Start, Crash, process
      <4>5. QED
        BY <1>1, <4>1, <4>2, <4>3, <4>4 DEF RunnerNext
    <3>2. QED
      BY <3>1
  <2>5. QED
    BY <2>1, <2>2, <2>3, <2>4
<1>2. RunnerInv /\ MemoryInv /\ [RunnerNext]_rvars => [Tells]_rvars
  BY <1>1
<1>3. QED
  BY <1>2, MemoryInvariance, PTL DEF RunnerSpec, ExitTellsOutcome

-----------------------------------------------------------------------------
(* As long as nothing was given up on.                                      *)

Commits == {tx \in pool : tx.kind = "commit"}
Reveals == {tx \in pool : tx.kind = "reveal"}

\* The process holds the salt of a commit that was executed, or is about to.
Working ==
  \/ commit_state # NoSalt
  \/ pc = "await" /\ pending.kind = "commit" /\ landed
Stands(s) ==
  account.entropy_seed # Zero \/ account.commitment = CommitmentHash[s]

\* Whatever was given up on: what the lives of the process leave behind.
LifeInv ==
  /\ starts = 0 => pc = "down" /\ pool = {}
  /\ pc = "down" => commit_state = NoSalt
  /\ pc = "commit" => commit_state = NoSalt
  /\ pc = "await" /\ pending.kind = "commit" => commit_state = NoSalt
  /\ pc = "await" /\ landed => pending \notin pool

\* The only reveal in flight is the one that is awaited, unless it is that of a
\* life that is over; the archive on disk is that of every reveal in flight.
AloneInv ==
  /\ Working => \A tx \in Reveals : pc = "await" /\ tx = pending
  /\ Working /\ Initialized /\ account.entropy_seed # Zero =>
       pc = "await" /\ landed /\ pending.kind = "reveal"
  /\ \A tx \in Reveals : Holds(tx.manifest)
  /\ SeedIsArchived

\* In its first life the only commit in flight is the one that is awaited.
StandInv ==
  starts = 1 =>
    /\ pc # "down" => \A tx \in Commits : pc = "await" /\ tx = pending
    /\ commit_state # NoSalt /\ Initialized => Stands(commit_state)
    /\ pc = "await" /\ pending.kind = "commit" /\ landed =>
         Stands(pending.salt)

Known == RunnerInv /\ MemoryInv /\ LifeInv /\ AloneInv /\ StandInv

-----------------------------------------------------------------------------
(* The steps of the process.                                                *)

\* An iteration that neither sends nor awaits, nor touches the archive.
LEMMA StepHistory ==
  ASSUME Known, UNCHANGED <<chain, pool, archive, commit_state, starts>>,
         pc \notin {"down", "await"}, pc' \notin {"down", "await"},
         pc' = "commit" => commit_state = NoSalt
  PROVE  AloneInv' /\ StandInv'
<1>1. /\ ~Working => ~Working'
      /\ Initialized' = Initialized /\ account' = account
      /\ Reveals' = Reveals /\ Commits' = Commits
  BY ChainSame DEF Working, Reveals, Commits
<1>2. AloneInv'
  BY <1>1 DEF Known, AloneInv, Working, Holds, SeedIsArchived, Explains
<1>3. StandInv'
  BY <1>1 DEF Known, StandInv, Stands
<1>4. QED
  BY <1>2, <1>3

\* While an archive is built no reveal is in flight and no seed is bound.
LEMMA ArchiveHistory ==
  ASSUME Known, ArchiveBegin \/ ArchiveRaw \/ ArchiveManifest
  PROVE  AloneInv' /\ StandInv'
<1>1. /\ UNCHANGED <<chain, pool, commit_state, starts>>
      /\ pc \in Building /\ pc' \in Building
  BY DEF ArchiveBegin, ArchiveRaw, ArchiveManifest, GoTo, cvars, chain, memory,
         Building
<1>2. commit_state # NoSalt
  BY <1>1, RunnerConstants DEF Known, RunnerInv, RevealInv, Building
<1>3. Reveals = {} /\ (Initialized => account.entropy_seed = Zero)
  BY <1>1, <1>2 DEF Known, AloneInv, Working, Building
<1>4. /\ Initialized' = Initialized /\ account' = account
      /\ Reveals' = Reveals /\ Commits' = Commits
  BY <1>1, ChainSame DEF Reveals, Commits
<1>5. AloneInv'
  BY <1>3, <1>4 DEF AloneInv, SeedIsArchived
<1>6. StandInv'
  BY <1>1, <1>4 DEF Known, StandInv, Stands, Building
<1>7. QED
  BY <1>5, <1>6

LEMMA SendHistory ==
  ASSUME Known, NEW tx, Send(tx), Await, pc \notin {"down", "await"},
         tx.kind = "commit" => commit_state = NoSalt,
         tx.kind = "reveal" => Holds(tx.manifest) /\ commit_state # NoSalt
  PROVE  AloneInv' /\ StandInv'
<1>1. /\ UNCHANGED <<chain, archive, commit_state, starts>>
      /\ pool' = pool \cup {tx} /\ pending' = tx /\ ~landed' /\ pc' = "await"
  BY DEF Send, Await, memory
<1>2. Initialized' = Initialized /\ account' = account
  BY <1>1, ChainSame
<1>3. Working' => Working
  BY <1>1 DEF Working
<1>4. Working => Reveals = {} /\ (Initialized => account.entropy_seed = Zero)
  BY DEF Known, AloneInv
<1>5. AloneInv'
  BY <1>1, <1>2, <1>3, <1>4
  DEF Known, AloneInv, Reveals, Holds, SeedIsArchived, Explains
<1>6. StandInv'
  BY <1>1, <1>2 DEF Known, StandInv, Stands, Commits
<1>7. QED
  BY <1>5, <1>6

\* An awaited transaction was confirmed, or is known to have failed.
LEMMA SettledHistory ==
  ASSUME Known, Confirmed \/ Rejected
  PROVE  AloneInv' /\ StandInv'
<1>1. /\ UNCHANGED <<chain, pool, archive, starts>>
      /\ pc = "await" /\ pc' \notin {"await", "down"}
      /\ pending \notin pool
  BY DEF Confirmed, Rejected, Retry, Loop, Known, LifeInv
<1>2. /\ Initialized' = Initialized /\ account' = account
      /\ Reveals' = Reveals /\ Commits' = Commits
  BY <1>1, ChainSame DEF Reveals, Commits
<1>3. pending \in Tx
  BY <1>1 DEF Known, RunnerInv
<1>4. pending.kind \in {"commit", "reveal", "finalize"}
  BY <1>3 DEF Tx, CommitTx, RevealTx, FinalizeTx
<1>5. commit_state' # NoSalt =>
        /\ Working /\ ~(landed /\ pending.kind = "reveal")
        /\ \/ commit_state' = commit_state
           \/ landed /\ pending.kind = "commit" /\ commit_state' = pending.salt
  BY <1>1, <1>4 DEF Confirmed, Rejected, Retry, Loop, memory, Working
<1>6. AloneInv'
  BY <1>1, <1>2, <1>5
  DEF Known, AloneInv, Working, Reveals, Holds, SeedIsArchived, Explains
<1>7. StandInv'
  BY <1>1, <1>2, <1>5 DEF Known, StandInv, Stands, Commits
<1>8. QED
  BY <1>6, <1>7

\* A life begins or ends; what it sent may still be in flight.
LEMMA RestartHistory ==
  ASSUME Known, Start \/ Crash
  PROVE  AloneInv' /\ StandInv'
<1>1. /\ UNCHANGED <<chain, pool, archive>>
      /\ commit_state' = NoSalt /\ pc' # "await"
  BY DEF Start, Crash, cvars, chain
<1>2. /\ Initialized' = Initialized /\ account' = account
      /\ Reveals' = Reveals /\ Commits' = Commits /\ ~Working'
  BY <1>1, ChainSame DEF Reveals, Commits, Working
<1>3. AloneInv'
  BY <1>1, <1>2 DEF Known, AloneInv, Holds, SeedIsArchived, Explains
<1>4. StandInv'
  <2>1. CASE Crash
    BY <1>1, <2>1 DEF StandInv, Crash
  <2>2. CASE Start
    <3>1. starts \in Nat /\ starts' = starts + 1
      BY <2>2, RunnerConstants DEF Start, Known, RunnerInv, RunnerTypeOK
    <3>2. starts' = 1 => Commits' = {}
      BY <1>2, <3>1 DEF Known, LifeInv, Commits
    <3>3. QED
      BY <1>1, <3>2 DEF StandInv
  <2>3. QED
    BY <2>1, <2>2
<1>5. QED
  BY <1>3, <1>4

-----------------------------------------------------------------------------
(* The steps of the world.                                                  *)

\* Before the epoch exists there is nothing to lose.
LEMMA OpenHistory ==
  ASSUME Known, SlotStep \/ Open
  PROVE  AloneInv' /\ StandInv'
<1>1. /\ UNCHANGED <<pool, pending, landed, process, archive>>
      /\ Reveals' = Reveals /\ Commits' = Commits
      /\ Working' <=> Working
  BY DEF SlotStep, Tick, Open, InitEpoch, Reveals, Commits, Working, process,
         memory
<1>2. CASE SlotStep
  <2>1. Initialized' = Initialized /\ account' = account
    BY <1>2 DEF SlotStep, Tick, AdvanceSlot, Initialized, account
  <2>2. QED
    BY <1>1, <2>1
    DEF Known, AloneInv, StandInv, Stands, Holds, SeedIsArchived, Explains,
        process, memory
<1>3. CASE Open
  <2>1. PICK authority \in Signer, d \in DeadlineChoices :
          initialize_epoch(TheEpoch, authority, d)
    BY <1>3 DEF Open, InitEpoch
  <2>2. ~Initialized /\ account' = Fresh(authority, d)
    BY <2>1 DEF initialize_epoch, AccountIsNew, Initialized, account
  <2>3. account'.entropy_seed = Zero
    BY <2>2 DEF Fresh
  <2>4. ~Working
    BY <2>2 DEF Known, Working, MemoryInv, KnownInv, AwaitInv, Told
  <2>5. AloneInv'
    BY <1>1, <2>3, <2>4 DEF Known, AloneInv, Holds, SeedIsArchived
  <2>6. StandInv'
    BY <1>1, <2>4 DEF Known, StandInv, Working, process, memory
  <2>7. QED
    BY <2>5, <2>6
<1>4. QED
  BY <1>2, <1>3

LEMMA LoseHistory ==
  ASSUME Known, NEW tx \in pool, Lose(tx), UNCHANGED <<process, archive>>
  PROVE  AloneInv' /\ StandInv'
<1>1. /\ Reveals' \subseteq Reveals /\ Commits' \subseteq Commits
      /\ Working' <=> Working
      /\ Initialized' = Initialized /\ account' = account
  BY ChainSame DEF Lose, Reveals, Commits, Working, process, memory
<1>2. UNCHANGED <<pc, pending, landed, archive, commit_state, starts>>
  BY DEF Lose, process, memory
<1>3. AloneInv'
  BY <1>1, <1>2 DEF Known, AloneInv, Holds, SeedIsArchived, Explains
<1>4. StandInv'
  BY <1>1, <1>2 DEF Known, StandInv, Stands
<1>5. QED
  BY <1>3, <1>4

\* What the three instructions write.
LEMMA Writes ==
  ASSUME RunnerInv, NEW tx \in Tx, Execute(tx)
  PROVE  /\ Initialized /\ Initialized'
         /\ tx.kind = "commit" =>
              /\ account.entropy_seed = Zero /\ account'.entropy_seed = Zero
              /\ account'.commitment = CommitmentHash[tx.salt]
              /\ ~CommitsOver
         /\ tx.kind = "reveal" =>
              /\ account'.entropy_seed # Zero
              /\ account'.entropy_manifest_hash = tx.manifest
         /\ tx.kind = "finalize" =>
              /\ account'.entropy_seed = account.entropy_seed
              /\ account'.entropy_manifest_hash
                   = account.entropy_manifest_hash
              /\ account'.commitment = account.commitment
<1>1. Initialized /\ Initialized'
  BY DEF Execute, oracle_commit, oracle_reveal, finalize_epoch, Initialized
<1>2. /\ account = epoch[TheEpoch] /\ account' = epoch'[TheEpoch]
      /\ account \in EpochState /\ AccountInv(account, slot) /\ slot \in Nat
  BY <1>1
  DEF account, Initialized, RunnerInv, IInv, TypeOK, AccountInv
<1>3. CASE tx.kind = "commit"
  <2>1. /\ account' = Committed(account, CommitmentHash[tx.salt])
        /\ slot <= account.commit_deadline_slot
    BY <1>1, <1>2, <1>3
    DEF Execute, oracle_commit, CommitWindow, Initialized
  <2>2. ~(account.commit_deadline_slot < slot)
    BY <1>2, <2>1 DEF EpochState
  <2>3. account.entropy_seed = Zero
    BY <1>2, <2>2 DEF AccountInv, WindowInv
  <2>4. /\ account'.entropy_seed = account.entropy_seed
        /\ account'.commitment = CommitmentHash[tx.salt]
    BY <1>2, <2>1 DEF Committed, EpochState
  <2>5. QED
    BY <1>1, <1>3, <2>2, <2>3, <2>4 DEF CommitsOver
<1>4. CASE tx.kind = "reveal"
  <2>1. Told(tx)'
    BY LandedTells DEF RunnerInv
  <2>2. QED
    BY <1>1, <1>4, <2>1 DEF Told, Bound
<1>5. CASE tx.kind = "finalize"
  <2>1. account' = Finalized(account, Output(tx.seed))
    BY <1>1, <1>2, <1>5 DEF Execute, finalize_epoch, Initialized
  <2>2. QED
    BY <1>1, <1>2, <1>5, <2>1 DEF Finalized, EpochState
<1>6. QED
  BY <1>3, <1>4, <1>5 DEF Execute

LEMMA LandHistory ==
  ASSUME Known, NEW tx \in pool, Land(tx), UNCHANGED <<process, archive>>
  PROVE  AloneInv' /\ StandInv'
<1>1. /\ Reveals' \subseteq Reveals /\ Commits' \subseteq Commits
      /\ UNCHANGED <<pc, pending, archive, commit_state, starts>>
      /\ landed' = (landed \/ tx = pending)
      /\ landed \in BOOLEAN
  BY DEF Land, Reveals, Commits, process, memory, Known, RunnerInv,
         RunnerTypeOK, ClusterTypeOK
<1>2. tx \in Tx
  BY DEF Known, RunnerInv, RunnerTypeOK, ClusterTypeOK
<1>3. RunnerInv /\ Execute(tx) /\ TxInv(tx)
  BY DEF Known, RunnerInv, Land
<1>4. CASE tx.kind = "commit"
  <2>1. /\ Initialized' /\ account'.entropy_seed = Zero
        /\ account'.commitment = CommitmentHash[tx.salt]
        /\ ~CommitsOver
    BY <1>2, <1>3, <1>4, Writes
  <2>2. Reveals = {}
    BY <2>1 DEF Known, RunnerInv, TxInv, Reveals
  <2>3. AloneInv'
    BY <1>1, <2>1, <2>2 DEF AloneInv, SeedIsArchived
  <2>4. StandInv'
    <3>1. CASE pc = "down"
      BY <1>1, <3>1 DEF Known, LifeInv, StandInv
    <3>2. CASE pc # "down" /\ starts = 1
      <4>1. pc = "await" /\ tx = pending
        BY <1>4, <3>2 DEF Known, StandInv, Commits
      <4>2. commit_state = NoSalt
        BY <1>4, <4>1 DEF Known, LifeInv
      <4>3. QED
        BY <1>1, <2>1, <3>2, <4>1, <4>2 DEF Known, StandInv, Stands
    <3>3. CASE starts # 1
      BY <1>1, <3>3 DEF StandInv
    <3>4. QED
      BY <3>1, <3>2, <3>3
  <2>5. QED
    BY <2>3, <2>4
<1>5. CASE tx.kind = "reveal"
  <2>1. /\ Initialized' /\ account'.entropy_seed # Zero
        /\ account'.entropy_manifest_hash = tx.manifest
    BY <1>2, <1>3, <1>5, Writes
  <2>2. tx \in Reveals /\ Holds(tx.manifest)
    BY <1>5 DEF Known, AloneInv, Reveals
  <2>3. Working' => Working
    BY <1>1, <1>5 DEF Working
  <2>4. Working => pc = "await" /\ tx = pending
    BY <2>2 DEF Known, AloneInv
  <2>5. AloneInv'
    BY <1>1, <1>5, <2>1, <2>2, <2>3, <2>4
    DEF Known, AloneInv, Holds, SeedIsArchived, Explains
  <2>6. StandInv'
    BY <1>1, <2>1 DEF Known, StandInv, Stands
  <2>7. QED
    BY <2>5, <2>6
<1>6. CASE tx.kind = "finalize"
  <2>1. /\ Initialized /\ Initialized'
        /\ account'.entropy_seed = account.entropy_seed
        /\ account'.entropy_manifest_hash = account.entropy_manifest_hash
        /\ account'.commitment = account.commitment
    BY <1>2, <1>3, <1>6, Writes
  <2>2. Working' => Working
    BY <1>1, <1>6 DEF Working
  <2>3. AloneInv'
    BY <1>1, <2>1, <2>2
    DEF Known, AloneInv, Holds, SeedIsArchived, Explains
  <2>4. StandInv'
    BY <1>1, <1>6, <2>1 DEF Known, StandInv, Stands
  <2>5. QED
    BY <2>3, <2>4
<1>7. QED
  BY <1>3, <1>4, <1>5, <1>6 DEF Execute

-----------------------------------------------------------------------------
(* The history.                                                             *)

\* The lives of the process, whatever was given up on.
LEMMA LifeStep ==
  ASSUME RunnerInv, LifeInv, RunnerNext
  PROVE  LifeInv'
<1> USE DEF LifeInv
<1>1. CASE Decide
  <2>1. /\ Decision \in {"SendCommit", "SendReveal", "SendFinalize", "Idle"}
        /\ Decision = "SendCommit" => commit_state = NoSalt
    BY <1>1, PhaseIsTrue
    DEF Decide, Decision, decide_action, InCommit, InReveal, InFinalize
  <2>2. QED
    BY <1>1, <2>1 DEF Decide, FirstAwait, GoTo, memory
<1>2. CASE SendCommit \/ SendReveal \/ SendFinalize
  BY <1>2
  DEF SendCommit, SendReveal, SendFinalize, SendCommitTx, SendRevealTx,
      SendFinalizeTx, Send, Await, memory
<1>3. CASE Confirmed \/ Rejected
  BY <1>3 DEF Confirmed, Rejected, Retry, Loop
<1>4. CASE Progress /\ pc # "await" /\ ~Decide
           /\ ~(SendCommit \/ SendReveal \/ SendFinalize)
  BY <1>4
  DEF Progress, Resume, ReadState, LeaveEpoch, DecideReread, CloseEpoch,
      Gather, ArchiveBegin, ArchiveRaw, ArchiveManifest, ReadSeed, Prove,
      Confirmed, Rejected, GoTo, Exit, memory
<1>5. CASE Failure
  BY <1>5
  DEF Failure, ReadFails, RereadFails, WorkFails, NotSent, GiveUp, Retry, Loop,
      Exit, memory
<1>6. CASE ClusterStep
  <2>1. PICK tx \in pool : Land(tx) \/ Lose(tx)
    BY <1>6 DEF ClusterStep, Network
  <2>2. UNCHANGED process /\ landed \in BOOLEAN
    BY <1>6 DEF ClusterStep, RunnerInv, RunnerTypeOK, ClusterTypeOK
  <2>3. QED
    BY <2>1, <2>2 DEF Land, Lose, process, memory
<1>7. CASE SlotStep \/ Open
  BY <1>7 DEF SlotStep, Tick, Open, InitEpoch, process, memory
<1>8. CASE Start \/ Crash \/ Interrupt
  <2>1. starts \in Nat
    BY RunnerConstants DEF RunnerInv, RunnerTypeOK
  <2>2. QED
    BY <1>8, <2>1 DEF Start, Crash, Interrupt, Exit, memory
<1>9. CASE Progress /\ pc = "await"
  <2>1. Confirmed \/ Rejected
    BY <1>9
    DEF Progress, Resume, ReadState, Decide, LeaveEpoch, DecideReread,
        CloseEpoch, SendCommit, Gather, ArchiveBegin, ArchiveRaw,
        ArchiveManifest, SendReveal, ReadSeed, Prove, SendFinalize
  <2>2. QED
    BY <1>3, <2>1
<1>10. QED
  BY <1>1, <1>2, <1>3, <1>4, <1>5, <1>6, <1>7, <1>8, <1>9
  DEF RunnerNext, World

\* A step that does not give up on a transaction.
LEMMA KnownStep ==
  ASSUME Known, RunnerNext, ~GiveUp
  PROVE  AloneInv' /\ StandInv'
<1>1. CASE Resume \/ ReadState \/ LeaveEpoch \/ DecideReread \/ CloseEpoch
           \/ Gather \/ ReadSeed \/ Prove \/ Interrupt
  BY <1>1, StepHistory
  DEF Resume, ReadState, LeaveEpoch, DecideReread, CloseEpoch, Gather,
      ReadSeed, Prove, Interrupt, GoTo, Exit, cvars, chain, memory
<1>2. CASE Decide
  <2>1. /\ Decision \in {"SendCommit", "SendReveal", "SendFinalize", "Idle"}
        /\ Decision = "SendCommit" => commit_state = NoSalt
    BY <1>2, PhaseIsTrue
    DEF Known, Decide, Decision, decide_action, InCommit, InReveal, InFinalize
  <2>2. /\ UNCHANGED <<chain, pool, archive, commit_state, starts>>
        /\ pc = "slot" /\ pc' \notin {"down", "await"}
        /\ pc' = "commit" => commit_state = NoSalt
    BY <1>2, <2>1 DEF Decide, FirstAwait, GoTo, cvars, chain, memory
  <2>3. QED
    BY <2>2, StepHistory
<1>3. CASE ArchiveBegin \/ ArchiveRaw \/ ArchiveManifest
  BY <1>3, ArchiveHistory
<1>4. CASE SendCommit
  <2>1. commit_state = NoSalt
    BY <1>4 DEF Known, LifeInv, SendCommit
  <2>2. QED
    BY <1>4, <2>1, SendHistory DEF SendCommit, SendCommitTx
<1>5. CASE SendReveal
  <2>1. Holds(bundle) /\ commit_state # NoSalt
    BY <1>5, RunnerConstants
    DEF Known, MemoryInv, BuildInv, RunnerInv, RevealInv, SendReveal
  <2>2. QED
    BY <1>5, <2>1, SendHistory DEF SendReveal, SendRevealTx
<1>6. CASE SendFinalize
  BY <1>6, SendHistory DEF SendFinalize, SendFinalizeTx
<1>7. CASE Confirmed \/ Rejected
  BY <1>7, SettledHistory
<1>8. CASE Failure
  BY <1>8, StepHistory
  DEF Failure, ReadFails, RereadFails, WorkFails, NotSent, Retry, Loop, Exit,
      cvars, chain, memory
<1>9. CASE ClusterStep
  BY <1>9, LandHistory, LoseHistory DEF ClusterStep, Network
<1>10. CASE SlotStep \/ Open
  BY <1>10, OpenHistory
<1>11. CASE Start \/ Crash
  BY <1>11, RestartHistory
<1>12. QED
  BY <1>1, <1>2, <1>3, <1>4, <1>5, <1>6, <1>7, <1>8, <1>9, <1>10, <1>11
  DEF RunnerNext, Progress, World

\* What holds always, and what holds until something is given up on.
HistoryInv ==
  /\ RunnerInv /\ MemoryInv /\ LifeInv
  /\ ~gave_up => AloneInv /\ StandInv

LEMMA HistoryInitInvariant == HistoryInit => HistoryInv
<1> SUFFICES ASSUME HistoryInit PROVE HistoryInv
  OBVIOUS
<1>1. RunnerInit
  BY DEF HistoryInit
<1>2. RunnerInv /\ MemoryInv
  BY <1>1, RunnerInitInvariant, InitMemory
<1>3. LifeInv /\ AloneInv /\ StandInv
  BY <1>1
  DEF RunnerInit, ClusterInit, Init, LifeInv, AloneInv, StandInv, Working,
      Reveals, SeedIsArchived, Initialized
<1>4. QED
  BY <1>2, <1>3 DEF HistoryInv

LEMMA HistoryNextInvariant == HistoryInv /\ [HistoryNext]_hvars => HistoryInv'
<1> SUFFICES ASSUME HistoryInv, [HistoryNext]_hvars PROVE HistoryInv'
  OBVIOUS
<1>1. CASE HistoryNext
  <2>1. RunnerNext /\ (~gave_up' => ~gave_up /\ ~GiveUp)
    BY <1>1 DEF HistoryNext
  <2>2. RunnerInv' /\ MemoryInv' /\ LifeInv'
    BY <2>1, RunnerNextInvariant, NextMemory, LifeStep DEF HistoryInv
  <2>3. ~gave_up' => AloneInv' /\ StandInv'
    BY <2>1, KnownStep DEF HistoryInv, Known
  <2>4. QED
    BY <2>2, <2>3 DEF HistoryInv
<1>2. CASE UNCHANGED hvars
  <2>1. UNCHANGED <<chain, process, memory, archive, pool, pending, landed,
                    gave_up, rvars>>
    BY <1>2 DEF hvars, rvars, cvars, chain, process, memory
  <2>2. RunnerInv' /\ MemoryInv'
    BY <2>1, RunnerNextInvariant, NextMemory DEF HistoryInv
  <2>3. LifeInv'
    BY <2>1 DEF HistoryInv, LifeInv, process, memory
  <2>4. AloneInv' <=> AloneInv
    BY <2>1, ChainSame
    DEF AloneInv, Working, Reveals, Holds, SeedIsArchived, Explains, process,
        memory
  <2>5. StandInv' <=> StandInv
    BY <2>1, ChainSame DEF StandInv, Stands, Commits, process, memory
  <2>6. QED
    BY <2>1, <2>2, <2>3, <2>4, <2>5 DEF HistoryInv
<1>3. QED
  BY <1>1, <1>2

LEMMA HistoryInvariance == HistorySpec => []HistoryInv
BY HistoryInitInvariant, HistoryNextInvariant, PTL DEF HistorySpec

\* The salt in memory opens the commitment on the chain until the seed is
\* bound, unless a commit was given up on (runner.rs SendCommit, and tx.rs
\* confirming by signature).
THEOREM CommitsStand == HistorySpec => []CommitStands
<1>1. HistoryInv => CommitStands
  BY DEF HistoryInv, StandInv, Stands, CommitStands
<1>2. QED
  BY <1>1, HistoryInvariance, PTL

\* A bound seed can be re-derived from the archive at every moment, crashes,
\* restarts and half-written archives included, unless a reveal was given up
\* on (runner.rs SendReveal, seed.rs archive).
THEOREM ArchivesMatchTheChain == HistorySpec => []ArchiveMatchesChain
<1>1. HistoryInv => ArchiveMatchesChain
  BY DEF HistoryInv, AloneInv, ArchiveMatchesChain
<1>2. QED
  BY <1>1, HistoryInvariance, PTL

=============================================================================
