------------------------- MODULE OracleRunnerProofs -------------------------
(***************************************************************************)
(* Proofs about module OracleRunner, for every set of faults and every     *)
(* schedule, any number of starts and of transactions in flight, and any   *)
(* deadlines.                                                              *)
(*                                                                         *)
(* Every step of the process and of the world around it is a step of the   *)
(* on-chain program or changes no account (RunnerIsAClient), so what       *)
(* BeaconProofs proves of accounts holds here as well.  RunnerInv adds what *)
(* the process may conclude from what it read: an account read earlier has *)
(* the terms of the account now, and a window that was over stays over.    *)
(***************************************************************************)
EXTENDS OracleRunner, BeaconProofs

\* What holds at each await of the loop.
ViewInv ==
  pc = "slot" /\ seen # NoAccount =>
    /\ Initialized
    /\ seen \in EpochState
    /\ SameTerms(seen, account)
    /\ seen.is_finalized => account.is_finalized
RevealInv ==
  /\ pc \in {"gather", "archive_begin", "archive_raw", "archive_manifest",
             "reveal"} => commit_state \in Salt /\ CommitsOver
  /\ pc \in {"archive_begin", "archive_raw", "archive_manifest", "reveal"} =>
       bundle \in Manifest
FinalizeInv ==
  /\ pc \in {"read_seed", "prove", "finalize"} => RevealsOver
  /\ pc \in {"prove", "finalize"} =>
       seen \in EpochState /\ seen.entropy_seed = account.entropy_seed
RereadInv ==
  pc = "reread" => Initialized /\ (account.is_finalized \/ EpochOver)
BailInv == exit_code = "bail" => EpochOver /\ ~account.is_finalized

RunnerInv ==
  /\ RunnerTypeOK
  /\ IInv
  /\ \A tx \in pool : TxInv(tx)
  /\ pc = "await" => pending \in Tx
  /\ ViewInv
  /\ RevealInv
  /\ FinalizeInv
  /\ RereadInv
  /\ BailInv

-----------------------------------------------------------------------------
(* Every step is a step of the on-chain program or leaves it alone.         *)

\* What the process does between two awaits touches no account.
LEMMA ProcessStep ==
  ASSUME Progress \/ Failure \/ Start \/ Interrupt \/ Crash
  PROVE  UNCHANGED chain
<1>1. \A n : GoTo(n) => UNCHANGED chain
  BY DEF GoTo, cvars, chain
<1>2. \A c : Exit(c) => UNCHANGED chain
  BY DEF Exit, cvars, chain
<1>3. \A n : Loop(n) => UNCHANGED chain
  BY DEF Loop
<1>4. Retry => UNCHANGED chain
  BY <1>3 DEF Retry
<1>5. /\ \A s : SendCommitTx(s) => UNCHANGED chain
      /\ \A s, m : SendRevealTx(s, m) => UNCHANGED chain
      /\ \A d : SendFinalizeTx(d) => UNCHANGED chain
  BY DEF SendCommitTx, SendRevealTx, SendFinalizeTx, Send
<1>6. CASE Progress
  BY <1>6, <1>1, <1>2, <1>3, <1>4, <1>5
  DEF Progress, Resume, ReadState, Decide, LeaveEpoch, DecideReread,
      CloseEpoch, SendCommit, Gather, ArchiveBegin, ArchiveRaw,
      ArchiveManifest, SendReveal, ReadSeed, Prove, SendFinalize, Confirmed,
      Rejected
<1>7. CASE Failure
  BY <1>7, <1>2, <1>4
  DEF Failure, ReadFails, RereadFails, WorkFails, NotSent, GiveUp
<1>8. CASE Start \/ Interrupt \/ Crash
  BY <1>8, <1>2 DEF Start, Interrupt, Crash, cvars, chain
<1>9. QED
  BY <1>6, <1>7, <1>8

LEMMA ChainStep ==
  ASSUME RunnerTypeOK, [RunnerNext]_rvars
  PROVE  [Next]_vars
<1> USE DEF chain, vars
<1>1. CASE Progress \/ Failure \/ Start \/ Interrupt \/ Crash
  BY <1>1, ProcessStep
<1>2. CASE ClusterStep
  BY <1>2, NetworkIsProgram DEF ClusterStep, RunnerTypeOK
<1>3. CASE SlotStep
  BY <1>3 DEF SlotStep, Tick, Next
<1>4. CASE Open
  BY <1>4, ClusterConstants DEF Open, InitEpoch, Initialize, Next
<1>5. CASE UNCHANGED rvars
  BY <1>5 DEF rvars, cvars
<1>6. QED
  BY <1>1, <1>2, <1>3, <1>4, <1>5 DEF RunnerNext, World

-----------------------------------------------------------------------------
(* How an iteration moves on.                                               *)

\* Back at the top of the loop nothing is concluded from an earlier read.
LEMMA LoopStep ==
  ASSUME RunnerInv, NEW n \in {"select", "retry"}, Loop(n),
         commit_state' \in Salt \cup {NoSalt},
         has_revealed' \in BOOLEAN, has_finalized' \in BOOLEAN
  PROVE  RunnerInv'
<1>1. UNCHANGED chain
  BY DEF Loop
<1>2. IInv'
  BY <1>1, SameAccounts DEF RunnerInv
<1>3. RunnerTypeOK'
  BY <1>2
  DEF RunnerInv, RunnerTypeOK, ClusterTypeOK, ArchiveTypeOK, Loop,
      StopAwaiting, PC, IInv
<1>4. \A tx \in pool' : TxInv(tx)'
  BY <1>1, SameChain DEF RunnerInv, Loop
<1>5. BailInv'
  BY <1>1, SameChain DEF RunnerInv, BailInv, Loop
<1>6. QED
  BY <1>2, <1>3, <1>4, <1>5
  DEF RunnerInv, ViewInv, RevealInv, FinalizeInv, RereadInv, Loop

LEMMA RetryStep ==
  ASSUME RunnerInv, Retry
  PROVE  RunnerInv'
BY LoopStep DEF Retry, memory, RunnerInv, RunnerTypeOK

\* On to the next await, when what holds there holds.
LEMMA GoToStep ==
  ASSUME RunnerInv, NEW n \in PC \ {"await"}, GoTo(n),
         seen' \in EpochState \cup {NoAccount},
         bundle' \in Manifest \cup {NoManifest}, ArchiveTypeOK',
         ViewInv', RevealInv', FinalizeInv', RereadInv'
  PROVE  RunnerInv'
<1>1. UNCHANGED chain
  BY DEF GoTo, cvars, chain
<1>2. IInv'
  BY <1>1, SameAccounts DEF RunnerInv
<1>3. RunnerTypeOK'
  BY <1>2
  DEF RunnerInv, RunnerTypeOK, ClusterTypeOK, GoTo, cvars, memory, IInv
<1>4. \A tx \in pool' : TxInv(tx)'
  BY <1>1, SameChain DEF RunnerInv, GoTo, cvars
<1>5. BailInv'
  BY <1>1, SameChain DEF RunnerInv, BailInv, GoTo
<1>6. QED
  BY <1>2, <1>3, <1>4, <1>5 DEF RunnerInv, GoTo

LEMMA ExitStep ==
  ASSUME RunnerInv, NEW code \in {"ok", "bail", "rpc_error"}, Exit(code),
         code = "bail" => EpochOver /\ ~account.is_finalized
  PROVE  RunnerInv'
<1>1. UNCHANGED chain
  BY DEF Exit, cvars, chain
<1>2. IInv'
  BY <1>1, SameAccounts DEF RunnerInv
<1>3. RunnerTypeOK'
  BY <1>2
  DEF RunnerInv, RunnerTypeOK, ClusterTypeOK, ArchiveTypeOK, Exit, cvars,
      memory, PC, IInv
<1>4. \A tx \in pool' : TxInv(tx)'
  BY <1>1, SameChain DEF RunnerInv, Exit, cvars
<1>5. BailInv'
  BY <1>1, SameChain DEF RunnerInv, BailInv, Exit
<1>6. QED
  BY <1>2, <1>3, <1>4, <1>5
  DEF RunnerInv, ViewInv, RevealInv, FinalizeInv, RereadInv, Exit

\* A transaction is sent and awaited.
LEMMA AwaitStep ==
  ASSUME RunnerInv, NEW tx \in Tx, TxInv(tx), Send(tx), Await
  PROVE  RunnerInv'
<1>1. UNCHANGED chain
  BY DEF Send
<1>2. IInv'
  BY <1>1, SameAccounts DEF RunnerInv
<1>3. RunnerTypeOK'
  BY <1>2
  DEF RunnerInv, RunnerTypeOK, ClusterTypeOK, ArchiveTypeOK, Send, Await,
      memory, PC, IInv
<1>4. \A t \in pool' : TxInv(t)'
  BY <1>1, SameChain DEF RunnerInv, Send
<1>5. BailInv'
  BY <1>1, SameChain DEF RunnerInv, BailInv, Await
<1>6. pending' \in Tx
  BY DEF Send
<1>7. QED
  BY <1>2, <1>3, <1>4, <1>5, <1>6
  DEF RunnerInv, ViewInv, RevealInv, FinalizeInv, RereadInv, Await

\* What the process concluded survives whatever the world does to the chain.
LEMMA WorldStep ==
  ASSUME RunnerInv, [Next]_vars, pool' \subseteq pool, pending' = pending,
         landed' \in BOOLEAN, UNCHANGED <<process, archive>>
  PROVE  RunnerInv'
<1> USE DEF process, memory
<1>1. IInv /\ IInv'
  BY NextInvariant DEF RunnerInv
<1>2. RunnerTypeOK'
  BY <1>1 DEF RunnerInv, RunnerTypeOK, ClusterTypeOK, ArchiveTypeOK, IInv
<1>3. /\ CommitsOver => CommitsOver'
      /\ RevealsOver => RevealsOver'
      /\ EpochOver => EpochOver'
  BY <1>1, WindowsStayOver
<1>4. RevealsOver => account'.entropy_seed = account.entropy_seed
  BY <1>1, ChainKeeps DEF RevealsOver
<1>5. \A tx \in pool' : TxInv(tx)'
  BY <1>3, <1>4 DEF RunnerInv, TxInv
<1>6. ViewInv'
  BY <1>1, ChainKeeps DEF RunnerInv, ViewInv, SameTerms
<1>7. RevealInv' /\ FinalizeInv'
  BY <1>3, <1>4 DEF RunnerInv, RevealInv, FinalizeInv
<1>8. RereadInv'
  BY <1>1, <1>3, ChainKeeps DEF RunnerInv, RereadInv
<1>9. BailInv'
  BY <1>1, <1>3, ChainKeeps DEF RunnerInv, BailInv, EpochOver
<1>10. QED
  BY <1>1, <1>2, <1>5, <1>6, <1>7, <1>8, <1>9 DEF RunnerInv

-----------------------------------------------------------------------------
(* The steps of an iteration.                                               *)

LEMMA AccountRead ==
  ASSUME RunnerInv
  PROVE  /\ Initialized => account \in EpochState
         /\ account \in EpochState \cup {NoAccount}
         /\ slot \in Nat
BY DEF RunnerInv, IInv, TypeOK, AccountInv, Initialized, account

LEMMA ResumeStep == RunnerInv /\ Resume => RunnerInv'
<1> SUFFICES ASSUME RunnerInv, Resume PROVE RunnerInv'
  OBVIOUS
<1>1. ViewInv' /\ RevealInv' /\ FinalizeInv' /\ RereadInv'
  BY DEF ViewInv, RevealInv, FinalizeInv, RereadInv, Resume, GoTo
<1>2. QED
  BY <1>1, GoToStep DEF Resume, PC, RunnerInv, RunnerTypeOK, ArchiveTypeOK

LEMMA ReadStateStep == RunnerInv /\ ReadState => RunnerInv'
<1> SUFFICES ASSUME RunnerInv, ReadState PROVE RunnerInv'
  OBVIOUS
<1>1. UNCHANGED chain
  BY DEF ReadState, GoTo, cvars, chain
<1>2. ViewInv'
  BY <1>1, AccountRead, SameChain DEF ViewInv, ReadState, SameTerms, account
<1>3. RevealInv' /\ FinalizeInv' /\ RereadInv'
  BY DEF RevealInv, FinalizeInv, RereadInv, ReadState, GoTo
<1>4. QED
  BY <1>2, <1>3, AccountRead, GoToStep
  DEF ReadState, PC, RunnerInv, RunnerTypeOK, ArchiveTypeOK

\* What the phase of an account read earlier says of the account now.
LEMMA PhaseIsTrue ==
  ASSUME RunnerInv, pc = "slot"
  PROVE  /\ Phase \in {"Commit", "Reveal", "Finalize", "Closed", "None"}
         /\ Phase = "Reveal" => CommitsOver
         /\ Phase = "Finalize" => RevealsOver
         /\ Phase = "Closed" =>
              Initialized /\ (account.is_finalized \/ EpochOver)
<1>1. CASE seen = NoAccount
  BY <1>1 DEF Phase, PhaseOf
<1>2. CASE seen # NoAccount
  <2>1. /\ Initialized /\ seen \in EpochState /\ SameTerms(seen, account)
        /\ seen.is_finalized => account.is_finalized
    BY <1>2 DEF RunnerInv, ViewInv
  <2>2. Phase = derive_phase(seen, slot)
    BY <1>2 DEF Phase, PhaseOf
  <2>3. account \in EpochState /\ slot \in Nat
    BY <2>1, AccountRead
  <2>4. QED
    BY <2>1, <2>2, <2>3
    DEF derive_phase, SameTerms, CommitsOver, RevealsOver, EpochOver, EpochState
<1>3. QED
  BY <1>1, <1>2

LEMMA DecideStep == RunnerInv /\ Decide => RunnerInv'
<1> SUFFICES ASSUME RunnerInv, Decide PROVE RunnerInv'
  OBVIOUS
<1>1. UNCHANGED chain
  BY DEF Decide, GoTo, cvars, chain
<1>2. /\ Decision \in {"SendCommit", "SendReveal", "SendFinalize", "Idle"}
      /\ Decision = "SendReveal" => Phase = "Reveal" /\ commit_state # NoSalt
      /\ Decision = "SendFinalize" => Phase = "Finalize"
  BY PhaseIsTrue
  DEF Decide, Decision, decide_action, InCommit, InReveal, InFinalize
<1>3. /\ FirstAwait[Decision] \in {"commit", "gather", "read_seed", "select"}
      /\ FirstAwait[Decision] = "gather" => Decision = "SendReveal"
      /\ FirstAwait[Decision] = "read_seed" => Decision = "SendFinalize"
  BY <1>2 DEF FirstAwait
<1>4. pc' = FirstAwait[Decision] /\ commit_state' = commit_state
  BY DEF Decide, GoTo, memory
<1>5. commit_state \in Salt \cup {NoSalt}
  BY DEF RunnerInv, RunnerTypeOK
<1>6. RevealInv'
  BY <1>1, <1>2, <1>3, <1>4, <1>5, PhaseIsTrue, SameChain DEF RevealInv, Decide
<1>7. FinalizeInv'
  BY <1>1, <1>2, <1>3, <1>4, PhaseIsTrue, SameChain DEF FinalizeInv, Decide
<1>8. ViewInv' /\ RereadInv'
  BY <1>3, <1>4 DEF ViewInv, RereadInv
<1>9. QED
  BY <1>3, <1>6, <1>7, <1>8, GoToStep
  DEF Decide, PC, RunnerInv, RunnerTypeOK, ArchiveTypeOK

LEMMA DecideRereadStep == RunnerInv /\ DecideReread => RunnerInv'
<1> SUFFICES ASSUME RunnerInv, DecideReread PROVE RunnerInv'
  OBVIOUS
<1>1. UNCHANGED chain
  BY DEF DecideReread, GoTo, cvars, chain
<1>2. RereadInv'
  BY <1>1, PhaseIsTrue, SameChain DEF RereadInv, DecideReread
<1>3. ViewInv' /\ RevealInv' /\ FinalizeInv'
  BY DEF ViewInv, RevealInv, FinalizeInv, DecideReread, GoTo
<1>4. QED
  BY <1>2, <1>3, GoToStep
  DEF DecideReread, PC, RunnerInv, RunnerTypeOK, ArchiveTypeOK

\* The account is read again, so bail! is about the account as it is.
LEMMA CloseEpochStep == RunnerInv /\ CloseEpoch => RunnerInv'
<1> SUFFICES ASSUME RunnerInv, CloseEpoch PROVE RunnerInv'
  OBVIOUS
<1>1. Initialized /\ (account.is_finalized \/ EpochOver)
  BY DEF RunnerInv, RereadInv, CloseEpoch
<1>2. CASE ClosingView # NoAccount /\ ~ClosingView.is_finalized
  BY <1>1, <1>2, ExitStep DEF CloseEpoch, ClosingView
<1>3. CASE ~(ClosingView # NoAccount /\ ~ClosingView.is_finalized)
  BY <1>3, ExitStep DEF CloseEpoch
<1>4. QED
  BY <1>2, <1>3

LEMMA SendCommitStep == RunnerInv /\ SendCommit => RunnerInv'
<1> SUFFICES ASSUME RunnerInv, SendCommit PROVE RunnerInv'
  OBVIOUS
<1> DEFINE salt == Fresh1(FreshSalts({commit_state}))
<1>1. salt \in Salt
  BY Chosen DEF SendCommit, FreshSalts
<1>2. PICK i \in FreeIds : Send([id |-> i, kind |-> "commit", salt |-> salt])
  BY DEF SendCommit, SendCommitTx
<1>3. [id |-> i, kind |-> "commit", salt |-> salt] \in Tx
  BY <1>1 DEF Tx, CommitTx, FreeIds
<1>4. TxInv([id |-> i, kind |-> "commit", salt |-> salt])
  BY DEF TxInv
<1>5. QED
  BY <1>2, <1>3, <1>4, AwaitStep DEF SendCommit

LEMMA GatherStep == RunnerInv /\ Gather => RunnerInv'
<1> SUFFICES ASSUME RunnerInv, Gather PROVE RunnerInv'
  OBVIOUS
<1>1. UNCHANGED chain /\ pc' = "archive_begin" /\ commit_state' = commit_state
  BY DEF Gather, GoTo, cvars, chain, memory
<1>2. bundle' \in Manifest
  BY Chosen DEF Gather, FreshManifests
<1>3. RevealInv'
  BY <1>1, <1>2, SameChain DEF RunnerInv, RevealInv, Gather
<1>4. ViewInv' /\ FinalizeInv' /\ RereadInv'
  BY <1>1 DEF ViewInv, FinalizeInv, RereadInv
<1>5. QED
  BY <1>2, <1>3, <1>4, GoToStep
  DEF Gather, PC, RunnerInv, RunnerTypeOK, ArchiveTypeOK

\* The three steps of archive.
LEMMA ArchiveStep ==
  RunnerInv /\ (ArchiveBegin \/ ArchiveRaw \/ ArchiveManifest) => RunnerInv'
<1> SUFFICES ASSUME RunnerInv, ArchiveBegin \/ ArchiveRaw \/ ArchiveManifest
             PROVE  RunnerInv'
  OBVIOUS
<1> DEFINE here == {"archive_begin", "archive_raw", "archive_manifest"}
           there == {"archive_raw", "archive_manifest", "reveal"}
<1>1. PICK n \in there : GoTo(n) /\ pc \in here /\ UNCHANGED <<seen, bundle>>
  BY DEF ArchiveBegin, ArchiveRaw, ArchiveManifest
<1>2. UNCHANGED chain /\ pc' = n /\ commit_state' = commit_state
  BY <1>1 DEF GoTo, cvars, chain, memory
<1>3. bundle \in Manifest /\ commit_state \in Salt /\ CommitsOver
  BY <1>1 DEF RunnerInv, RevealInv
<1>4. ArchiveTypeOK'
  BY <1>3
  DEF ArchiveBegin, ArchiveRaw, ArchiveManifest, TearRaw, WriteRaw,
      WriteManifest, RunnerInv, RunnerTypeOK, ArchiveTypeOK
<1>5. RevealInv'
  BY <1>1, <1>2, <1>3, SameChain DEF RevealInv
<1>6. ViewInv' /\ FinalizeInv' /\ RereadInv'
  BY <1>2 DEF ViewInv, FinalizeInv, RereadInv
<1>7. QED
  BY <1>1, <1>4, <1>5, <1>6, GoToStep DEF PC, RunnerInv, RunnerTypeOK

\* The salt is disclosed when no commit can be accepted any more.
LEMMA SendRevealStep == RunnerInv /\ SendReveal => RunnerInv'
<1> SUFFICES ASSUME RunnerInv, SendReveal PROVE RunnerInv'
  OBVIOUS
<1>1. commit_state \in Salt /\ bundle \in Manifest /\ CommitsOver
  BY DEF RunnerInv, RevealInv, SendReveal
<1>2. PICK i \in FreeIds :
        Send([id |-> i, kind |-> "reveal", salt |-> commit_state,
              manifest |-> bundle])
  BY DEF SendReveal, SendRevealTx
<1> DEFINE tx == [id |-> i, kind |-> "reveal", salt |-> commit_state,
                  manifest |-> bundle]
<1>3. tx \in Tx
  BY <1>1 DEF Tx, RevealTx, FreeIds
<1>4. TxInv(tx)
  BY <1>1 DEF TxInv
<1> HIDE DEF tx
<1>5. QED
  BY <1>2, <1>3, <1>4, AwaitStep DEF SendReveal, tx

LEMMA ReadSeedStep == RunnerInv /\ ReadSeed => RunnerInv'
<1> SUFFICES ASSUME RunnerInv, ReadSeed PROVE RunnerInv'
  OBVIOUS
<1>1. UNCHANGED chain /\ pc' = "prove" /\ seen' = account
  BY DEF ReadSeed, GoTo, cvars, chain
<1>2. account \in EpochState /\ RevealsOver
  BY AccountRead DEF ReadSeed, RunnerInv, FinalizeInv
<1>3. FinalizeInv'
  BY <1>1, <1>2, SameChain DEF FinalizeInv
<1>4. ViewInv' /\ RevealInv' /\ RereadInv'
  BY <1>1 DEF ViewInv, RevealInv, RereadInv
<1>5. QED
  BY <1>1, <1>2, <1>3, <1>4, GoToStep
  DEF ReadSeed, PC, RunnerInv, RunnerTypeOK, ArchiveTypeOK

LEMMA ProveStep == RunnerInv /\ Prove => RunnerInv'
<1> SUFFICES ASSUME RunnerInv, Prove PROVE RunnerInv'
  OBVIOUS
<1>1. UNCHANGED chain /\ pc' = "finalize" /\ seen' = seen
  BY DEF Prove, GoTo, cvars, chain
<1>2. FinalizeInv'
  BY <1>1, SameChain DEF RunnerInv, FinalizeInv, Prove
<1>3. ViewInv' /\ RevealInv' /\ RereadInv'
  BY <1>1 DEF ViewInv, RevealInv, RereadInv
<1>4. QED
  BY <1>2, <1>3, GoToStep DEF Prove, PC, RunnerInv, RunnerTypeOK, ArchiveTypeOK

\* The seed that was proved is the seed the account holds.
LEMMA SendFinalizeStep == RunnerInv /\ SendFinalize => RunnerInv'
<1> SUFFICES ASSUME RunnerInv, SendFinalize PROVE RunnerInv'
  OBVIOUS
<1>1. /\ RevealsOver /\ seen \in EpochState
      /\ seen.entropy_seed = account.entropy_seed
  BY DEF RunnerInv, FinalizeInv, SendFinalize
<1>2. PICK i \in FreeIds :
        Send([id |-> i, kind |-> "finalize", seed |-> seen.entropy_seed])
  BY DEF SendFinalize, SendFinalizeTx
<1>3. [id |-> i, kind |-> "finalize", seed |-> seen.entropy_seed] \in Tx
  BY <1>1 DEF Tx, FinalizeTx, FreeIds, EpochState
<1>4. TxInv([id |-> i, kind |-> "finalize", seed |-> seen.entropy_seed])
  BY <1>1 DEF TxInv
<1>5. QED
  BY <1>2, <1>3, <1>4, AwaitStep DEF SendFinalize

\* Only the salt of a transaction of the process's own is remembered.
LEMMA ConfirmedStep == RunnerInv /\ Confirmed => RunnerInv'
<1> SUFFICES ASSUME RunnerInv, Confirmed PROVE RunnerInv'
  OBVIOUS
<1>1. pending \in Tx /\ commit_state \in Salt \cup {NoSalt}
  BY DEF RunnerInv, RunnerTypeOK, Confirmed
<1>2. CASE pending.kind = "commit"
  <2>1. commit_state' \in Salt
    BY <1>1, <1>2 DEF Confirmed, Tx, CommitTx, RevealTx, FinalizeTx
  <2>2. QED
    BY <2>1, LoopStep DEF Confirmed, RunnerInv, RunnerTypeOK
<1>3. CASE pending.kind = "reveal"
  BY <1>1, <1>3, LoopStep DEF Confirmed, RunnerInv, RunnerTypeOK
<1>4. CASE pending.kind = "finalize"
  BY <1>1, <1>4, LoopStep DEF Confirmed, RunnerInv, RunnerTypeOK
<1>5. QED
  BY <1>1, <1>2, <1>3, <1>4 DEF Tx, CommitTx, RevealTx, FinalizeTx

-----------------------------------------------------------------------------
(* The steps of the world.                                                  *)

\* A start or a crash leaves nothing in memory.
LEMMA StartStep == RunnerInv /\ Start => RunnerInv'
<1> SUFFICES ASSUME RunnerInv, Start PROVE RunnerInv'
  OBVIOUS
<1>1. UNCHANGED chain
  BY DEF Start, cvars, chain
<1>2. IInv'
  BY <1>1, SameAccounts DEF RunnerInv
<1>3. starts' \in 0..MaxStarts
  BY RunnerConstants DEF RunnerInv, RunnerTypeOK, Start
<1>4. RunnerTypeOK'
  BY <1>2, <1>3
  DEF RunnerInv, RunnerTypeOK, ClusterTypeOK, ArchiveTypeOK, Start, cvars, PC,
      IInv
<1>5. \A tx \in pool' : TxInv(tx)'
  BY <1>1, SameChain DEF RunnerInv, Start, cvars
<1>6. QED
  BY <1>2, <1>4, <1>5
  DEF RunnerInv, ViewInv, RevealInv, FinalizeInv, RereadInv, BailInv, Start

LEMMA CrashStep == RunnerInv /\ Crash => RunnerInv'
<1> SUFFICES ASSUME RunnerInv, Crash PROVE RunnerInv'
  OBVIOUS
<1>1. UNCHANGED chain
  BY DEF Crash
<1>2. IInv'
  BY <1>1, SameAccounts DEF RunnerInv
<1>3. RunnerTypeOK'
  BY <1>2
  DEF RunnerInv, RunnerTypeOK, ClusterTypeOK, ArchiveTypeOK, Crash,
      StopAwaiting, PC, IInv
<1>4. \A tx \in pool' : TxInv(tx)'
  BY <1>1, SameChain DEF RunnerInv, Crash
<1>5. BailInv'
  BY <1>1, SameChain DEF RunnerInv, BailInv, Crash
<1>6. QED
  BY <1>2, <1>3, <1>4, <1>5
  DEF RunnerInv, ViewInv, RevealInv, FinalizeInv, RereadInv, Crash

LEMMA NetworkStep == RunnerInv /\ ClusterStep => RunnerInv'
<1> SUFFICES ASSUME RunnerInv, ClusterStep PROVE RunnerInv'
  OBVIOUS
<1>1. PICK tx \in pool : Land(tx) \/ Lose(tx)
  BY DEF ClusterStep, Network
<1>2. [Next]_vars
  BY ChainStep DEF RunnerInv, RunnerNext, World
<1>3. pool' \subseteq pool /\ pending' = pending
  BY <1>1 DEF Land, Lose
<1>4. landed' \in BOOLEAN
  BY <1>1 DEF Land, Lose, RunnerInv, RunnerTypeOK, ClusterTypeOK
<1>5. QED
  BY <1>2, <1>3, <1>4, WorldStep DEF ClusterStep

LEMMA OutsideStep == RunnerInv /\ (SlotStep \/ Open) => RunnerInv'
<1> SUFFICES ASSUME RunnerInv, SlotStep \/ Open PROVE RunnerInv'
  OBVIOUS
<1>1. [Next]_vars
  BY ChainStep DEF RunnerInv, RunnerNext, World
<1>2. /\ UNCHANGED <<pool, pending, landed>>
      /\ UNCHANGED <<process, archive>>
  BY DEF SlotStep, Tick, Open, InitEpoch
<1>3. landed \in BOOLEAN
  BY DEF RunnerInv, RunnerTypeOK, ClusterTypeOK
<1>4. QED
  BY <1>1, <1>2, <1>3, WorldStep

LEMMA RunnerInitInvariant == RunnerInit => RunnerInv
<1> SUFFICES ASSUME RunnerInit PROVE RunnerInv
  OBVIOUS
<1>1. IInv
  BY InitInvariant DEF RunnerInit, ClusterInit
<1>2. 0 \in 0..MaxStarts
  BY RunnerConstants
<1>3. RunnerTypeOK
  BY <1>1, <1>2
  DEF RunnerInit, ClusterInit, ArchiveInit, RunnerTypeOK, ClusterTypeOK,
      ArchiveTypeOK, PC, IInv
<1>4. QED
  BY <1>1, <1>3
  DEF RunnerInit, ClusterInit, RunnerInv, ViewInv, RevealInv, FinalizeInv,
      RereadInv, BailInv

\* Every step keeps the invariant.
LEMMA RunnerNextInvariant == RunnerInv /\ [RunnerNext]_rvars => RunnerInv'
<1> SUFFICES ASSUME RunnerInv, [RunnerNext]_rvars PROVE RunnerInv'
  OBVIOUS
<1>1. CASE Progress
  <2>1. CASE LeaveEpoch
    BY <2>1, ExitStep DEF LeaveEpoch
  <2>2. CASE Rejected
    BY <2>2, RetryStep DEF Rejected
  <2>3. QED
    BY <1>1, <2>1, <2>2, ResumeStep, ReadStateStep, DecideStep, DecideRereadStep,
       CloseEpochStep, SendCommitStep, GatherStep, ArchiveStep, SendRevealStep,
       ReadSeedStep, ProveStep, SendFinalizeStep, ConfirmedStep
    DEF Progress
<1>2. CASE Failure
  <2>1. CASE RereadFails
    BY <2>1, ExitStep DEF RereadFails
  <2>2. CASE ReadFails \/ WorkFails \/ NotSent \/ GiveUp
    BY <2>2, RetryStep DEF ReadFails, WorkFails, NotSent, GiveUp
  <2>3. QED
    BY <1>2, <2>1, <2>2 DEF Failure
<1>3. CASE World
  <2>1. CASE Interrupt
    BY <2>1, ExitStep DEF Interrupt
  <2>2. QED
    BY <1>3, <2>1, NetworkStep, OutsideStep, StartStep, CrashStep DEF World
<1>4. CASE UNCHANGED rvars
  <2>1. [Next]_vars /\ UNCHANGED <<process, archive>>
    BY <1>4 DEF rvars, cvars, vars
  <2>2. /\ pool' = pool /\ pending' = pending /\ landed' = landed
        /\ landed \in BOOLEAN
    BY <1>4 DEF rvars, cvars, RunnerInv, RunnerTypeOK, ClusterTypeOK
  <2>3. QED
    BY <2>1, <2>2, WorldStep
<1>5. QED
  BY <1>1, <1>2, <1>3, <1>4 DEF RunnerNext

LEMMA RunnerInvariance == RunnerSpec => []RunnerInv
BY RunnerInitInvariant, RunnerNextInvariant, PTL DEF RunnerSpec

-----------------------------------------------------------------------------
(* What holds of every run of the process.                                  *)

\* The process, the network and the accounts are always in a state the code
\* gives a meaning to (run_loop's locals, tx.rs, EpochState).
THEOREM RunnerTypeCorrect == RunnerSpec => []RunnerTypeOK
<1>1. RunnerInv => RunnerTypeOK
  BY DEF RunnerInv
<1>2. QED
  BY <1>1, RunnerInvariance, PTL

\* The process and its transactions, retried and given up on as they may be,
\* do to accounts what the program lets them: a behaviour of OracleRunner is a
\* behaviour of Beacon, so all theorems of BeaconProofs apply to it.
THEOREM RunnerIsAClient == RunnerSpec => Spec
<1>1. RunnerInit => Init
  BY DEF RunnerInit, ClusterInit
<1>2. RunnerInv /\ [RunnerNext]_rvars => [Next]_vars
  BY ChainStep DEF RunnerInv
<1>3. QED
  BY <1>1, <1>2, RunnerInvariance, PTL DEF RunnerSpec, Spec

\* A reveal is in flight only when no commit can be accepted any more
\* (runner.rs SendReveal, on a phase derived from two RPC calls).
THEOREM SaltsAreSecret == RunnerSpec => []SaltsStaySecret
<1>1. RunnerInv => SaltsStaySecret
  BY DEF RunnerInv, TxInv, CommitsOver, SaltsStaySecret
<1>2. QED
  BY <1>1, RunnerInvariance, PTL

\* The seed a proof is made for stays the seed of the account until the proof
\* is executed (runner.rs SendFinalize, finalize.rs run_finalize).
THEOREM ProofsFitTheSeed == RunnerSpec => []ProofsAreOfTheSeed
<1>1. RunnerInv => ProofsAreOfTheSeed
  BY DEF RunnerInv, TxInv, FinalizeInv, ProofsAreOfTheSeed
<1>2. QED
  BY <1>1, RunnerInvariance, PTL

\* An epoch is reported lost only when it is lost for good (runner.rs
\* WaitForNextEpoch, which reads the account again).
THEOREM BailsAreTrue == RunnerSpec => []BailIsTrue
<1>1. RunnerInv => BailIsTrue
  BY DEF RunnerInv, BailInv, EpochOver, BailIsTrue
<1>2. QED
  BY <1>1, RunnerInvariance, PTL

=============================================================================
