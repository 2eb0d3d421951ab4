-------------------------- MODULE CommitOnceProofs --------------------------
(***************************************************************************)
(* Proofs about module CommitOnce, for any number of polls, of rival       *)
(* transactions and of transactions in flight, and any deadlines.  Of the  *)
(* hashes nothing is assumed, so the proofs need no fresh salts: it is the *)
(* guards of oracle_reveal that make a landed reveal tell the truth.       *)
(***************************************************************************)
EXTENDS CommitOnce, BeaconProofs

\* What was read has the terms of the account it is compared with a slot of.
ViewInv ==
  pc \in {"slot", "wait_slot"} /\ seen # NoAccount =>
    Initialized /\ seen \in EpochState /\ SameTerms(seen, account)

\* From Decide on the salt is there; from WindowOpens on no commitment can be
\* replaced; from Gather on the bundle is there.
CommittedInv == pc \notin {"read", "slot", "ended"} => salt \in Salt
OpenedInv ==
  /\ pc \in {"gather", "archive_begin", "archive_raw", "archive_manifest",
             "reveal", "reveal_sent"} => CommitsOver
  /\ pc \in {"archive_begin", "archive_raw", "archive_manifest", "reveal",
             "reveal_sent"} => bundle \in Manifest

\* The archive is that of the bundle when the reveal is sent.
ArchivedInv ==
  /\ pc \in {"archive_manifest", "reveal", "reveal_sent"} =>
       archive.raw = bundle
  /\ pc \in {"reveal", "reveal_sent"} => archive.manifest = bundle

\* The seed of the command is the one on the chain.
Bound ==
  /\ Initialized
  /\ account.entropy_seed # Zero
  /\ account.commitment = CommitmentHash[salt]
  /\ account.entropy_manifest_hash = bundle
  /\ account.entropy_seed = OracleSeed[<<salt, bundle>>]
SentInv ==
  pc = "reveal_sent" =>
    /\ pending \in RevealTx /\ pending.salt = salt /\ pending.manifest = bundle
    /\ landed => Bound
OutcomeInv == outcome = "revealed" => pc = "ended" /\ Bound /\ Explains

OnceInv ==
  /\ CommitOnceTypeOK
  /\ IInv
  /\ \A tx \in pool : TxInv(tx)
  /\ ViewInv
  /\ CommittedInv
  /\ OpenedInv
  /\ ArchivedInv
  /\ SentInv
  /\ OutcomeInv

-----------------------------------------------------------------------------
(* Every step is a step of the on-chain program or leaves it alone.         *)

LEMMA ProcessStep ==
  ASSUME Progress \/ Fails
  PROVE  UNCHANGED chain
<1>1. \A n : GoTo(n) => UNCHANGED chain
  BY DEF GoTo, cvars, chain
<1>2. \A how : End(how) => UNCHANGED chain
  BY DEF End
<1>3. /\ \A s : SendCommitTx(s) => UNCHANGED chain
      /\ \A s, m : SendRevealTx(s, m) => UNCHANGED chain
  BY DEF SendCommitTx, SendRevealTx, Send
<1>4. QED
  BY <1>1, <1>2, <1>3
  DEF Progress, ReadState, Read, Skip, Decide, SendCommit, CommitConfirmed,
      Poll, WindowOpens, PollAgain, TimeOut, Gather, ArchiveBundle,
      ArchiveStep, SendReveal, RevealConfirmed, Rejected, Fails, cvars, chain

LEMMA ChainStep ==
  ASSUME CommitOnceTypeOK, [CommitOnceNext]_ovars
  PROVE  [Next]_vars
<1> USE DEF chain, vars
<1>1. CASE Progress \/ Fails
  BY <1>1, ProcessStep
<1>2. CASE ClusterStep
  BY <1>2, NetworkIsProgram DEF ClusterStep, CommitOnceTypeOK
<1>3. CASE SlotStep
  BY <1>3 DEF SlotStep, Tick, Next
<1>4. CASE OpenEpoch
  BY <1>4, ClusterConstants DEF OpenEpoch, InitEpoch, Initialize, Next
<1>5. CASE RivalCommits \/ RivalReveals
  BY <1>5 DEF RivalCommits, RivalReveals, RivalSends
<1>6. CASE UNCHANGED ovars
  BY <1>6 DEF ovars, cvars
<1>7. QED
  BY <1>1, <1>2, <1>3, <1>4, <1>5, <1>6 DEF CommitOnceNext, World

-----------------------------------------------------------------------------
(* How the command moves on.                                                *)

\* On to the next await with nothing sent, when what holds there holds.
LEMMA GoToStep ==
  ASSUME OnceInv, NEW n \in PC \ {"reveal_sent", "ended"}, GoTo(n),
         pc # "ended",
         seen' \in EpochState \cup {NoAccount},
         bundle' \in Manifest \cup {NoManifest}, polls' \in 0..MaxPolls,
         ArchiveTypeOK',
         ViewInv', CommittedInv', OpenedInv', ArchivedInv'
  PROVE  OnceInv'
<1>1. UNCHANGED chain
  BY DEF GoTo, cvars, chain
<1>2. IInv'
  BY <1>1, SameAccounts DEF OnceInv
<1>3. CommitOnceTypeOK'
  BY <1>2 DEF OnceInv, CommitOnceTypeOK, ClusterTypeOK, GoTo, cvars, IInv
<1>4. \A tx \in pool' : TxInv(tx)'
  BY <1>1, SameChain DEF OnceInv, GoTo, cvars
<1>5. SentInv' /\ OutcomeInv'
  BY DEF OnceInv, SentInv, OutcomeInv, GoTo
<1>6. QED
  BY <1>2, <1>3, <1>4, <1>5 DEF OnceInv

LEMMA EndStep ==
  ASSUME OnceInv, NEW how \in {"skipped", "revealed", "error"}, End(how),
         how = "revealed" => Bound /\ Explains
  PROVE  OnceInv'
<1>1. UNCHANGED chain
  BY DEF End
<1>2. IInv'
  BY <1>1, SameAccounts DEF OnceInv
<1>3. CommitOnceTypeOK'
  BY <1>2
  DEF OnceInv, CommitOnceTypeOK, ClusterTypeOK, ArchiveTypeOK, End,
      StopAwaiting, PC, IInv
<1>4. \A tx \in pool' : TxInv(tx)'
  BY <1>1, SameChain DEF OnceInv, End
<1>5. OutcomeInv'
  BY <1>1, SameChain
  DEF OutcomeInv, Bound, Explains, End
<1>6. QED
  BY <1>2, <1>3, <1>4, <1>5
  DEF OnceInv, ViewInv, CommittedInv, OpenedInv, ArchivedInv, SentInv, End

-----------------------------------------------------------------------------
(* The steps of the command.                                                *)

LEMMA ReadStep ==
  ASSUME OnceInv, ReadState \/ Poll
  PROVE  OnceInv'
<1>1. PICK n \in {"slot", "wait_slot"} : Read(n) /\ pc # "ended"
                                        /\ (n = "wait_slot" <=> pc = "wait")
  BY DEF ReadState, Poll
<1>2. UNCHANGED chain
  BY <1>1 DEF Read, GoTo, cvars, chain
<1>3. account \in EpochState \cup {NoAccount}
  BY DEF OnceInv, CommitOnceTypeOK, ClusterTypeOK, TypeOK, account, Initialized
<1>4. ViewInv'
  BY <1>1, <1>2, <1>3, SameChain DEF ViewInv, Read, SameTerms, account
<1>5. CommittedInv' /\ OpenedInv' /\ ArchivedInv'
  BY <1>1 DEF OnceInv, CommittedInv, OpenedInv, ArchivedInv, Read, GoTo
<1>6. GoTo(n) /\ n \in PC \ {"reveal_sent", "ended"}
  BY <1>1 DEF Read, PC
<1>7. /\ seen' \in EpochState \cup {NoAccount}
      /\ bundle' \in Manifest \cup {NoManifest}
      /\ polls' \in 0..MaxPolls
      /\ ArchiveTypeOK'
  BY <1>1, <1>3 DEF Read, OnceInv, CommitOnceTypeOK, ArchiveTypeOK
<1>8. QED
  BY <1>1, <1>4, <1>5, <1>6, <1>7, GoToStep

LEMMA DecideStep ==
  ASSUME OnceInv, Decide
  PROVE  OnceInv'
<1>1. UNCHANGED chain
  BY DEF Decide, cvars, chain
<1>2. IInv'
  BY <1>1, SameAccounts DEF OnceInv
<1>3. salt' \in Salt
  BY Chosen DEF Decide, FreshSalts
<1>4. CommitOnceTypeOK'
  BY <1>2, <1>3
  DEF OnceInv, CommitOnceTypeOK, ClusterTypeOK, ArchiveTypeOK, Decide, cvars,
      PC, IInv
<1>5. \A tx \in pool' : TxInv(tx)'
  BY <1>1, SameChain DEF OnceInv, Decide, cvars
<1>6. OutcomeInv'
  BY DEF OnceInv, OutcomeInv, Decide
<1>7. QED
  BY <1>2, <1>3, <1>4, <1>5, <1>6
  DEF OnceInv, ViewInv, CommittedInv, OpenedInv, ArchivedInv, SentInv, Decide

\* A transaction is sent and awaited.
LEMMA SendStep ==
  ASSUME OnceInv, NEW tx \in Tx, TxInv(tx), Send(tx),
         UNCHANGED <<archive, seen, salt, bundle, polls, outcome, rivals>>,
         \/ pc = "commit" /\ pc' = "commit_sent"
         \/ /\ pc = "reveal" /\ pc' = "reveal_sent"
            /\ tx \in RevealTx /\ tx.salt = salt /\ tx.manifest = bundle
  PROVE  OnceInv'
<1>1. UNCHANGED chain
  BY DEF Send
<1>2. IInv'
  BY <1>1, SameAccounts DEF OnceInv
<1>3. CommitOnceTypeOK'
  BY <1>2
  DEF OnceInv, CommitOnceTypeOK, ClusterTypeOK, ArchiveTypeOK, Send, PC, IInv
<1>4. \A t \in pool' : TxInv(t)'
  BY <1>1, SameChain DEF OnceInv, Send
<1>5. SentInv' /\ OutcomeInv'
  BY DEF OnceInv, SentInv, OutcomeInv, Send
<1>6. OpenedInv'
  BY <1>1, SameChain DEF OnceInv, OpenedInv
<1>7. QED
  BY <1>2, <1>3, <1>4, <1>5, <1>6
  DEF OnceInv, ViewInv, CommittedInv, ArchivedInv

LEMMA SendCommitStep ==
  ASSUME OnceInv, SendCommit
  PROVE  OnceInv'
<1>1. salt \in Salt
  BY DEF OnceInv, CommittedInv, SendCommit
<1>2. PICK i \in FreeIds : Send([id |-> i, kind |-> "commit", salt |-> salt])
  BY DEF SendCommit, SendCommitTx
<1>3. [id |-> i, kind |-> "commit", salt |-> salt] \in Tx
  BY <1>1 DEF Tx, CommitTx, FreeIds
<1>4. TxInv([id |-> i, kind |-> "commit", salt |-> salt])
  BY DEF TxInv
<1>5. QED
  BY <1>2, <1>3, <1>4, SendStep DEF SendCommit

LEMMA SendRevealStep ==
  ASSUME OnceInv, SendReveal
  PROVE  OnceInv'
<1>1. salt \in Salt /\ bundle \in Manifest /\ CommitsOver
  BY DEF OnceInv, CommittedInv, OpenedInv, SendReveal
<1>2. PICK i \in FreeIds :
        Send([id |-> i, kind |-> "reveal", salt |-> salt, manifest |-> bundle])
  BY DEF SendReveal, SendRevealTx
<1> DEFINE tx == [id |-> i, kind |-> "reveal", salt |-> salt,
                  manifest |-> bundle]
<1>3. tx \in RevealTx
  BY <1>1 DEF RevealTx, FreeIds
<1>4. TxInv(tx)
  BY <1>1 DEF TxInv
<1>5. tx \in Tx /\ tx.salt = salt /\ tx.manifest = bundle
  BY <1>3 DEF Tx
<1> HIDE DEF tx
<1>6. QED
  BY <1>2, <1>3, <1>4, <1>5, SendStep DEF SendReveal, tx

LEMMA CommitConfirmedStep ==
  ASSUME OnceInv, CommitConfirmed
  PROVE  OnceInv'
<1>1. UNCHANGED chain
  BY DEF CommitConfirmed
<1>2. IInv'
  BY <1>1, SameAccounts DEF OnceInv
<1>3. CommitOnceTypeOK'
  BY <1>2
  DEF OnceInv, CommitOnceTypeOK, ClusterTypeOK, ArchiveTypeOK,
      CommitConfirmed, StopAwaiting, PC, IInv
<1>4. \A tx \in pool' : TxInv(tx)'
  BY <1>1, SameChain DEF OnceInv, CommitConfirmed
<1>5. OutcomeInv'
  BY DEF OnceInv, OutcomeInv, CommitConfirmed
<1>6. QED
  BY <1>2, <1>3, <1>4, <1>5
  DEF OnceInv, ViewInv, CommittedInv, OpenedInv, ArchivedInv, SentInv,
      CommitConfirmed

\* An account read earlier has the deadlines of the account now, so a window
\* that is open for it is past the commit deadline.
LEMMA WindowOpensStep ==
  ASSUME OnceInv, WindowOpens
  PROVE  OnceInv'
<1>1. UNCHANGED chain
  BY DEF WindowOpens, GoTo, cvars, chain
<1>2. seen # NoAccount
  BY DEF WindowOpens, WindowIsOpen, PhaseOf
<1>3. Initialized /\ seen \in EpochState /\ SameTerms(seen, account)
  BY <1>2 DEF OnceInv, ViewInv, WindowOpens
<1>4. ~(slot <= seen.commit_deadline_slot)
  BY <1>2 DEF WindowOpens, WindowIsOpen, PhaseOf, derive_phase
<1>5. slot \in Nat
  BY DEF OnceInv, IInv, TypeOK
<1>6. CommitsOver
  BY <1>3, <1>4, <1>5 DEF CommitsOver, SameTerms, EpochState
<1>7. ViewInv' /\ CommittedInv' /\ ArchivedInv'
  BY DEF OnceInv, ViewInv, CommittedInv, ArchivedInv, WindowOpens, GoTo
<1>8. OpenedInv'
  BY <1>1, <1>6, SameChain DEF OpenedInv, WindowOpens, GoTo
<1>9. /\ seen' \in EpochState \cup {NoAccount}
      /\ bundle' \in Manifest \cup {NoManifest}
      /\ polls' \in 0..MaxPolls
      /\ ArchiveTypeOK'
  BY DEF WindowOpens, OnceInv, CommitOnceTypeOK, ArchiveTypeOK
<1>10. GoTo("gather") /\ "gather" \in PC \ {"reveal_sent", "ended"}
       /\ pc # "ended"
  BY DEF WindowOpens, PC
<1>11. QED
  BY <1>7, <1>8, <1>9, <1>10, GoToStep

LEMMA PollAgainStep ==
  ASSUME OnceInv, PollAgain
  PROVE  OnceInv'
<1>1. ViewInv' /\ CommittedInv' /\ OpenedInv' /\ ArchivedInv'
  BY DEF OnceInv, ViewInv, CommittedInv, OpenedInv, ArchivedInv, PollAgain,
         GoTo
<1>2. polls' \in 0..MaxPolls
  BY CommitOnceConstants DEF OnceInv, CommitOnceTypeOK, PollAgain
<1>3. /\ seen' \in EpochState \cup {NoAccount}
      /\ bundle' \in Manifest \cup {NoManifest}
      /\ ArchiveTypeOK'
  BY DEF PollAgain, OnceInv, CommitOnceTypeOK, ArchiveTypeOK
<1>4. GoTo("wait") /\ "wait" \in PC \ {"reveal_sent", "ended"} /\ pc # "ended"
  BY DEF PollAgain, PC
<1>5. QED
  BY <1>1, <1>2, <1>3, <1>4, GoToStep

LEMMA GatherStep ==
  ASSUME OnceInv, Gather
  PROVE  OnceInv'
<1>1. UNCHANGED chain
  BY DEF Gather, GoTo, cvars, chain
<1>2. bundle' \in Manifest
  BY Chosen DEF Gather, FreshManifests
<1>3. CommitsOver'
  BY <1>1, SameChain DEF OnceInv, OpenedInv, Gather
<1>4. OpenedInv'
  BY <1>2, <1>3 DEF OpenedInv, Gather, GoTo
<1>5. ViewInv' /\ CommittedInv' /\ ArchivedInv'
  BY DEF OnceInv, ViewInv, CommittedInv, ArchivedInv, Gather, GoTo
<1>6. /\ seen' \in EpochState \cup {NoAccount}
      /\ polls' \in 0..MaxPolls
      /\ ArchiveTypeOK'
  BY DEF Gather, OnceInv, CommitOnceTypeOK, ArchiveTypeOK
<1>7. GoTo("archive_begin") /\ pc # "ended"
      /\ "archive_begin" \in PC \ {"reveal_sent", "ended"}
  BY DEF Gather, PC
<1>8. QED
  BY <1>2, <1>4, <1>5, <1>6, <1>7, GoToStep

LEMMA ArchiveBundleStep ==
  ASSUME OnceInv, ArchiveBundle
  PROVE  OnceInv'
<1>1. PICK from, next : ArchiveStep(from, next)
        /\ \/ from = "archive_begin" /\ next = "archive_raw" /\ TearRaw
           \/ /\ from = "archive_raw" /\ next = "archive_manifest"
              /\ WriteRaw(bundle)
           \/ /\ from = "archive_manifest" /\ next = "reveal"
              /\ WriteManifest(bundle)
  BY DEF ArchiveBundle
<1>2. pc = from /\ GoTo(next) /\ UNCHANGED <<seen, bundle, polls>>
  BY <1>1 DEF ArchiveStep
<1>3. UNCHANGED chain
  BY <1>2 DEF GoTo, cvars, chain
<1>4. bundle \in Manifest /\ CommitsOver
  BY <1>1, <1>2 DEF OnceInv, OpenedInv
<1>5. OpenedInv'
  BY <1>2, <1>3, <1>4, SameChain DEF OpenedInv
<1>6. ViewInv' /\ CommittedInv'
  BY <1>1, <1>2 DEF OnceInv, ViewInv, CommittedInv, GoTo
<1>7. ArchiveTypeOK'
  BY <1>1, <1>4
  DEF OnceInv, CommitOnceTypeOK, ArchiveTypeOK, TearRaw, WriteRaw,
      WriteManifest
<1>8. ArchivedInv'
  BY <1>1, <1>2
  DEF OnceInv, CommitOnceTypeOK, ArchiveTypeOK, ArchivedInv, WriteRaw,
      WriteManifest, TearRaw, GoTo
<1>9. /\ seen' \in EpochState \cup {NoAccount}
      /\ bundle' \in Manifest \cup {NoManifest}
      /\ polls' \in 0..MaxPolls
  BY <1>2 DEF OnceInv, CommitOnceTypeOK
<1>10. next \in PC \ {"reveal_sent", "ended"} /\ pc # "ended"
  BY <1>1, <1>2 DEF PC
<1>11. QED
  BY <1>2, <1>5, <1>6, <1>7, <1>8, <1>9, <1>10, GoToStep

LEMMA RevealConfirmedStep ==
  ASSUME OnceInv, RevealConfirmed
  PROVE  OnceInv'
<1>1. Bound
  BY DEF OnceInv, SentInv, RevealConfirmed
<1>2. Explains
  BY <1>1 DEF OnceInv, ArchivedInv, Bound, Explains, RevealConfirmed
<1>3. QED
  BY <1>1, <1>2, EndStep DEF RevealConfirmed

-----------------------------------------------------------------------------
(* The steps of the world.                                                  *)

\* A bound seed cannot be replaced, by a rival or by a commit that is late.
LEMMA BoundStays ==
  ASSUME IInv, [Next]_vars, Bound, salt' = salt, bundle' = bundle
  PROVE  Bound' /\ account'.entropy_manifest_hash
                     = account.entropy_manifest_hash
<1>1. BoundSeedKept
  BY BoundSeedStays
<1>2. Initialized'
  BY ChainKeeps DEF Bound
<1>3. /\ account'.entropy_seed = account.entropy_seed
      /\ account'.entropy_manifest_hash = account.entropy_manifest_hash
      /\ account'.commitment = account.commitment
  BY <1>1, <1>2 DEF BoundSeedKept, Bound, Initialized, account
<1>4. QED
  BY <1>2, <1>3 DEF Bound

\* Executing the awaited reveal binds the seed of the command: the program
\* checks that the salt opens the commitment that is there at that moment.
LEMMA OwnRevealBinds ==
  ASSUME OnceInv, pc = "reveal_sent", Execute(pending),
         salt' = salt, bundle' = bundle
  PROVE  Bound'
<1>1. pending.kind = "reveal" /\ pending.salt = salt
      /\ pending.manifest = bundle
  BY DEF OnceInv, SentInv, RevealTx
<1>2. oracle_reveal(TheEpoch, Oracle, salt, bundle)
  BY <1>1 DEF Execute
<1>3. Initialized /\ account \in EpochState
  BY <1>2
  DEF OnceInv, IInv, TypeOK, oracle_reveal, Initialized, account
<1>4. account' = Revealed(account, salt, bundle) /\ Initialized'
  BY <1>2, <1>3 DEF oracle_reveal, Initialized, account
<1>5. account.commitment = CommitmentHash[salt]
  BY <1>2 DEF oracle_reveal, OpensCommitment, Initialized, account
<1>6. salt \in Salt /\ bundle \in Manifest
  BY DEF OnceInv, CommittedInv, OpenedInv
<1>7. OracleSeed[<<salt, bundle>>] # Zero
  BY <1>6, HashesAreNotZero
<1>8. /\ account'.entropy_seed = OracleSeed[<<salt, bundle>>]
      /\ account'.entropy_manifest_hash = bundle
      /\ account'.commitment = account.commitment
  BY <1>3, <1>4 DEF Revealed, EpochState
<1>9. QED
  BY <1>4, <1>5, <1>7, <1>8 DEF Bound

\* What holds of the command survives whatever the world does, when what it
\* adds to the network is as safe as what the command itself sends.
LEMMA WorldStep ==
  ASSUME OnceInv, [Next]_vars, UNCHANGED <<archive, own>>,
         pending' = pending, landed' \in BOOLEAN, rivals' \in 0..MaxRivals,
         pool' \subseteq Tx, \A tx \in pool' : tx \in pool \/ TxInv(tx),
         pc = "reveal_sent" /\ landed' => Bound'
  PROVE  OnceInv'
<1> USE DEF own
<1>1. IInv /\ IInv'
  BY NextInvariant DEF OnceInv
<1>2. CommitOnceTypeOK'
  BY <1>1
  DEF OnceInv, CommitOnceTypeOK, ClusterTypeOK, ArchiveTypeOK, IInv
<1>3. \A tx \in pool' : TxInv(tx)'
  <2> TAKE tx \in pool'
  <2>1. TxInv(tx)
    BY DEF OnceInv
  <2>2. QED
    BY <1>1, <2>1, SentStaysSafe
<1>4. ViewInv'
  BY <1>1, ChainKeeps DEF OnceInv, ViewInv, SameTerms
<1>5. CommittedInv' /\ ArchivedInv'
  BY DEF OnceInv, CommittedInv, ArchivedInv
<1>6. OpenedInv'
  BY <1>1, WindowsStayOver DEF OnceInv, OpenedInv
<1>7. SentInv'
  BY DEF OnceInv, SentInv
<1>8. OutcomeInv'
  <2> SUFFICES ASSUME outcome = "revealed" PROVE OutcomeInv'
    BY DEF OutcomeInv
  <2>1. Bound /\ Explains /\ pc = "ended"
    BY DEF OnceInv, OutcomeInv
  <2>2. Bound' /\ account'.entropy_manifest_hash
                    = account.entropy_manifest_hash
    BY <1>1, <2>1, BoundStays
  <2>3. QED
    BY <2>1, <2>2 DEF OutcomeInv, Explains
<1>9. QED
  BY <1>1, <1>2, <1>3, <1>4, <1>5, <1>6, <1>7, <1>8 DEF OnceInv

\* When no transaction lands, what a confirmation said is still so.
LEMMA LandedStays ==
  ASSUME OnceInv, [Next]_vars, UNCHANGED own, landed' = landed
  PROVE  pc = "reveal_sent" /\ landed' => Bound'
BY BoundStays DEF OnceInv, SentInv, own

LEMMA ClusterStepKeeps ==
  ASSUME OnceInv, ClusterStep
  PROVE  OnceInv'
<1>1. [Next]_vars
  BY ChainStep DEF OnceInv, CommitOnceNext, World
<1>2. UNCHANGED <<archive, own, rivals>>
  BY DEF ClusterStep
<1>3. PICK tx \in pool : Land(tx) \/ Lose(tx)
  BY DEF ClusterStep, Network
<1>4. pool' \subseteq pool /\ pending' = pending /\ landed' \in BOOLEAN
  BY <1>3 DEF Land, Lose, OnceInv, CommitOnceTypeOK, ClusterTypeOK
<1>5. pc = "reveal_sent" /\ landed' => Bound'
  <2>1. CASE landed' = landed
    BY <1>1, <1>2, <2>1, LandedStays
  <2>2. CASE Land(tx) /\ tx = pending
    BY <1>2, <2>2, OwnRevealBinds DEF Land, own
  <2>3. QED
    BY <1>3, <2>1, <2>2 DEF Land, Lose, OnceInv, CommitOnceTypeOK, ClusterTypeOK
<1>6. pool' \subseteq Tx /\ rivals' \in 0..MaxRivals
  BY <1>2, <1>4 DEF OnceInv, CommitOnceTypeOK, ClusterTypeOK
<1>7. QED
  BY <1>1, <1>2, <1>4, <1>5, <1>6, WorldStep

LEMMA QuietStepKeeps ==
  ASSUME OnceInv, SlotStep \/ OpenEpoch \/ UNCHANGED ovars
  PROVE  OnceInv'
<1>1. [Next]_vars
  BY ChainStep DEF OnceInv, CommitOnceNext, World
<1>2. /\ UNCHANGED <<archive, own, rivals>>
      /\ pool' = pool /\ pending' = pending /\ landed' = landed
  BY DEF SlotStep, Tick, OpenEpoch, InitEpoch, ovars, cvars
<1>3. /\ pool' \subseteq Tx /\ rivals' \in 0..MaxRivals
      /\ landed' \in BOOLEAN
  BY <1>2 DEF OnceInv, CommitOnceTypeOK, ClusterTypeOK
<1>4. QED
  BY <1>1, <1>2, <1>3, LandedStays, WorldStep

LEMMA RivalStepKeeps ==
  ASSUME OnceInv, RivalCommits \/ RivalReveals
  PROVE  OnceInv'
<1>1. PICK tx \in Tx : RivalSends(tx) /\ TxInv(tx)
  <2>1. CASE RivalCommits
    <3>1. PICK i \in FreeIds, s \in FreshSalts({salt}) :
            RivalSends([id |-> i, kind |-> "commit", salt |-> s])
      BY <2>1 DEF RivalCommits
    <3>2. [id |-> i, kind |-> "commit", salt |-> s] \in Tx
      BY DEF Tx, CommitTx, FreeIds, FreshSalts
    <3>3. QED
      BY <3>1, <3>2 DEF TxInv
  <2>2. CASE RivalReveals
    <3>1. Initialized /\ RevealWindow(account, slot)
      BY <2>2 DEF RivalReveals
    <3>2. PICK i \in FreeIds, s \in Salt, m \in FreshManifests({bundle}) :
            RivalSends([id |-> i, kind |-> "reveal", salt |-> s,
                        manifest |-> m])
      BY <2>2 DEF RivalReveals
    <3>3. [id |-> i, kind |-> "reveal", salt |-> s, manifest |-> m] \in Tx
      BY DEF Tx, RevealTx, FreeIds, FreshManifests
    <3>4. CommitsOver
      BY <3>1 DEF CommitsOver, RevealWindow
    <3>5. QED
      BY <3>2, <3>3, <3>4 DEF TxInv
  <2>3. QED
    BY <2>1, <2>2
<1>2. [Next]_vars
  BY ChainStep DEF OnceInv, CommitOnceNext, World
<1>3. /\ UNCHANGED <<archive, own>>
      /\ pending' = pending /\ landed' = landed
      /\ pool' = pool \cup {tx} /\ rivals < MaxRivals /\ rivals' = rivals + 1
  BY <1>1 DEF RivalSends
<1>4. /\ pool' \subseteq Tx /\ landed' \in BOOLEAN
      /\ \A t \in pool' : t \in pool \/ TxInv(t)
  BY <1>1, <1>3 DEF OnceInv, CommitOnceTypeOK, ClusterTypeOK
<1>5. rivals' \in 0..MaxRivals
  BY <1>3, CommitOnceConstants DEF OnceInv, CommitOnceTypeOK
<1>6. QED
  BY <1>2, <1>3, <1>4, <1>5, LandedStays, WorldStep

-----------------------------------------------------------------------------
(* The invariant, and what follows from it.                                 *)

LEMMA OnceInitInvariant == CommitOnceInit => OnceInv
<1> SUFFICES ASSUME CommitOnceInit PROVE OnceInv
  OBVIOUS
<1>1. IInv
  BY InitInvariant DEF CommitOnceInit, ClusterInit
<1>2. 0 \in 0..MaxPolls /\ 0 \in 0..MaxRivals
  BY CommitOnceConstants
<1>3. CommitOnceTypeOK
  BY <1>1, <1>2
  DEF CommitOnceInit, ClusterInit, ArchiveInit, CommitOnceTypeOK,
      ClusterTypeOK, ArchiveTypeOK, PC, IInv
<1>4. QED
  BY <1>1, <1>3
  DEF CommitOnceInit, ClusterInit, OnceInv, ViewInv, CommittedInv, OpenedInv,
      ArchivedInv, SentInv, OutcomeInv

\* Every step keeps the invariant.
LEMMA OnceNextInvariant == OnceInv /\ [CommitOnceNext]_ovars => OnceInv'
<1> SUFFICES ASSUME OnceInv, [CommitOnceNext]_ovars PROVE OnceInv'
  OBVIOUS
<1>1. CASE Progress
  <2>1. CASE Skip \/ TimeOut \/ Rejected
    BY <2>1, EndStep DEF Skip, TimeOut, Rejected
  <2>2. QED
    BY <1>1, <2>1, ReadStep, DecideStep, SendCommitStep, CommitConfirmedStep,
       WindowOpensStep, PollAgainStep, GatherStep, ArchiveBundleStep,
       SendRevealStep, RevealConfirmedStep
    DEF Progress
<1>2. CASE Fails
  BY <1>2, EndStep DEF Fails
<1>3. CASE World
  BY <1>3, ClusterStepKeeps, QuietStepKeeps, RivalStepKeeps DEF World
<1>4. CASE UNCHANGED ovars
  BY <1>4, QuietStepKeeps
<1>5. QED
  BY <1>1, <1>2, <1>3, <1>4 DEF CommitOnceNext

LEMMA OnceInvariance == CommitOnceSpec => []OnceInv
BY OnceInitInvariant, OnceNextInvariant, PTL DEF CommitOnceSpec

\* The command, its rival and the cluster together make a behaviour of the
\* on-chain program (main.rs cmd_commit_once).
THEOREM OnceIsAClient == CommitOnceSpec => Spec
<1>1. OnceInv /\ [CommitOnceNext]_ovars => [Next]_vars
  BY ChainStep DEF OnceInv
<1>2. CommitOnceInit => Init
  BY DEF CommitOnceInit, ClusterInit
<1>3. QED
  BY <1>1, <1>2, OnceInvariance, PTL DEF CommitOnceSpec, Spec

\* The variables of the command have their types at every await.
THEOREM OnceTypeCorrect == CommitOnceSpec => []CommitOnceTypeOK
<1>1. OnceInv => CommitOnceTypeOK
  BY DEF OnceInv
<1>2. QED
  BY <1>1, OnceInvariance, PTL

\* A command that ends with "revealed" has bound its own seed, its archive
\* explains it, and no rival took its place (cmd_commit_once, oracle_reveal,
\* oracle_commit).
THEOREM RevealedTellsTheTruth == CommitOnceSpec => []RevealedIsTrue
<1>1. OnceInv => RevealedIsTrue
  BY DEF OnceInv, OutcomeInv, Bound, RevealedIsTrue
<1>2. QED
  BY <1>1, OnceInvariance, PTL

\* No salt is on its way in a reveal while a commitment can be replaced
\* (wait_for_phase, which compares a slot with an account read before it).
THEOREM OwnSaltIsSecret == CommitOnceSpec => []OwnSaltStaysSecret
<1>1. OnceInv => OwnSaltStaysSecret
  BY DEF OnceInv, TxInv, CommitsOver, OwnSaltStaysSecret
<1>2. QED
  BY <1>1, OnceInvariance, PTL

=============================================================================
