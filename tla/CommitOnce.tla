----------------------------- MODULE CommitOnce -----------------------------
(***************************************************************************)
(* The one-shot command `oracle commit-once` (oracle/src/main.rs           *)
(* cmd_commit_once with epoch.rs wait_for_phase): commit, wait for the     *)
(* reveal window, gather, archive, reveal, end.  Nothing is retried: the   *)
(* first error ends the process and its salt with it.  Nothing keeps a     *)
(* second oracle process with the same key from working on the same epoch  *)
(* at the same time, so one does: a rival commits and reveals at will,     *)
(* with salts of its own and an archive on its own machine.                *)
(***************************************************************************)
EXTENDS Archive

CONSTANTS
  MaxPolls,      \* PHASE_POLL_TIMEOUT / PHASE_POLL_INTERVAL
  MaxRivals,     \* bound on the transactions of the rival
  NoSalt

ASSUME CommitOnceConstants ==
  /\ MaxPolls \in Nat \ {0} /\ MaxRivals \in Nat /\ NoSalt \notin Salt

VARIABLES
  pc,          \* the await cmd_commit_once is at
  seen,        \* the account read_epoch_state returned
  salt,        \* commit_state.salt
  bundle,      \* manifest of the bundle to reveal
  polls,       \* iterations of wait_for_phase
  outcome,     \* how the command ended
  rivals       \* transactions the rival has sent

own == <<pc, seen, salt, bundle, polls, outcome>>
ovars == <<cvars, archive, own, rivals>>

PC == {"read", "slot", "commit", "commit_sent", "wait", "wait_slot", "gather",
       "archive_begin", "archive_raw", "archive_manifest", "reveal",
       "reveal_sent", "ended"}

CommitOnceTypeOK ==
  /\ ClusterTypeOK
  /\ ArchiveTypeOK
  /\ pc \in PC
  /\ seen \in EpochState \cup {NoAccount}
  /\ salt \in Salt \cup {NoSalt}
  /\ bundle \in Manifest \cup {NoManifest}
  /\ polls \in 0..MaxPolls
  /\ outcome \in {"none", "skipped", "revealed", "error"}
  /\ rivals \in 0..MaxRivals

-----------------------------------------------------------------------------
(* Helpers.                                                                 *)

\* A step of the process that sends nothing.
GoTo(next) ==
  /\ pc' = next
  /\ UNCHANGED <<cvars, salt, outcome, rivals>>

End(how) ==
  /\ pc' = "ended"
  /\ outcome' = how
  /\ seen' = NoAccount
  /\ StopAwaiting
  /\ UNCHANGED <<chain, pool, archive, salt, bundle, polls, rivals>>

Read(next) ==
  /\ GoTo(next)
  /\ seen' = account
  /\ UNCHANGED <<archive, bundle, polls>>

-----------------------------------------------------------------------------
(* current_phase and the commit.                                            *)

ReadState == pc = "read" /\ Read("slot")

Skip ==
  /\ pc = "slot"
  /\ PhaseOf(seen) # "Commit"
  /\ End("skipped")

\* CommitState::new: a salt of the process, drawn once.
Decide ==
  /\ pc = "slot"
  /\ PhaseOf(seen) = "Commit"
  /\ FreshSalts({}) # {}
  /\ salt' = Fresh1(FreshSalts({}))
  /\ pc' = "commit"
  /\ seen' = NoAccount
  /\ UNCHANGED <<cvars, archive, bundle, polls, outcome, rivals>>

SendCommit ==
  /\ pc = "commit"
  /\ SendCommitTx(salt)
  /\ pc' = "commit_sent"
  /\ UNCHANGED <<archive, seen, salt, bundle, polls, outcome, rivals>>

CommitConfirmed ==
  /\ pc = "commit_sent"
  /\ landed
  /\ pc' = "wait"
  /\ StopAwaiting
  /\ UNCHANGED <<chain, pool, archive, seen, salt, bundle, polls, outcome,
                 rivals>>

-----------------------------------------------------------------------------
(* wait_for_phase(Reveal).                                                  *)

Poll == pc = "wait" /\ Read("wait_slot")

WindowIsOpen(st) == PhaseOf(st) = "Reveal"

WindowOpens ==
  /\ pc = "wait_slot"
  /\ WindowIsOpen(seen)
  /\ GoTo("gather")
  /\ seen' = NoAccount
  /\ UNCHANGED <<archive, bundle, polls>>

\* Any other phase, one that is past included, is polled again.
PollAgain_unbounded ==
  /\ pc = "wait_slot"
  /\ ~WindowIsOpen(seen)
  /\ polls' = polls
  /\ GoTo("wait")
  /\ seen' = NoAccount
  /\ UNCHANGED <<archive, bundle>>
PollAgain_late ==
  /\ pc = "wait_slot"
  /\ ~WindowIsOpen(seen)
  /\ polls <= MaxPolls
  /\ polls' = polls + 1
  /\ GoTo("wait")
  /\ seen' = NoAccount
  /\ UNCHANGED <<archive, bundle>>
PollAgain ==
  /\ pc = "wait_slot"
  /\ ~WindowIsOpen(seen)
  /\ polls < MaxPolls
  /\ polls' = polls + 1
  /\ GoTo("wait")
  /\ seen' = NoAccount
  /\ UNCHANGED <<archive, bundle>>

\* A slow network uses the two minutes up in fewer polls.
TimeOut ==
  /\ pc = "wait_slot"
  /\ ~WindowIsOpen(seen)
  /\ End("error")

-----------------------------------------------------------------------------
(* The bundle and the reveal.                                               *)

Gather ==
  /\ pc = "gather"
  /\ FreshManifests(Archived) # {}
  /\ bundle' = Fresh1(FreshManifests(Archived))
  /\ GoTo("archive_begin")
  /\ UNCHANGED <<archive, seen, polls>>

ArchiveStep(from, next) ==
  /\ pc = from
  /\ GoTo(next)
  /\ UNCHANGED <<seen, bundle, polls>>

ArchiveBundle ==
  \/ ArchiveStep("archive_begin", "archive_raw") /\ TearRaw
  \/ ArchiveStep("archive_raw", "archive_manifest") /\ WriteRaw(bundle)
  \/ ArchiveStep("archive_manifest", "reveal") /\ WriteManifest(bundle)

SendReveal ==
  /\ pc = "reveal"
  /\ SendRevealTx(salt, bundle)
  /\ pc' = "reveal_sent"
  /\ UNCHANGED <<archive, seen, salt, bundle, polls, outcome, rivals>>

RevealConfirmed ==
  /\ pc = "reveal_sent"
  /\ landed
  /\ End("revealed")

\* The confirmation loop of the library ends when the transaction was rejected
\* or its blockhash has expired; the command sets no timeout of its own.
Rejected ==
  /\ pc \in {"commit_sent", "reveal_sent"}
  /\ ~landed
  /\ pending \notin pool
  /\ End("error")

\* An RPC call, a source or the disk fails, at any await and even while a
\* transaction is still in flight: every ? of the command.
Fails == pc # "ended" /\ End("error")

-----------------------------------------------------------------------------
(* The world.                                                               *)

ClusterStep == Network /\ UNCHANGED <<archive, own, rivals>>

SlotStep == Tick /\ UNCHANGED <<archive, own, rivals>>

OpenEpoch ==
  /\ \E authority \in Signer : InitEpoch(authority)
  /\ UNCHANGED <<archive, own, rivals>>

\* The rival is a process of this same code, so it reveals after the commit
\* window, and a salt it committed.
RivalSends(tx) ==
  /\ rivals < MaxRivals
  /\ rivals' = rivals + 1
  /\ pool' = pool \cup {tx}
  /\ UNCHANGED <<chain, pending, landed, archive, own>>

RivalCommits ==
  \E i \in FreeIds, s \in FreshSalts({salt}) :
    RivalSends([id |-> i, kind |-> "commit", salt |-> s])

RivalReveals ==
  /\ Initialized
  /\ RevealWindow(account, slot)
  /\ \E i \in FreeIds, s \in Salt \ {salt}, m \in FreshManifests({bundle}) :
       /\ CommitmentHash[s] = account.commitment
       /\ RivalSends([id |-> i, kind |-> "reveal", salt |-> s, manifest |-> m])

-----------------------------------------------------------------------------
CommitOnceInit ==
  /\ ClusterInit
  /\ ArchiveInit
  /\ pc = "read"
  /\ seen = NoAccount
  /\ salt = NoSalt
  /\ bundle = NoManifest
  /\ polls = 0
  /\ outcome = "none"
  /\ rivals = 0

Progress ==
  \/ ReadState \/ Skip \/ Decide \/ SendCommit \/ CommitConfirmed
  \/ Poll \/ WindowOpens \/ PollAgain \/ TimeOut
  \/ Gather \/ ArchiveBundle \/ SendReveal \/ RevealConfirmed \/ Rejected

World ==
  ClusterStep \/ SlotStep \/ OpenEpoch \/ RivalCommits \/ RivalReveals

CommitOnceNext == Progress \/ Fails \/ World

CommitOnceSpec == CommitOnceInit /\ [][CommitOnceNext]_ovars

\* The process is scheduled and its calls answer; a transaction in flight is
\* executed or its blockhash expires.  Nothing is owed by failures, by the
\* rival, or by the deadlines: the phase it waits for may never come.
FairCommitOnceSpec ==
  CommitOnceSpec /\ WF_ovars(Progress) /\ WF_ovars(ClusterStep)

-----------------------------------------------------------------------------
(* Properties.                                                              *)

\* A command that says it revealed has bound the seed of its own salt and its
\* own bundle, its archive explains it, and no rival's commit or reveal, sent
\* before, between or after, took its place.
RevealedIsTrue ==
  outcome = "revealed" =>
    /\ account.commitment = CommitmentHash[salt]
    /\ account.entropy_seed = OracleSeed[<<salt, bundle>>]
    /\ Explains

\* The salt of the command leaves it only after the last slot at which a
\* commitment can be replaced.
OwnSaltStaysSecret ==
  \A tx \in pool :
    tx.kind = "reveal" =>
      Initialized /\ account.commit_deadline_slot < slot

\* The command ends although nothing fails, the reveal window never opens or
\* has passed, and a rival keeps replacing its commit: wait_for_phase counts
\* its two minutes whatever it reads, and no confirmation is awaited for longer
\* than its transaction lives.
CommandEnds == <>(pc = "ended")

=============================================================================
