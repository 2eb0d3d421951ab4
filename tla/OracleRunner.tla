---------------------------- MODULE OracleRunner ----------------------------
(***************************************************************************)
(* The long-running oracle process (oracle/src/runner.rs run_loop with     *)
(* epoch.rs, tx.rs, finalize.rs and entropy/seed.rs archive) against the   *)
(* on-chain program of module Beacon, for one epoch.                       *)
(*                                                                         *)
(* The process and the cluster meet at RPC calls only.  A step of run_loop *)
(* between two awaits is one action; the slot clock, transactions in       *)
(* flight, crashes and operators act between any two of them.  The 5 s     *)
(* sleep that ends an iteration changes nothing; it is a step only after   *)
(* an error, so that an iteration that failed differs from an idle one.    *)
(***************************************************************************)
EXTENDS Archive

CONSTANTS
  Faults,        \* what may go wrong: a subset of FaultKinds
  Schedule,      \* how operators and slots treat the process (see Schedules)
  MaxStarts,     \* bound on starts of the process
  NoSalt

FaultKinds ==
  {"rpc",        \* a read fails or times out, or a transaction is not sent
   "entropy",    \* fetching, archiving or proving fails
   "unknown",    \* the client gives up on a transaction that is still open
   "interrupt",  \* SIGINT while the loop listens for it
   "crash"}      \* the process dies

Schedules ==
  {"free",       \* the epoch is initialized and the process started at will
   "script"}     \* as in scripts/local-demo.sh: initialized, then started

ASSUME RunnerConstants ==
  /\ Faults \subseteq FaultKinds
  /\ Schedule \in Schedules
  /\ MaxStarts \in Nat
  /\ NoSalt \notin Salt

VARIABLES
  pc,             \* the await run_loop is at
  seen,           \* the account current_phase or read_epoch_state returned
  commit_state,   \* the salt of the confirmed commit, in memory only
  has_revealed,
  has_finalized,
  bundle,         \* manifest of the entropy bundle being revealed
  exit_code,      \* how the process ended
  starts          \* number of times it was started

memory == <<commit_state, has_revealed, has_finalized>>
process == <<pc, seen, memory, bundle, exit_code, starts>>
rvars == <<cvars, process, archive>>

PC == {"down", "select", "slot", "commit", "gather", "archive_begin",
       "archive_raw", "archive_manifest", "reveal", "read_seed", "prove",
       "finalize", "await", "reread", "retry", "exited"}

RunnerTypeOK ==
  /\ ClusterTypeOK
  /\ ArchiveTypeOK
  /\ pc \in PC
  /\ seen \in EpochState \cup {NoAccount}
  /\ commit_state \in Salt \cup {NoSalt}
  /\ has_revealed \in BOOLEAN
  /\ has_finalized \in BOOLEAN
  /\ bundle \in Manifest \cup {NoManifest}
  /\ exit_code \in {"none", "ok", "bail", "rpc_error"}
  /\ starts \in 0..MaxStarts

-----------------------------------------------------------------------------
(* Decisions.                                                               *)

\* decide_action, by phase; the phase is None when the account does not exist.
InCommit_again(committed, revealed) == "SendCommit"
InCommit(committed, revealed) ==
  IF committed \/ revealed THEN "Idle" ELSE "SendCommit"

InReveal_uncommitted(committed, revealed) ==
  IF revealed THEN "Idle" ELSE "SendReveal"
InReveal_then_leave(committed, revealed) ==
  IF committed /\ ~revealed THEN "SendReveal" ELSE "WaitForNextEpoch"
InReveal(committed, revealed) ==
  IF revealed THEN "Idle"
  ELSE IF committed THEN "SendReveal" ELSE "WaitForNextEpoch"

InFinalize(finalized) == IF finalized THEN "Idle" ELSE "SendFinalize"

decide_action_idle_when_closed(phase, committed, revealed, finalized) ==
  [Commit |-> InCommit(committed, revealed),
   Reveal |-> InReveal(committed, revealed),
   Finalize |-> InFinalize(finalized),
   Closed |-> "Idle",
   None |-> "WaitForNextEpoch"][phase]
decide_action(phase, committed, revealed, finalized) ==
  [Commit |-> InCommit(committed, revealed),
   Reveal |-> InReveal(committed, revealed),
   Finalize |-> InFinalize(finalized),
   Closed |-> "WaitForNextEpoch",
   None |-> "WaitForNextEpoch"][phase]

FirstAwait == [SendCommit |-> "commit", SendReveal |-> "gather",
               SendFinalize |-> "read_seed", Idle |-> "select"]

-----------------------------------------------------------------------------
(* Helpers of the loop.                                                     *)

\* The iteration is over; what it bound is dropped.
Loop(next) ==
  /\ pc' = next
  /\ seen' = NoAccount
  /\ bundle' = NoManifest
  /\ StopAwaiting
  /\ UNCHANGED <<chain, pool, archive, exit_code, starts>>

\* An error branch: log, sleep and retry.
Retry == Loop("retry") /\ UNCHANGED memory

\* On to the next await of the iteration.
GoTo(next) ==
  /\ pc' = next
  /\ UNCHANGED <<cvars, memory, exit_code, starts>>

Exit(code) ==
  /\ pc' = "exited"
  /\ exit_code' = code
  /\ seen' = NoAccount
  /\ UNCHANGED <<cvars, memory, bundle, archive, starts>>

\* A transaction was sent; its confirmation is awaited.
Await ==
  /\ pc' = "await"
  /\ UNCHANGED <<seen, memory, bundle, archive, exit_code, starts>>

-----------------------------------------------------------------------------
(* Phase detection.                                                         *)

Resume ==
  /\ pc = "retry"
  /\ GoTo("select")
  /\ UNCHANGED <<seen, bundle, archive>>

ReadState ==
  /\ pc = "select"
  /\ GoTo("slot")
  /\ seen' = account
  /\ UNCHANGED <<bundle, archive>>

Phase == PhaseOf(seen)
Decision ==
  decide_action(Phase, commit_state # NoSalt, has_revealed, has_finalized)

Decide ==
  /\ pc = "slot"
  /\ Decision # "WaitForNextEpoch"
  /\ GoTo(FirstAwait[Decision])
  /\ seen' = NoAccount
  /\ UNCHANGED <<bundle, archive>>

\* WaitForNextEpoch of a phase other than Closed ends the process.
LeaveEpoch ==
  /\ pc = "slot"
  /\ Decision = "WaitForNextEpoch"
  /\ Phase # "Closed"
  /\ Exit("ok")

DecideReread ==
  /\ pc = "slot"
  /\ Decision = "WaitForNextEpoch"
  /\ Phase = "Closed"
  /\ GoTo("reread")
  /\ UNCHANGED <<seen, bundle, archive>>

\* The account a closed epoch is judged by is read again.
ClosingView_stale == seen
ClosingView == account

CloseEpoch ==
  /\ pc = "reread"
  /\ Exit(IF ClosingView # NoAccount /\ ~ClosingView.is_finalized
          THEN "bail" ELSE "ok")

\* The second read is not retried: its error ends the process.
RereadFails ==
  /\ "rpc" \in Faults
  /\ pc = "reread"
  /\ Exit("rpc_error")

ReadFails ==
  /\ "rpc" \in Faults
  /\ pc \in {"slot", "read_seed"}
  /\ Retry

-----------------------------------------------------------------------------
(* SendCommit, SendReveal, SendFinalize.                                    *)

SendCommit ==
  /\ pc = "commit"
  /\ FreshSalts({commit_state}) # {}
  /\ SendCommitTx(Fresh1(FreshSalts({commit_state})))
  /\ Await

Gather ==
  /\ pc = "gather"
  /\ FreshManifests(Archived) # {}
  /\ bundle' = Fresh1(FreshManifests(Archived))
  /\ GoTo("archive_begin")
  /\ UNCHANGED <<seen, archive>>

\* archive: the raw files are overwritten one by one, then manifest.json.
ArchiveBegin ==
  /\ pc = "archive_begin"
  /\ TearRaw
  /\ GoTo("archive_raw")
  /\ UNCHANGED <<seen, bundle>>

ArchiveRaw ==
  /\ pc = "archive_raw"
  /\ WriteRaw(bundle)
  /\ GoTo("archive_manifest")
  /\ UNCHANGED <<seen, bundle>>

ArchiveManifest ==
  /\ pc = "archive_manifest"
  /\ WriteManifest(bundle)
  /\ GoTo("reveal")
  /\ UNCHANGED <<seen, bundle>>

SendReveal ==
  /\ pc = "reveal"
  /\ SendRevealTx(commit_state, bundle)
  /\ Await

\* The seed to prove is read again, without a timeout.
ReadSeed ==
  /\ pc = "read_seed"
  /\ Initialized
  /\ seen' = account
  /\ GoTo("prove")
  /\ UNCHANGED <<bundle, archive>>

\* run_finalize: the prover's output agrees with the oracle's own evaluation.
Prove ==
  /\ pc = "prove"
  /\ GoTo("finalize")
  /\ UNCHANGED <<seen, bundle, archive>>

SendFinalize ==
  /\ pc = "finalize"
  /\ SendFinalizeTx(seen.entropy_seed)
  /\ Await

WorkFails ==
  /\ "entropy" \in Faults
  /\ pc \in {"gather", "archive_begin", "archive_raw", "archive_manifest",
             "prove"}
  /\ Retry

\* No blockhash: the transaction is never sent.
NotSent ==
  /\ "rpc" \in Faults
  /\ pc \in {"commit", "reveal", "finalize"}
  /\ Retry

-----------------------------------------------------------------------------
(* The end of a send.                                                       *)

\* Only a confirmed transaction changes what the process remembers.
Confirmed ==
  /\ pc = "await"
  /\ landed
  /\ commit_state' = CASE pending.kind = "commit" -> pending.salt
                       [] pending.kind = "reveal" -> NoSalt
                       [] pending.kind = "finalize" -> commit_state
  /\ has_revealed' = (has_revealed \/ pending.kind = "reveal")
  /\ has_finalized' = (has_finalized \/ pending.kind = "finalize")
  /\ Loop("select")

\* The transaction was rejected or its blockhash expired.
Rejected ==
  /\ pc = "await"
  /\ ~landed
  /\ pending \notin pool
  /\ Retry

\* RPC_TIMEOUT, or an error of the confirmation poll: the process treats the
\* transaction as failed though it was, or may yet be, executed.
GiveUp_believed ==
  /\ "unknown" \in Faults
  /\ pc = "await"
  /\ landed \/ pending \in pool
  /\ has_revealed' = (has_revealed \/ pending.kind = "reveal")
  /\ has_finalized' = (has_finalized \/ pending.kind = "finalize")
  /\ UNCHANGED commit_state
  /\ Loop("select")
GiveUp ==
  /\ "unknown" \in Faults
  /\ pc = "await"
  /\ landed \/ pending \in pool
  /\ Retry

-----------------------------------------------------------------------------
(* The world around the process.                                            *)

ClusterStep == Network /\ UNCHANGED <<process, archive>>

SlotStep ==
  /\ Tick
  /\ UNCHANGED <<process, archive>>

Open ==
  /\ \E authority \in Signer :
       /\ Schedule # "free" => authority = Oracle
       /\ InitEpoch(authority)
  /\ Schedule # "free" => CommitWindow(account', slot)
  /\ UNCHANGED <<process, archive>>

\* run_loop begins with nothing in memory.
Start ==
  /\ pc \in {"down", "exited"}
  /\ starts < MaxStarts
  /\ Schedule # "free" => Initialized
  /\ pc' = "select"
  /\ seen' = NoAccount
  /\ commit_state' = NoSalt
  /\ has_revealed' = FALSE
  /\ has_finalized' = FALSE
  /\ bundle' = NoManifest
  /\ exit_code' = "none"
  /\ starts' = starts + 1
  /\ UNCHANGED <<cvars, archive>>

Crash ==
  /\ "crash" \in Faults
  /\ pc \notin {"down", "exited"}
  /\ pc' = "down"
  /\ seen' = NoAccount
  /\ commit_state' = NoSalt
  /\ has_revealed' = FALSE
  /\ has_finalized' = FALSE
  /\ bundle' = NoManifest
  /\ StopAwaiting
  /\ UNCHANGED <<chain, pool, archive, exit_code, starts>>

\* The loop listens for SIGINT at its top only.
Interrupt ==
  /\ "interrupt" \in Faults
  /\ pc = "select"
  /\ Exit("ok")

-----------------------------------------------------------------------------
RunnerInit ==
  /\ ClusterInit
  /\ pc = "down"
  /\ seen = NoAccount
  /\ commit_state = NoSalt
  /\ has_revealed = FALSE
  /\ has_finalized = FALSE
  /\ bundle = NoManifest
  /\ ArchiveInit
  /\ exit_code = "none"
  /\ starts = 0

Progress ==
  \/ Resume \/ ReadState \/ Decide \/ LeaveEpoch \/ DecideReread \/ CloseEpoch
  \/ SendCommit \/ Gather \/ ArchiveBegin \/ ArchiveRaw \/ ArchiveManifest
  \/ SendReveal \/ ReadSeed \/ Prove \/ SendFinalize
  \/ Confirmed \/ Rejected

Failure ==
  ReadFails \/ RereadFails \/ WorkFails \/ NotSent \/ GiveUp

World == ClusterStep \/ SlotStep \/ Open \/ Start \/ Interrupt \/ Crash

RunnerNext == Progress \/ Failure \/ World

RunnerSpec == RunnerInit /\ [][RunnerNext]_rvars

-----------------------------------------------------------------------------
(* Properties.                                                              *)

\* What the process was told is what happened: after a confirmed reveal the
\* archive is complete and is the one the chain points at, whatever was given
\* up on, lost or retried before; after a confirmed finalization the epoch is
\* finalized.
ConfirmationsAreTrue ==
  /\ has_revealed =>
       /\ account.entropy_seed # Zero
       /\ Explains
  /\ has_finalized => account.is_finalized

\* A salt leaves the process only when no commitment can be changed any more,
\* so nobody can choose a commitment knowing a revealed salt.
SaltsStaySecret ==
  \A tx \in pool :
    tx.kind = "reveal" =>
      Initialized /\ account.commit_deadline_slot < slot

\* The seed a proof is made for is the final one: no reveal can land between
\* reading the account and finalizing it.
ProofsAreOfTheSeed ==
  /\ \A tx \in pool :
       tx.kind = "finalize" => tx.seed = account.entropy_seed
  /\ pc \in {"prove", "finalize"} => seen.entropy_seed = account.entropy_seed

\* The process reports an epoch it could not finalize only if nobody did and
\* nobody can, though a finalization it gave up on may have landed late.
BailIsTrue ==
  exit_code = "bail" =>
    /\ ~account.is_finalized
    /\ account.finalize_deadline_slot < slot

\* A bound seed can be re-derived from the archive.
SeedIsArchived ==
  Initialized /\ account.entropy_seed # Zero => Explains

\* Once the process has ended, the archive it leaves behind explains the seed.
ArchiveSurvives == pc = "exited" => SeedIsArchived

\* The exit status tells the outcome.  The process ends without an error (a
\* Ctrl-C aside) only if the epoch is finalized or it had no part in it: none
\* of its commits was confirmed in this life.  An RPC error ends it only when
\* the epoch is finalized or lost for good.
ExitTellsOutcome ==
  [][pc # "exited" /\ pc' = "exited" =>
       \/ Initialized /\ account.is_finalized
       \/ exit_code' = "ok" /\ pc = "select"
       \/ exit_code' = "ok" /\ commit_state = NoSalt /\ ~has_revealed
       \/ exit_code' # "ok" /\ Initialized
            /\ account.finalize_deadline_slot < slot]_rvars

=============================================================================
