---------------------------- MODULE RunnerHistory ----------------------------
(***************************************************************************)
(* OracleRunner with a history variable: has the process ever given up on  *)
(* a transaction whose outcome it did not know?  Some of what it promises  *)
(* is broken by that and by nothing else.                                  *)
(***************************************************************************)
EXTENDS OracleRunner

VARIABLE gave_up

hvars == <<rvars, gave_up>>

HistoryInit == RunnerInit /\ gave_up = FALSE

HistoryNext == RunnerNext /\ gave_up' = (gave_up \/ GiveUp)

HistorySpec == HistoryInit /\ [][HistoryNext]_hvars

\* While a confirmed commit is waiting to be revealed, the chain holds it
\* (a restarted process may still have commits of its former life in flight),
\* unless a commit was given up on and landed after its replacement.
CommitStands ==
  ~gave_up /\ starts = 1 /\ commit_state # NoSalt /\ Initialized =>
    account.entropy_seed # Zero
      \/ account.commitment = CommitmentHash[commit_state]

\* A bound seed can be re-derived from the archive at all times, crashes and
\* half-written archives included, unless a reveal was given up on.
ArchiveMatchesChain == ~gave_up => SeedIsArchived

=============================================================================
