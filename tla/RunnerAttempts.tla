--------------------------- MODULE RunnerAttempts ---------------------------
(***************************************************************************)
(* OracleRunner with a history variable: the slots in which the process    *)
(* has asked its entropy sources in vain (build_entropy_bundle returned an *)
(* error).                                                                 *)
(***************************************************************************)
EXTENDS OracleRunner

VARIABLE failed_in

avars == <<rvars, failed_in>>

SourceFails == pc = "gather" /\ WorkFails

AttemptsInit == RunnerInit /\ failed_in = {}

AttemptsNext ==
  /\ RunnerNext
  /\ failed_in' = IF SourceFails THEN failed_in \cup {slot} ELSE failed_in

AttemptsSpec == AttemptsInit /\ [][AttemptsNext]_avars

RevealSlots ==
  account.commit_deadline_slot + 1 .. account.reveal_deadline_slot

\* When sources failed at every slot of the reveal window the epoch is aborted
\* (the documentation of build_entropy_bundle): it is not finalized without the
\* seed they should have given.
FailedSourcesAbort ==
  Initialized /\ RevealSlots # {} /\ RevealSlots \subseteq failed_in
    => ~(account.is_finalized /\ account.entropy_seed = Zero)

=============================================================================
