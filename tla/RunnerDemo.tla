----------------------------- MODULE RunnerDemo ------------------------------
(***************************************************************************)
(* OracleRunner with what makes it end and what makes it succeed.  A       *)
(* behaviour is a demo, as scripts/local-demo.sh runs one, or it is not:   *)
(* in a demo the operator opens the epoch and then starts the process, no  *)
(* confirmation is lost, nobody stops the process, and the windows are as  *)
(* long as its retries need.  In any other behaviour everything that       *)
(* module OracleRunner allows may happen.                                  *)
(***************************************************************************)
EXTENDS OracleRunner

VARIABLE demo   \* is this a demo?  It never changes

dvars == <<rvars, demo>>

\* A deadline does not pass while the process is still at the work of its
\* window.
KeepsUp ==
  /\ Initialized
  /\ \/ account.is_finalized
     \/ /\ slot = account.commit_deadline_slot => commit_state # NoSalt
        /\ slot = account.reveal_deadline_slot => has_revealed
        /\ slot # account.finalize_deadline_slot

DemoSlot == SlotStep /\ (demo => KeepsUp) /\ UNCHANGED demo

DemoOpen ==
  /\ Open
  /\ demo => account'.oracle_pubkey = Oracle /\ CommitWindow(account', slot)
  /\ UNCHANGED demo

DemoStart == Start /\ (demo => Initialized) /\ UNCHANGED demo

DemoWork == Progress /\ UNCHANGED demo
DemoCluster == ClusterStep /\ UNCHANGED demo
DemoFailure ==
  ReadFails \/ RereadFails \/ WorkFails \/ NotSent \/ (~demo /\ GiveUp)
DemoRetries == DemoFailure /\ UNCHANGED demo
Disturbance == ~demo /\ (Interrupt \/ Crash) /\ UNCHANGED demo

DemoLand ==
  /\ demo
  /\ \E tx \in pool : Land(tx)
  /\ UNCHANGED <<process, archive, demo>>

DemoInit == RunnerInit /\ demo \in BOOLEAN

DemoNext ==
  \/ DemoSlot \/ DemoOpen \/ DemoStart \/ DemoWork \/ DemoCluster
  \/ DemoRetries \/ Disturbance

\* Slots keep coming, the process is scheduled, a transaction in flight lands
\* or its blockhash expires, and failures of the outside world come to an end:
\* without the last, run_loop may retry a failing read for ever.
Fairness ==
  /\ WF_dvars(DemoSlot)
  /\ WF_dvars(DemoWork)
  /\ WF_dvars(DemoCluster)
  /\ <>[][~Failure]_dvars

\* The script goes on from step to step, and the network does not lose every
\* transaction.
DemoFairness ==
  /\ WF_dvars(demo /\ DemoOpen)
  /\ WF_dvars(demo /\ DemoStart)
  /\ SF_dvars(DemoLand)

DemoSpec == DemoInit /\ [][DemoNext]_dvars /\ Fairness /\ DemoFairness

\* A process that keeps running ends, whatever fails on the way.
ProcessEnds == (pc # "down") ~> (pc \in {"down", "exited"})

\* A demo publishes an output over a seed that its archive explains, and ends.
DemoPublishes ==
  demo => <>[](/\ Initialized
               /\ account.is_finalized
               /\ account.entropy_seed # Zero
               /\ Explains
               /\ pc = "exited")

=============================================================================
