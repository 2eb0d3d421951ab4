------------------------------ MODULE Cluster -------------------------------
(***************************************************************************)
(* The Solana cluster as an oracle process meets it through rpc.rs and     *)
(* tx.rs: the accounts and the slot clock of module Beacon, transactions   *)
(* in flight, and the confirmation one process waits for.  A transaction   *)
(* is executed at most once, at any later slot, or not at all; the order   *)
(* of transactions in flight is not kept.  Reads are at commitment level   *)
(* "confirmed" and are taken to be monotone.                               *)
(***************************************************************************)
EXTENDS Beacon

CONSTANTS
  TheEpoch,      \* EPOCH_ID of the process
  Oracle,        \* the key pair that signs its transactions
  VrfKey,        \* ORACLE_VRF_SECRET
  MaxInFlight,   \* bound on transactions in flight
  NoAccount,     \* the account does not exist
  NoTx           \* no transaction is awaited

ASSUME ClusterConstants ==
  /\ TheEpoch \in EpochId /\ Oracle \in Signer /\ VrfKey \in SecretKey
  /\ MaxInFlight \in Nat \ {0}
  /\ NoAccount \notin EpochState

VARIABLES
  pool,      \* transactions sent and neither executed nor expired
  pending,   \* the transaction whose confirmation the process awaits
  landed     \* whether pending was executed successfully

chain == <<epoch, slot>>
cvars == <<epoch, slot, pool, pending, landed>>

CommitTx == [id : 1..MaxInFlight, kind : {"commit"}, salt : Salt]
RevealTx == [id : 1..MaxInFlight, kind : {"reveal"}, salt : Salt,
             manifest : Manifest]
FinalizeTx == [id : 1..MaxInFlight, kind : {"finalize"},
               seed : Seed \cup {Zero}]
Tx == CommitTx \cup RevealTx \cup FinalizeTx

ClusterTypeOK ==
  /\ TypeOK
  /\ pool \subseteq Tx
  /\ pending \in Tx \cup {NoTx}
  /\ landed \in BOOLEAN

ClusterInit ==
  /\ Init
  /\ pool = {}
  /\ pending = NoTx
  /\ landed = FALSE

-----------------------------------------------------------------------------
(* The account of the epoch.                                                *)

Initialized == TheEpoch \in DOMAIN epoch
account == IF Initialized THEN epoch[TheEpoch] ELSE NoAccount

derive_phase_early_reveal(st, now) ==
  IF st.is_finalized THEN "Closed"
  ELSE IF now < st.commit_deadline_slot THEN "Commit"
  ELSE IF now <= st.reveal_deadline_slot THEN "Reveal"
  ELSE IF now <= st.finalize_deadline_slot THEN "Finalize"
  ELSE "Closed"
derive_phase_early_finalize(st, now) ==
  IF st.is_finalized THEN "Closed"
  ELSE IF now <= st.commit_deadline_slot THEN "Commit"
  ELSE IF now < st.reveal_deadline_slot THEN "Reveal"
  ELSE IF now <= st.finalize_deadline_slot THEN "Finalize"
  ELSE "Closed"
derive_phase(st, now) ==
  IF st.is_finalized THEN "Closed"
  ELSE IF now <= st.commit_deadline_slot THEN "Commit"
  ELSE IF now <= st.reveal_deadline_slot THEN "Reveal"
  ELSE IF now <= st.finalize_deadline_slot THEN "Finalize"
  ELSE "Closed"

\* current_phase: None when the account does not exist.  The account may be
\* older than the slot it is compared with, they are two RPC calls.
PhaseOf(st) == IF st = NoAccount THEN "None" ELSE derive_phase(st, slot)

-----------------------------------------------------------------------------
(* Sending.                                                                 *)

\* OsRng: a salt that neither the network, nor the account, nor the process
\* holds.  Salts and manifests are only compared and hashed, so which fresh
\* one it is makes no difference.
FreshSalts(held) ==
  Salt \ (held \cup {tx.salt : tx \in {t \in pool : t.kind # "finalize"}}
          \cup {s \in Salt : Initialized
                               /\ account.commitment = CommitmentHash[s]})

\* A manifest carries the time it was built at, so every bundle has its own.
FreshManifests(held) ==
  Manifest \ (held \cup {tx.manifest : tx \in {t \in pool : t.kind = "reveal"}}
              \cup (IF Initialized THEN {account.entropy_manifest_hash} ELSE {}))

Fresh1(set) == CHOOSE x \in set : TRUE

\* A transaction with a signature of its own enters the network.
FreeIds == {i \in 1..MaxInFlight : \A tx \in pool : tx.id # i}

Send(tx) ==
  /\ pool' = pool \cup {tx}
  /\ pending' = tx
  /\ landed' = FALSE
  /\ UNCHANGED chain

SendCommitTx(salt) ==
  \E i \in FreeIds : Send([id |-> i, kind |-> "commit", salt |-> salt])
SendRevealTx(salt, m) ==
  \E i \in FreeIds :
    Send([id |-> i, kind |-> "reveal", salt |-> salt, manifest |-> m])
SendFinalizeTx(seed) ==
  \E i \in FreeIds : Send([id |-> i, kind |-> "finalize", seed |-> seed])

\* The process no longer awaits a confirmation.
StopAwaiting ==
  /\ pending' = NoTx
  /\ landed' = FALSE

-----------------------------------------------------------------------------
(* The network and the validators.                                          *)

\* finalize_epoch is sent with the prover's statement and its proof.
Output(seed) == Evaluate[<<VrfKey, AlphaHash[seed]>>]
Inputs(seed) == <<AlphaHash[seed], Output(seed)>>

Execute(tx) ==
  \/ /\ tx.kind = "commit"
     /\ oracle_commit(TheEpoch, Oracle, CommitmentHash[tx.salt])
  \/ /\ tx.kind = "reveal"
     /\ oracle_reveal(TheEpoch, Oracle, tx.salt, tx.manifest)
  \/ /\ tx.kind = "finalize"
     /\ finalize_epoch(TheEpoch, Oracle, Output(tx.seed), Inputs(tx.seed),
                       Inputs(tx.seed))

Land(tx) ==
  /\ tx \in pool
  /\ Execute(tx)
  /\ pool' = pool \ {tx}
  /\ landed' = (landed \/ tx = pending)
  /\ UNCHANGED pending

\* The transaction fails in the program, is dropped, or expires.
Lose(tx) ==
  /\ tx \in pool
  /\ pool' = pool \ {tx}
  /\ UNCHANGED <<chain, pending, landed>>

Network == \E tx \in pool : Land(tx) \/ Lose(tx)

Tick == AdvanceSlot /\ UNCHANGED <<pool, pending, landed>>

\* cmd_init_epoch, run by an operator; ensure_deadlines_ordered.
InitEpoch(authority) ==
  /\ \E d \in DeadlineChoices :
       /\ d[1] < d[2] /\ d[2] < d[3]
       /\ initialize_epoch(TheEpoch, authority, d)
  /\ UNCHANGED <<pool, pending, landed>>

=============================================================================
