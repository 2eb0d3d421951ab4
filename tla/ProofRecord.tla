---------------------------- MODULE ProofRecord -----------------------------
(***************************************************************************)
(* The stand-alone verifier program (crates/solana-program): one record    *)
(* per authority, at an address derived from the authority's key, that     *)
(* holds the last statement the program accepted from it.  The verifying   *)
(* key is compiled into the program from artifacts/verifying_key_solana.rs *)
(* and changes when the program is deployed again.                         *)
(*                                                                         *)
(* A Groth16 proof is named by the setup whose proving key made it and the *)
(* statement <<alpha_hash, beta>> it proves, one that some secret key      *)
(* satisfies: soundness is assumed, for the key pair of one setup.         *)
(***************************************************************************)
EXTENDS Integers

CONSTANTS
  Key,          \* setups: a proving key and the verifying key drawn with it
  Inputs,       \* public inputs: pairs <<alpha_hash, beta>>
  Provable,     \* those that some secret key satisfies
  Authority,
  None          \* no file, no program, no record

Proof == [key : Key, statement : Provable]

ASSUME ProofRecordConstants ==
  /\ Provable \subseteq Inputs
  /\ None \notin Key /\ None \notin Inputs /\ None \notin Proof
  /\ \A a \in Authority, x \in Inputs :
       None # [authority |-> a, beta |-> x[2], public_inputs |-> x]

VARIABLES
  record_program,   \* the setup its verifying key is of, or None
  records           \* by authority

recordvars == <<record_program, records>>

Record(authority, public_inputs) ==
  [authority |-> authority, beta |-> public_inputs[2],
   public_inputs |-> public_inputs]

RecordTypeOK ==
  /\ record_program \in Key \cup {None}
  /\ DOMAIN records = Authority
  /\ \A a \in Authority :
       records[a] = None \/ \E x \in Inputs : records[a] = Record(a, x)

RecordInit ==
  /\ record_program = None
  /\ records = [a \in Authority |-> None]

\* Groth16Verifier::verify, of the program and of the command line alike.
Verifies_any_statement(key, proof, public_inputs) ==
  proof \in Proof /\ proof.key = key
Verifies(key, proof, public_inputs) ==
  proof = [key |-> key, statement |-> public_inputs]

\* verify_vrf_proof: the account is created if it is not there, else replaced.
verify_vrf_proof(authority, proof, public_inputs) ==
  /\ proof \in Proof /\ public_inputs \in Inputs
  /\ Verifies(record_program, proof, public_inputs)
  /\ records' = [records EXCEPT ![authority] = Record(authority, public_inputs)]
  /\ UNCHANGED record_program

DeployRecordProgram(key) ==
  /\ record_program' = key
  /\ UNCHANGED records

\* A record shows an evaluation of the VRF, whatever the setups the program
\* was deployed with, and whichever files of different runs of the prover the
\* client found on its disk.
RecordsAreTrue ==
  \A a \in Authority :
    records[a] # None => records[a].public_inputs \in Provable

=============================================================================
