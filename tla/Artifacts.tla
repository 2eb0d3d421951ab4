----------------------------- MODULE Artifacts ------------------------------
(***************************************************************************)
(* The files that setup, prover, verifier-client and the build of the      *)
(* programs hand to each other: artifacts/, the program's lib.rs with its  *)
(* declare_id!, and target/deploy/.  Every command opens and truncates a   *)
(* file, then writes it, then turns to the next; it may end between any    *)
(* two of these steps, and leaves what it has written.                     *)
(*                                                                         *)
(* A command is one value of at.  Module Scripts adds the two scripts,     *)
(* whose steps are values of at as well.                                   *)
(***************************************************************************)
EXTENDS ProofRecord

CONSTANTS
  Torn,         \* a file that was truncated and not written again
  Ceremony,     \* the source import-ceremony writes: no VERIFYING_KEY in it
  Commands,     \* commands the operator uses
  MaxCommands   \* bound on the commands started

KeyFiles == {"proving_key", "verifying_key", "vk_source"}
ProofFiles == {"proof", "public_inputs", "proof_solana", "inputs_solana"}
Sources == {"lib_rs", "vk_source"}
Backup == [lib_rs |-> "lib_rs_backup", vk_source |-> "vk_source_backup"]
Files == KeyFiles \cup ProofFiles \cup Sources
         \cup {Backup[f] : f \in Sources} \cup {"program_so"}

\* The n-th command draws setup n, if it draws one; setup 0 is that of the
\* verifying key source in the repository.
ASSUME ArtifactsConstants ==
  /\ MaxCommands \in Nat /\ Key = 0..MaxCommands
  /\ None \notin Files
  /\ Torn # None /\ Torn \notin Key /\ Torn \notin Inputs
  /\ Torn \notin Proof
  /\ Ceremony # None /\ Ceremony # Torn /\ Ceremony \notin Key

VARIABLES
  disk,         \* contents by file
  file,         \* the file the command is writing, or None
  at,           \* the command, or the step of a script, that runs
  product,      \* the proof the prover has made
  commands,     \* number of commands started
  whole         \* since the last complete setup, nothing else has begun to
                \* write key files (history)

filevars == <<disk, file, at, product, commands, whole>>

SetupSteps == {"setup", "deploy_setup", "demo_setup"}

-----------------------------------------------------------------------------
(* One file after the other.                                                *)

\* The order in which run_local_random_setup, prove_to_files and the backup
\* and restore of local-demo.sh write.
NextFile_no_source(f) ==
  CASE f = "proving_key" -> "verifying_key"
    [] f = "proof" -> "public_inputs"
    [] f = "public_inputs" -> "proof_solana"
    [] f = "proof_solana" -> "inputs_solana"
    [] OTHER -> None
NextFile_lib_rs_only(f) ==
  CASE f = "proving_key" -> "verifying_key"
    [] f = "verifying_key" -> "vk_source"
    [] f = "lib_rs_backup" -> "vk_source_backup"
    [] OTHER -> None
NextFile(f) ==
  CASE f = "proving_key" -> "verifying_key"
    [] f = "verifying_key" -> "vk_source"
    [] f = "proof" -> "public_inputs"
    [] f = "public_inputs" -> "proof_solana"
    [] f = "proof_solana" -> "inputs_solana"
    [] f = "lib_rs_backup" -> "vk_source_backup"
    [] f = "lib_rs" -> "vk_source"
    [] OTHER -> None

\* What the command at work writes into f.
Content(f) ==
  CASE at \in SetupSteps -> commands
    [] at = "ceremony" -> Ceremony
    [] at = "prove" ->
         IF f \in {"proof", "proof_solana"} THEN product ELSE product.statement
    [] at = "demo_backup" ->
         IF f = "lib_rs_backup" THEN disk["lib_rs"] ELSE disk["vk_source"]
    [] OTHER -> disk[Backup[f]]

\* cp of a file that is not there leaves its target alone.
Truncate ==
  /\ file # None
  /\ disk[file] # Torn /\ Content(file) # None
  /\ disk' = [disk EXCEPT ![file] = Torn]
  /\ UNCHANGED <<file, at, product, commands, whole>>

WriteFile ==
  /\ file # None
  /\ disk[file] = Torn \/ Content(file) = None
  /\ disk' = [disk EXCEPT ![file] = IF Content(file) = None THEN @
                                    ELSE Content(file)]
  /\ file' = NextFile(file)
  /\ UNCHANGED <<at, product, commands, whole>>

-----------------------------------------------------------------------------
(* Commands of their own.                                                   *)

Begin(command) ==
  /\ at = "idle"
  /\ command \in Commands
  /\ commands < MaxCommands
  /\ commands' = commands + 1

\* The command or step is over, or gives up.
Enter(step, first) ==
  /\ at' = step
  /\ file' = first

LocalRandom ==
  /\ Begin("local-random")
  /\ Enter("setup", "proving_key")
  /\ whole' = FALSE
  /\ UNCHANGED <<disk, product>>

\* --out has a default.
ImportCeremony_to_key_file ==
  /\ Begin("import-ceremony")
  /\ Enter("ceremony", "verifying_key")
  /\ whole' = FALSE
  /\ UNCHANGED <<disk, product>>
ImportCeremony ==
  /\ Begin("import-ceremony")
  /\ Enter("ceremony", "vk_source")
  /\ whole' = FALSE
  /\ UNCHANGED <<disk, product>>

\* The proving key is read once; a torn one cannot be deserialized.
Prove ==
  /\ Begin("prover")
  /\ disk["proving_key"] \in Key
  /\ \E s \in Provable :
       product' = [key |-> disk["proving_key"], statement |-> s]
  /\ Enter("prove", "proof")
  /\ UNCHANGED <<disk, whole>>

CommandDone ==
  /\ at \in {"setup", "ceremony", "prove"}
  /\ file = None
  /\ Enter("idle", None)
  /\ product' = None
  /\ whole' = (whole \/ at = "setup")
  /\ UNCHANGED <<disk, commands>>

-----------------------------------------------------------------------------
(* Verifying.                                                               *)

verify_from_files ==
  IF \/ disk["verifying_key"] \notin Key
     \/ disk["proof"] \notin Proof
     \/ disk["public_inputs"] \notin Inputs
  THEN "error"
  ELSE IF Verifies(disk["verifying_key"], disk["proof"], disk["public_inputs"])
       THEN "valid" ELSE "invalid"

\* The test of solana-local-validator-test: program and fixture are compiled
\* in from the files.
LocalValidatorTestPasses ==
  /\ disk["vk_source"] \in Key
  /\ disk["proof_solana"] \in Proof
  /\ disk["inputs_solana"] \in Inputs
  /\ Verifies(disk["vk_source"], disk["proof_solana"], disk["inputs_solana"])

\* A client sends the proof on disk, at any time, to the record program: its
\* public inputs may be those of another run of the prover, or none's.
Submit(authority) ==
  /\ \E public_inputs \in Inputs :
       verify_vrf_proof(authority, disk["proof_solana"], public_inputs)
  /\ UNCHANGED filevars

RecordUpgrade ==
  /\ Begin("record-program")
  /\ disk["vk_source"] \in Key
  /\ DeployRecordProgram(disk["vk_source"])
  /\ UNCHANGED <<disk, file, at, product, whole>>

\* The proof files are those of one run of the prover with the proving key
\* that is there now.
FixtureIsCurrent ==
  /\ at = "idle"
  /\ disk["proof"] \in Proof
  /\ disk["proof"].key = disk["proving_key"]
  /\ disk["proof_solana"] = disk["proof"]
  /\ disk["public_inputs"] = disk["proof"].statement
  /\ disk["inputs_solana"] = disk["proof"].statement

\* After the prover was run again, the local validator test passes.
FixtureIsAccepted == FixtureIsCurrent => LocalValidatorTestPasses

\* Proofs of the proving key on disk are accepted by the verifier-client and
\* by a program built from the source on disk, whichever commands were
\* interrupted before, as long as nothing was half done to the keys since.
CurrentProofsVerify ==
  whole /\ FixtureIsCurrent =>
    LocalValidatorTestPasses /\ verify_from_files = "valid"

=============================================================================
