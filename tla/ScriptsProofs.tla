--------------------------- MODULE ScriptsProofs ----------------------------
(***************************************************************************)
(* Proofs about the checkout: for any number of commands, any choice of    *)
(* commands and options, and whatever fails or is killed.                  *)
(*                                                                         *)
(* ScriptsInv says how far the command at work has come: which key files   *)
(* are of its setup already (SetupInv), which sources its backup holds and *)
(* which it has put back (BackupInv), what the build and the clusters have *)
(* from the source (CoherentInv), and why the key on devnet is still that  *)
(* of the source the next build will read (StableInv).                     *)
(***************************************************************************)
EXTENDS Scripts, TLAPS

Backups == {"lib_rs_backup", "vk_source_backup"}

\* What the command at work may be writing.
FileInv ==
  file # None =>
    \/ at \in SetupSteps /\ file \in KeyFiles
    \/ at = "ceremony" /\ file = "vk_source"
    \/ at = "prove" /\ file \in ProofFiles /\ product \in Proof
    \/ at = "demo_backup" /\ file \in Backups
    \/ at \in RestoreSteps /\ file \in Sources

SetupInv ==
  at \in SetupSteps =>
    /\ file # "proving_key" => disk["proving_key"] = commands
    /\ file \notin {"proving_key", "verifying_key"} =>
         disk["verifying_key"] = commands
    /\ file = None => disk["vk_source"] = commands

WholeInv ==
  whole =>
    /\ at \notin SetupSteps \cup RestoreSteps \cup {"ceremony"}
    /\ disk["proving_key"] \in Key
    /\ disk["verifying_key"] = disk["proving_key"]
    /\ disk["vk_source"] = disk["proving_key"]

\* The program built from the source as it is, for its new address.
Current == [key |-> disk["vk_source"], id |-> "synced"]

CoherentInv ==
  /\ at \in {"demo_sync", "demo_build", "demo_deploy", "demo_run"} => whole
  /\ at \in {"deploy_build", "demo_build"} => disk["lib_rs"] \in {"synced", Torn}
  /\ \/ at = "demo_deploy"
     \/ at = "deploy_deploy" /\ "SKIP_BUILD" \notin opts
     => disk["program_so"] = Current
  /\ at = "demo_run" => programs["local"] = Current
  /\ at = "deploy_publish" /\ "SKIP_BUILD" \notin opts =>
       programs["devnet"] = Current

\* Of one source: not put back yet, and put back.
Saved(f) ==
  \/ disk[Backup[f]] \in {before[f], Torn}
  \/ disk[Backup[f]] = None /\ disk[f] = before[f]
Restored(f) ==
  disk[f] = before[f] \/ (disk[f] = Torn /\ disk[Backup[f]] = Torn)

BackupInv ==
  /\ \A f \in Sources : before[f] # None
  /\ at = "demo_backup" =>
       /\ \A f \in Sources :
            /\ disk[f] = before[f]
            /\ disk[Backup[f]] \in {None, Torn, before[f]}
       /\ file # "lib_rs_backup" => disk["lib_rs_backup"] = before["lib_rs"]
       /\ file = None => disk["vk_source_backup"] = before["vk_source"]
  /\ at \in DemoSteps \ {"demo_backup"} =>
       \A f \in Sources : disk[Backup[f]] = before[f]
  /\ at = "demo_restore" =>
       /\ IF file = "lib_rs" THEN Saved("lib_rs") ELSE Restored("lib_rs")
       /\ IF file = None THEN Restored("vk_source") ELSE Saved("vk_source")

\* The source the next build will read.
NextSource ==
  IF at \in DemoSteps \cup RestoreSteps THEN before["vk_source"]
                                       ELSE disk["vk_source"]

StableInv ==
  /\ programs["devnet"] # None \/ at \in DeploySteps \ {"deploy_setup"} =>
       \A f \in KeyFiles : disk[f] # None
  /\ programs["devnet"] # None /\ ~rotated =>
       /\ at \notin {"setup", "ceremony", "deploy_setup", "demo_unrestored"}
       /\ at \in DemoSteps => "RESTORE_ANCHOR_KEYS=0" \notin opts
       /\ NextSource \in {programs["devnet"].key, Torn}

ScriptsInv ==
  /\ ScriptsTypeOK /\ RecordsAreTrue
  /\ FileInv /\ SetupInv /\ WholeInv /\ CoherentInv /\ BackupInv /\ StableInv

-----------------------------------------------------------------------------
(* The files and what they hold.                                            *)

LEMMA FilesAre ==
  /\ Files = {"proving_key", "verifying_key", "vk_source", "proof",
              "public_inputs", "proof_solana", "inputs_solana", "lib_rs",
              "lib_rs_backup", "vk_source_backup", "program_so"}
  /\ Backup["lib_rs"] = "lib_rs_backup"
  /\ Backup["vk_source"] = "vk_source_backup"
  /\ {Backup[f] : f \in Sources} = Backups
  BY DEF Files, KeyFiles, ProofFiles, Sources, Backup, Backups

LEMMA ContentsAre ==
  /\ Contents("proving_key") = Key \cup {None, Torn}
  /\ Contents("verifying_key") = Key \cup {None, Torn}
  /\ Contents("vk_source") = Key \cup {Torn, Ceremony}
  /\ Contents("vk_source_backup") = Key \cup {None, Torn, Ceremony}
  /\ Contents("proof") = Proof \cup {None, Torn}
  /\ Contents("proof_solana") = Proof \cup {None, Torn}
  /\ Contents("public_inputs") = Provable \cup {None, Torn}
  /\ Contents("inputs_solana") = Provable \cup {None, Torn}
  /\ Contents("lib_rs") = Ids \cup {Torn}
  /\ Contents("lib_rs_backup") = Ids \cup {None, Torn}
  /\ Contents("program_so") = Program \cup {None}
  BY DEF Contents

\* One file is written, the others stay.
LEMMA DiskUpdate ==
  ASSUME DOMAIN disk = Files, NEW g \in Files, NEW v,
         disk' = [disk EXCEPT ![g] = v]
  PROVE  /\ DOMAIN disk' = Files
         /\ disk'[g] = v
         /\ \A f \in Files : f # g => disk'[f] = disk[f]
  OBVIOUS

DiskTypeOK ==
  /\ DOMAIN disk = Files
  /\ \A f \in Files : disk[f] \in Contents(f)

LEMMA DiskTypeUpdate ==
  ASSUME DiskTypeOK, NEW g \in Files, NEW v \in Contents(g),
         disk' = [disk EXCEPT ![g] = v]
  PROVE  DiskTypeOK'
  BY DiskUpdate DEF DiskTypeOK, Contents

\* What a command writes belongs in its file, and is there.
LEMMA ContentIsTyped ==
  ASSUME ScriptsTypeOK, FileInv, file # None
  PROVE  /\ file \in Files
         /\ Torn \in Contents(file)
         /\ Content(file) # None => Content(file) \in Contents(file)
<1> USE ContentsAre, FilesAre, ArtifactsConstants
<1>1. CASE at \in SetupSteps /\ file \in KeyFiles
  <2>1. Content(file) = commands
    BY <1>1 DEF Content, SetupSteps
  <2>2. commands \in Key
    BY DEF ScriptsTypeOK
  <2>3. QED
    BY <1>1, <2>1, <2>2 DEF KeyFiles
<1>2. CASE at = "ceremony" /\ file = "vk_source"
  BY <1>2 DEF Content, SetupSteps
<1>3. CASE at = "prove" /\ file \in ProofFiles /\ product \in Proof
  <2>1. Content(file) = IF file \in {"proof", "proof_solana"}
                        THEN product ELSE product.statement
    BY <1>3 DEF Content, SetupSteps
  <2>2. product.statement \in Provable
    BY <1>3 DEF Proof
  <2>3. QED
    BY <1>3, <2>1, <2>2 DEF ProofFiles
<1>4. CASE at = "demo_backup" /\ file \in Backups
  <2>1. Content(file) = IF file = "lib_rs_backup" THEN disk["lib_rs"]
                                                  ELSE disk["vk_source"]
    BY <1>4 DEF Content, SetupSteps
  <2>2. disk["lib_rs"] \in Contents("lib_rs")
        /\ disk["vk_source"] \in Contents("vk_source")
    BY DEF ScriptsTypeOK
  <2>3. QED
    BY <1>4, <2>1, <2>2 DEF Backups
<1>5. CASE at \in RestoreSteps /\ file \in Sources
  <2>1. Content(file) = disk[Backup[file]]
    BY <1>5 DEF Content, SetupSteps, RestoreSteps
  <2>2. disk["lib_rs_backup"] \in Contents("lib_rs_backup")
        /\ disk["vk_source_backup"] \in Contents("vk_source_backup")
    BY DEF ScriptsTypeOK
  <2>3. QED
    BY <1>5, <2>1, <2>2 DEF Sources
<1>6. QED
  BY <1>1, <1>2, <1>3, <1>4, <1>5 DEF FileInv

-----------------------------------------------------------------------------
(* Types.                                                                   *)

LEMMA InitialState ==
  ASSUME ScriptsInit
  PROVE  ScriptsInv
<1> USE FilesAre, ContentsAre, ArtifactsConstants, ProofRecordConstants
<1>1. DOMAIN disk = Files /\ disk["vk_source"] = 0 /\ disk["lib_rs"] = "tracked"
      /\ disk["public_inputs"] \in Provable
      /\ \A f \in Files \ {"vk_source", "lib_rs", "public_inputs"} : disk[f] = None
  BY DEF ScriptsInit
<1>2. DiskTypeOK
  BY <1>1, 0 \in Key DEF DiskTypeOK, Ids
<1>3. RecordTypeOK /\ RecordsAreTrue
  BY DEF ScriptsInit, RecordInit, RecordTypeOK, RecordsAreTrue
<1>4. ScriptsTypeOK
  <2>1. programs \in [Clusters -> Program \cup {None}] /\ DOMAIN before = Sources
    BY DEF ScriptsInit
  <2>2. /\ file \in Files \cup {None} /\ product \in Proof \cup {None}
        /\ at \in Steps /\ opts \subseteq Options
        /\ whole \in BOOLEAN /\ rotated \in BOOLEAN
    BY DEF ScriptsInit, Steps
  <2>3. commands \in 0..MaxCommands
    BY DEF ScriptsInit
  <2>4. QED
    BY <1>2, <1>3, <2>1, <2>2, <2>3 DEF ScriptsTypeOK, DiskTypeOK
<1>5. FileInv /\ SetupInv /\ WholeInv /\ CoherentInv /\ BackupInv
  <2>1. \A f \in Sources : before[f] # None
    BY <1>1, 0 \in Key, ScriptsConstants DEF ScriptsInit, Sources, Ids
  <2>2. QED
    BY <2>1 DEF ScriptsInit, FileInv, SetupInv, WholeInv, CoherentInv,
                BackupInv, SetupSteps, DemoSteps
<1>6. StableInv
  BY DEF ScriptsInit, StableInv, DeploySteps, Clusters
<1>7. QED
  BY <1>3, <1>4, <1>5, <1>6 DEF ScriptsInv

\* The step of a command that writes a file.
Writes == Truncate \/ WriteFile

LEMMA WriteStep ==
  ASSUME ScriptsTypeOK, FileInv, Writes
  PROVE  /\ file # None /\ file \in Files
         /\ UNCHANGED <<at, product, commands, whole>>
         /\ \/ /\ disk' = [disk EXCEPT ![file] = Torn]
               /\ Content(file) # None /\ file' = file
            \/ /\ disk' = [disk EXCEPT ![file] = Content(file)]
               /\ Content(file) # None /\ file' = NextFile(file)
            \/ /\ disk' = [disk EXCEPT ![file] = disk[file]]
               /\ Content(file) = None /\ file' = NextFile(file)
<1>1. file # None /\ UNCHANGED <<at, product, commands, whole>>
  BY DEF Writes, Truncate, WriteFile
<1>2. file \in Files
  BY <1>1, ContentIsTyped
<1>3. CASE Truncate
  BY <1>1, <1>2, <1>3 DEF Truncate
<1>4. CASE WriteFile /\ Content(file) # None
  BY <1>1, <1>2, <1>4 DEF WriteFile
<1>5. CASE WriteFile /\ Content(file) = None
  BY <1>1, <1>2, <1>5 DEF WriteFile
<1>6. QED
  BY <1>3, <1>4, <1>5 DEF Writes

LEMMA DiskTypeStep ==
  ASSUME ScriptsTypeOK, FileInv, [ScriptsNext]_svars
  PROVE  DiskTypeOK'
<1> USE FilesAre, ContentsAre, ArtifactsConstants, ScriptsConstants
<1>1. DiskTypeOK
  BY DEF ScriptsTypeOK, DiskTypeOK
<1>2. CASE UNCHANGED disk
  BY <1>1, <1>2 DEF DiskTypeOK, Contents
<1>3. CASE Writes
  <2>1. file \in Files /\ disk[file] \in Contents(file)
    BY <1>1, <1>3, WriteStep DEF DiskTypeOK
  <2>2. PICK v \in Contents(file) : disk' = [disk EXCEPT ![file] = v]
    <3> HIDE ContentsAre, FilesAre, ArtifactsConstants, ScriptsConstants
    <3>1. QED
      BY <1>3, <2>1, WriteStep, ContentIsTyped
  <2>3. QED
    BY <1>1, <2>1, <2>2, DiskTypeUpdate
<1>4. CASE Sync
  <2>1. PICK v \in {Torn, "synced"} : disk' = [disk EXCEPT !["lib_rs"] = v]
    BY <1>4 DEF Sync
  <2>2. QED
    BY <1>1, <2>1, DiskTypeUpdate DEF Ids
<1>5. CASE AnchorBuild
  <2>1. Built \in Program
    BY <1>1, <1>5 DEF AnchorBuild, Builds, Built, Program, DiskTypeOK
  <2>2. disk' = [disk EXCEPT !["program_so"] = Built]
    BY <1>5 DEF AnchorBuild
  <2>3. Built \in Contents("program_so")
    BY <2>1 DEF Contents
  <2>4. QED
    BY <1>1, <2>2, <2>3, DiskTypeUpdate
<1>6. CASE StartDemo
  <2>1. disk' = [f \in Files |-> IF f \in Backups THEN None ELSE disk[f]]
    BY <1>6 DEF StartDemo
  <2>2. QED
    BY <1>1, <2>1 DEF DiskTypeOK, Contents, Backups
<1>7. QED
  BY <1>2, <1>3, <1>4, <1>5, <1>6
     DEF ScriptsNext, Operator, NewKeys, LocalRandom, ImportCeremony,
         StartDeploy, OtherCommand, Writes, Prove, CommandDone, Records,
         RecordUpgrade, Submit, filevars, ScriptStep, DeploySetupDone,
         DeploySync, DeployBuild, DeployDeploy, DeployPublish, BackupDone,
         DemoSetupDone, DemoSync, DemoBuild, DemoDeploy, DemoRun, RestoreDone,
         Fail, Kill, svars

LEMMA RecordStep ==
  ASSUME ScriptsTypeOK, RecordsAreTrue, [ScriptsNext]_svars
  PROVE  RecordTypeOK' /\ RecordsAreTrue'
<1> USE DEF RecordTypeOK, RecordsAreTrue
<1>1. RecordTypeOK
  BY DEF ScriptsTypeOK
<1>2. CASE UNCHANGED recordvars
  BY <1>1, <1>2 DEF recordvars
<1>3. CASE RecordUpgrade
  BY <1>1, <1>3 DEF RecordUpgrade, DeployRecordProgram
<1>4. ASSUME NEW authority \in Authority, Submit(authority)
      PROVE  RecordTypeOK' /\ RecordsAreTrue'
  <2>1. PICK x \in Inputs :
               verify_vrf_proof(authority, disk["proof_solana"], x)
    BY <1>4 DEF Submit
  <2>2. disk["proof_solana"].statement \in Provable
    BY <2>1 DEF verify_vrf_proof, Proof
  <2>3. x \in Provable
    BY <2>1, <2>2 DEF verify_vrf_proof, Verifies
  <2>4. records' = [records EXCEPT ![authority] = Record(authority, x)]
        /\ record_program' = record_program
    BY <2>1 DEF verify_vrf_proof
  <2>5. Record(authority, x).public_inputs = x
    BY DEF Record
  <2>6. QED
    BY <1>1, <2>3, <2>4, <2>5
<1>5. QED
  BY <1>2, <1>3, <1>4
     DEF ScriptsNext, Operator, NewKeys, StartDeploy, StartDemo, OtherCommand,
         Records, ScriptStep, DeploySetupDone, DeploySync, DeployBuild,
         DeployDeploy, DeployPublish, BackupDone, DemoSetupDone, DemoSync,
         DemoBuild, DemoDeploy, DemoRun, RestoreDone, Fail, Kill, svars

\* The file a command turns to is one it may write.
LEMMA NextFileIsDue ==
  ASSUME FileInv, file # None, NextFile(file) # None
  PROVE  \/ at \in SetupSteps /\ NextFile(file) \in KeyFiles
         \/ at = "prove" /\ NextFile(file) \in ProofFiles /\ product \in Proof
         \/ at = "demo_backup" /\ NextFile(file) \in Backups
         \/ at \in RestoreSteps /\ NextFile(file) = "vk_source"
<1>1. CASE at \in SetupSteps /\ file \in KeyFiles
  BY <1>1 DEF NextFile, KeyFiles
<1>2. CASE at = "ceremony" /\ file = "vk_source"
  BY <1>2 DEF NextFile
<1>3. CASE at = "prove" /\ file \in ProofFiles /\ product \in Proof
  BY <1>3 DEF NextFile, ProofFiles
<1>4. CASE at = "demo_backup" /\ file \in Backups
  BY <1>4 DEF NextFile, Backups
<1>5. CASE at \in RestoreSteps /\ file \in Sources
  BY <1>5 DEF NextFile, Sources
<1>6. QED
  BY <1>1, <1>2, <1>3, <1>4, <1>5 DEF FileInv

LEMMA FileStep ==
  ASSUME ScriptsTypeOK, FileInv, [ScriptsNext]_svars
  PROVE  FileInv'
<1> USE DEF FileInv, Enter
<1>1. CASE UNCHANGED <<file, at, product>>
  BY <1>1
<1>2. CASE Writes
  <2>1. file # None /\ UNCHANGED <<at, product>>
        /\ (file' = file \/ file' = NextFile(file))
    BY <1>2, WriteStep
  <2>2. CASE file' = file
    BY <2>1, <2>2
  <2>3. CASE file' = NextFile(file) /\ file' # None
    BY <2>1, <2>3, NextFileIsDue DEF Sources
  <2>4. QED
    BY <2>1, <2>2, <2>3
<1>3. CASE file' = None
  BY <1>3
<1>4. CASE \/ Enter("setup", "proving_key")
           \/ Enter("deploy_setup", "proving_key")
           \/ Enter("demo_setup", "proving_key")
           \/ Enter("ceremony", "vk_source")
           \/ Enter("demo_backup", "lib_rs_backup")
           \/ Enter("demo_restore", "lib_rs")
  BY <1>4 DEF SetupSteps, KeyFiles, Backups, RestoreSteps, Sources
<1>5. CASE Prove
  BY <1>5 DEF Prove, Proof, ProofFiles
<1>6. CASE Fail
  <2>1. CASE at \in RestoreSteps /\ Enter("demo_unrestored", NextFile(file))
    <3>1. at \notin SetupSteps \cup {"prove", "demo_backup"}
      BY <2>1 DEF RestoreSteps, SetupSteps
    <3>2. file # None /\ NextFile(file) # None => NextFile(file) = "vk_source"
      BY <3>1, NextFileIsDue
    <3>3. file # None
      BY <1>6, <2>1 DEF Fail, Cleanup, CommandSteps, DeploySteps, DemoSteps, RestoreSteps
    <3>4. QED
      BY <2>1, <3>2, <3>3 DEF RestoreSteps, Sources
  <2>2. QED
    BY <1>3, <1>4, <1>6, <2>1 DEF Fail, Cleanup
<1>7. QED
  BY <1>1, <1>2, <1>3, <1>4, <1>5, <1>6
     DEF ScriptsNext, Operator, NewKeys, LocalRandom, ImportCeremony,
         StartDeploy, StartDemo, EnterBuild, OtherCommand, Writes, CommandDone,
         Records, RecordUpgrade, Submit, filevars, ScriptStep,
         DeploySetupDone, DeploySync, DeployBuild, DeployDeploy, DeployPublish,
         BackupDone, DemoSetupDone, DemoSync, DemoBuild, DemoDeploy, DemoRun,
         Cleanup, RestoreDone, Kill, svars

LEMMA TypeStep ==
  ASSUME ScriptsTypeOK, FileInv, RecordsAreTrue, [ScriptsNext]_svars
  PROVE  ScriptsTypeOK' /\ FileInv' /\ RecordsAreTrue'
<1>1. DiskTypeOK' /\ FileInv' /\ RecordTypeOK' /\ RecordsAreTrue'
  BY DiskTypeStep, FileStep, RecordStep
<1>2. file' \in Files \cup {None}
  BY <1>1, FilesAre DEF FileInv, KeyFiles, ProofFiles, Backups, Sources
<1>3. at' \in Steps
  BY DEF ScriptsTypeOK, Steps, CommandSteps, DeploySteps, DemoSteps,
         RestoreSteps, Enter,
         ScriptsNext, Operator, NewKeys, LocalRandom, ImportCeremony,
         StartDeploy, StartDemo, EnterBuild, OtherCommand, Truncate, WriteFile,
         Prove, CommandDone, Records, RecordUpgrade, Submit, filevars,
         ScriptStep, DeploySetupDone, DeploySync, DeployBuild, DeployDeploy,
         DeployPublish, BackupDone, DemoSetupDone, DemoSync, DemoBuild,
         DemoDeploy, DemoRun, Cleanup, RestoreDone, Fail, Kill, svars
<1>4. product' \in Proof \cup {None}
  BY DEF ScriptsTypeOK, Proof,
         ScriptsNext, Operator, NewKeys, LocalRandom, ImportCeremony,
         StartDeploy, StartDemo, OtherCommand, Truncate, WriteFile,
         Prove, CommandDone, Records, RecordUpgrade, Submit, filevars,
         ScriptStep, DeploySetupDone, DeploySync, DeployBuild, DeployDeploy,
         DeployPublish, BackupDone, DemoSetupDone, DemoSync, DemoBuild,
         DemoDeploy, DemoRun, RestoreDone, Fail, Kill, svars
<1>5. commands' \in 0..MaxCommands
  BY ArtifactsConstants
     DEF ScriptsTypeOK, Begin,
         ScriptsNext, Operator, NewKeys, LocalRandom, ImportCeremony,
         StartDeploy, StartDemo, OtherCommand, Truncate, WriteFile,
         Prove, CommandDone, Records, RecordUpgrade, Submit, filevars,
         ScriptStep, DeploySetupDone, DeploySync, DeployBuild, DeployDeploy,
         DeployPublish, BackupDone, DemoSetupDone, DemoSync, DemoBuild,
         DemoDeploy, DemoRun, RestoreDone, Fail, Kill, svars
<1>6. whole' \in BOOLEAN /\ rotated' \in BOOLEAN
  <2>1. CASE UNCHANGED whole /\ UNCHANGED rotated
    BY <2>1 DEF ScriptsTypeOK
  <2>2. CASE CommandDone /\ UNCHANGED rotated
    BY <2>2, Zenon DEF ScriptsTypeOK, CommandDone
  <2>3. CASE StartDeploy
    BY <2>3, Zenon DEF ScriptsTypeOK, StartDeploy
  <2>4. CASE StartDemo
    BY <2>4, Zenon DEF ScriptsTypeOK, StartDemo
  <2>5. CASE DeployDeploy
    <3>1. whole' = whole /\ rotated' = ("SKIP_BUILD" \in opts)
      BY <2>5 DEF DeployDeploy
    <3>2. ("SKIP_BUILD" \in opts) \in BOOLEAN
      OBVIOUS
    <3>3. whole \in BOOLEAN
      BY DEF ScriptsTypeOK
    <3>4. QED
      BY <3>1, <3>2, <3>3, Zenon
  <2>6. CASE Kill
    BY <2>6, Zenon DEF ScriptsTypeOK, Kill
  <2>7. CASE whole' \in {whole, TRUE, FALSE} /\ rotated' \in {rotated, TRUE}
    BY <2>7 DEF ScriptsTypeOK
  <2>8. QED
    BY <2>1, <2>2, <2>3, <2>4, <2>5, <2>6, <2>7
       DEF Cleanup, scriptvars, ScriptsNext, Operator, NewKeys, LocalRandom,
           ImportCeremony, OtherCommand, Truncate, WriteFile, Prove, Records,
           RecordUpgrade, Submit, filevars, ScriptStep, DeploySetupDone,
           DeploySync, DeployBuild, DeployPublish, BackupDone, DemoSetupDone,
           DemoSync, DemoBuild, DemoDeploy, DemoRun, RestoreDone, Fail, svars
<1>7. programs' \in [Clusters -> Program \cup {None}]
  <2>1. CASE UNCHANGED programs
    BY <2>1 DEF ScriptsTypeOK
  <2>2. ASSUME NEW c \in Clusters, AnchorDeploy(c)
        PROVE  programs' \in [Clusters -> Program \cup {None}]
    BY <2>2, ContentsAre, FilesAre
       DEF ScriptsTypeOK, AnchorDeploy, Contents
  <2>3. CASE StartDemo
    BY <2>3 DEF ScriptsTypeOK, StartDemo
  <2>4. QED
    BY <2>1, <2>2, <2>3
       DEF Clusters, scriptvars,
           ScriptsNext, Operator, NewKeys, StartDeploy, OtherCommand, Records,
           ScriptStep, DeploySetupDone, DeploySync, DeployBuild, DeployDeploy,
           DeployPublish, BackupDone, DemoSetupDone, DemoSync, DemoBuild,
           DemoDeploy, DemoRun, RestoreDone, Fail, Kill, svars
<1>8. opts' \subseteq Options /\ DOMAIN before' = Sources
  BY DEF ScriptsTypeOK, scriptvars,
         ScriptsNext, Operator, NewKeys, StartDeploy, StartDemo, OtherCommand,
         Records, ScriptStep, DeploySetupDone, DeploySync, DeployBuild,
         DeployDeploy, DeployPublish, BackupDone, DemoSetupDone, DemoSync,
         DemoBuild, DemoDeploy, DemoRun, RestoreDone, Fail, Kill, svars
<1>9. QED
  BY <1>1, <1>2, <1>3, <1>4, <1>5, <1>6, <1>7, <1>8
     DEF ScriptsTypeOK, DiskTypeOK

-----------------------------------------------------------------------------
(* The keys.                                                                *)

\* The steps that leave the key files alone.
Keeps ==
  /\ DOMAIN disk' = Files
  /\ \A f \in KeyFiles : disk'[f] = disk[f]

LEMMA KeysKept ==
  ASSUME ScriptsTypeOK, ScriptsNext
  PROVE  Keeps \/ Writes
<1> USE FilesAre DEF Keeps, KeyFiles
<1>1. DOMAIN disk = Files
  BY DEF ScriptsTypeOK
<1>2. CASE UNCHANGED disk
  BY <1>1, <1>2
<1>3. CASE Sync
  BY <1>1, <1>3 DEF Sync
<1>4. CASE AnchorBuild
  BY <1>1, <1>4 DEF AnchorBuild
<1>5. CASE StartDemo
  BY <1>1, <1>5 DEF StartDemo, Backups
<1>6. QED
  BY <1>2, <1>3, <1>4, <1>5
     DEF ScriptsNext, Operator, NewKeys, LocalRandom, ImportCeremony,
         StartDeploy, OtherCommand, Writes, Prove, CommandDone, Records,
         RecordUpgrade, Submit, filevars, ScriptStep, DeploySetupDone,
         DeploySync, DeployBuild, DeployDeploy, DeployPublish, BackupDone,
         DemoSetupDone, DemoSync, DemoBuild, DemoDeploy, DemoRun, RestoreDone,
         Fail, Kill

LEMMA SetupStep ==
  ASSUME ScriptsTypeOK, FileInv, SetupInv, [ScriptsNext]_svars
  PROVE  SetupInv'
<1> USE DEF SetupInv
<1>1. CASE UNCHANGED svars
  BY <1>1 DEF svars, filevars
<1>2. CASE Writes
  <2>1. CASE at \in SetupSteps
    <3>1. /\ file \in KeyFiles /\ file # None /\ file \in Files
          /\ DOMAIN disk = Files
      BY <1>2, <2>1, WriteStep
         DEF FileInv, SetupSteps, RestoreSteps, ScriptsTypeOK
    <3>2. Content(file) = commands /\ commands # None
      BY <2>1, ArtifactsConstants, ProofRecordConstants
         DEF Content, SetupSteps, ScriptsTypeOK
    <3>3. CASE disk' = [disk EXCEPT ![file] = Torn] /\ file' = file
      BY <1>2, <3>1, <3>3, WriteStep, FilesAre DEF KeyFiles
    <3>4. CASE /\ disk' = [disk EXCEPT ![file] = Content(file)]
               /\ file' = NextFile(file)
      BY <1>2, <3>1, <3>2, <3>4, WriteStep, FilesAre, ArtifactsConstants
         DEF KeyFiles, NextFile
    <3>5. QED
      BY <1>2, <3>2, <3>3, <3>4, WriteStep
  <2>2. QED
    BY <1>2, <2>1, WriteStep
<1>3. CASE at' \notin SetupSteps
  BY <1>3
<1>4. CASE file' = "proving_key" /\ Keeps
  BY <1>4, ArtifactsConstants, FilesAre
<1>5. CASE Keeps /\ UNCHANGED <<file, at, commands>>
  BY <1>5 DEF Keeps, KeyFiles
<1>6. ScriptsNext => Keeps \/ Writes
  BY KeysKept
<1>7. QED
  BY <1>1, <1>2, <1>3, <1>4, <1>5, <1>6
     DEF SetupSteps, Begin, Enter, ScriptsNext, Operator, NewKeys,
         LocalRandom, ImportCeremony, StartDeploy, StartDemo, EnterBuild,
         OtherCommand, Writes, Prove, CommandDone, Records, RecordUpgrade,
         Submit, filevars,
         ScriptStep, DeploySetupDone, DeploySync, DeployBuild, DeployDeploy,
         DeployPublish, BackupDone, DemoSetupDone, DemoSync, DemoBuild,
         DemoDeploy, DemoRun, Cleanup, RestoreDone, Fail, Kill

LEMMA WholeStep ==
  ASSUME ScriptsTypeOK, FileInv, SetupInv, WholeInv, [ScriptsNext]_svars
  PROVE  WholeInv'
<1> USE DEF WholeInv
<1>1. CASE UNCHANGED svars
  BY <1>1 DEF svars, filevars
<1>2. CASE Writes
  <2>1. UNCHANGED <<at, whole>>
    BY <1>2, WriteStep
  <2>2. CASE whole
    <3>1. file \notin KeyFiles /\ file \in Files
      BY <1>2, <2>2, WriteStep, FilesAre
         DEF FileInv, KeyFiles, ProofFiles, Backups
    <3>2. \A f \in KeyFiles : disk'[f] = disk[f]
      BY <1>2, <3>1, WriteStep, FilesAre DEF ScriptsTypeOK, KeyFiles
    <3>3. QED
      BY <2>1, <3>2 DEF KeyFiles
  <2>3. QED
    BY <2>1, <2>2
<1>3. CASE ~whole'
  BY <1>3
<1>4. CASE /\ at \in SetupSteps /\ file = None /\ Keeps
           /\ at' \notin SetupSteps \cup RestoreSteps \cup {"ceremony"}
  <2>1. commands \in Key
    BY ArtifactsConstants DEF ScriptsTypeOK
  <2>2. QED
    BY <1>4, <2>1, ArtifactsConstants, FilesAre
       DEF SetupInv, Keeps, KeyFiles
<1>5. CASE /\ Keeps
           /\ whole' => whole
           /\ at' \notin SetupSteps \cup RestoreSteps \cup {"ceremony"}
  BY <1>5 DEF Keeps, KeyFiles
<1>6. CASE Fail /\ Keeps
  BY <1>3, <1>5, <1>6
     DEF Fail, Cleanup, Enter, SetupSteps, RestoreSteps, CommandSteps, DeploySteps
<1>7. ScriptsNext => Keeps \/ Writes
  BY KeysKept
<1>8. QED
  BY <1>1, <1>2, <1>3, <1>4, <1>5, <1>6, <1>7
     DEF SetupSteps, RestoreSteps, Enter, ScriptsNext, Operator, NewKeys,
         LocalRandom, ImportCeremony, StartDeploy, StartDemo, EnterBuild,
         OtherCommand, Writes, Prove, CommandDone, Records, RecordUpgrade,
         Submit, filevars, ScriptStep, DeploySetupDone, DeploySync,
         DeployBuild, DeployDeploy, DeployPublish, BackupDone, DemoSetupDone,
         DemoSync, DemoBuild, DemoDeploy, DemoRun, Cleanup, RestoreDone, Kill

-----------------------------------------------------------------------------
(* What is built and deployed.                                              *)

LEMMA CoherentStep ==
  ASSUME ScriptsTypeOK, FileInv, WholeInv, CoherentInv, [ScriptsNext]_svars
  PROVE  CoherentInv'
<1> DEFINE Due == {"demo_sync", "demo_build", "demo_deploy", "demo_run",
                   "deploy_build", "deploy_deploy", "deploy_publish"}
<1> USE DEF CoherentInv, Current
<1>1. CASE UNCHANGED <<disk, at, whole, programs, opts>>
  BY <1>1
<1>2. CASE at' \notin Due
  BY <1>2
<1>3. CASE Writes
  BY <1>2, <1>3, WriteStep DEF FileInv, SetupSteps, RestoreSteps
<1>4. CASE DeploySync \/ DemoSync
  <2>1. disk'["lib_rs"] \in {"synced", Torn}
    BY <1>4, FilesAre DEF DeploySync, DemoSync, Sync, ScriptsTypeOK
  <2>2. \/ at = "demo_sync" /\ at' = "demo_build" /\ UNCHANGED whole
        \/ at' = "deploy_build"
    BY <1>4 DEF DeploySync, DemoSync, Enter
  <2>3. QED
    BY <2>1, <2>2
<1>5. CASE DeployBuild \/ DemoBuild
  <2>1. disk["vk_source"] \in Key /\ disk["lib_rs"] = "synced"
    BY <1>5 DEF DeployBuild, DemoBuild, AnchorBuild, Builds
  <2>2. disk' = [disk EXCEPT !["program_so"] = Current]
    BY <1>5, <2>1 DEF DeployBuild, DemoBuild, AnchorBuild, Built
  <2>3. disk'["program_so"] = Current /\ disk'["vk_source"] = disk["vk_source"]
    BY <2>2, FilesAre DEF ScriptsTypeOK
  <2>4. \/ at = "demo_build" /\ at' = "demo_deploy" /\ UNCHANGED whole
        \/ at' = "deploy_deploy"
    BY <1>5 DEF DeployBuild, DemoBuild, Enter
  <2>5. QED
    BY <2>3, <2>4
<1>6. CASE DeployDeploy
  <2>1. programs'["devnet"] = disk["program_so"]
    BY <1>6 DEF DeployDeploy, AnchorDeploy, ScriptsTypeOK, Clusters
  <2>2. QED
    BY <1>6, <2>1 DEF DeployDeploy, Enter
<1>7. CASE DemoDeploy
  <2>1. programs'["local"] = disk["program_so"]
    BY <1>7 DEF DemoDeploy, AnchorDeploy, ScriptsTypeOK, Clusters
  <2>2. QED
    BY <1>7, <2>1 DEF DemoDeploy, Enter
<1>8. CASE StartDeploy
  BY <1>8 DEF StartDeploy, EnterBuild, Enter
<1>9. CASE DeploySetupDone
  BY <1>9 DEF DeploySetupDone, EnterBuild, Enter, scriptvars
<1>10. CASE DemoSetupDone
  BY <1>10 DEF DemoSetupDone, Enter
<1>11. QED
  BY <1>1, <1>2, <1>3, <1>4, <1>5, <1>6, <1>7, <1>8, <1>9, <1>10
     DEF Begin, Enter, ScriptsNext, Operator, NewKeys, LocalRandom,
         ImportCeremony, StartDemo, OtherCommand, Writes, Prove, CommandDone,
         Records, RecordUpgrade, Submit, filevars, scriptvars, ScriptStep,
         DeployPublish, BackupDone, DemoRun, Cleanup, RestoreDone, Fail, Kill,
         RestoreSteps, svars

-----------------------------------------------------------------------------
(* Backup and restore.                                                      *)

LEMMA CleanupSaves ==
  ASSUME ScriptsTypeOK, BackupInv, at \in DemoSteps, Cleanup,
         UNCHANGED <<disk, before>>
  PROVE  BackupInv'
<1>1. \A f \in Sources : Saved(f)
  BY FilesAre DEF BackupInv, Saved, Sources, DemoSteps
<1>2. at' \in {"idle", "demo_restore"} /\ (at' = "demo_restore" => file' = "lib_rs")
  BY DEF Cleanup, Enter
<1>3. \A f \in Sources : Saved(f)'
  BY <1>1 DEF Saved, Sources
<1>4. "lib_rs" # None
  BY ArtifactsConstants, FilesAre
<1>5. QED
  BY <1>2, <1>3, <1>4 DEF BackupInv, DemoSteps, Sources

LEMMA BackupWritten ==
  ASSUME ScriptsTypeOK, FileInv, BackupInv, Writes, at = "demo_backup",
         UNCHANGED before
  PROVE  BackupInv'
<1> USE FilesAre, ArtifactsConstants
<1>1. file \in Backups /\ file \in Files /\ UNCHANGED at
  BY WriteStep DEF FileInv, SetupSteps, RestoreSteps
<1>2. Content(file) = IF file = "lib_rs_backup" THEN disk["lib_rs"]
                                                ELSE disk["vk_source"]
  BY DEF Content, SetupSteps
<1>3. Content(file) = IF file = "lib_rs_backup" THEN before["lib_rs"]
                                                ELSE before["vk_source"]
  BY <1>2 DEF BackupInv, Sources
<1>4. Content(file) # None
  BY <1>1, <1>3 DEF BackupInv, Sources, Backups
<1>5. CASE disk' = [disk EXCEPT ![file] = Torn] /\ file' = file
  BY <1>1, <1>5 DEF BackupInv, Sources, Backups, ScriptsTypeOK, DemoSteps
<1>6. CASE /\ disk' = [disk EXCEPT ![file] = Content(file)]
           /\ file' = NextFile(file)
  BY <1>1, <1>3, <1>6
     DEF BackupInv, Sources, Backups, ScriptsTypeOK, DemoSteps, NextFile
<1>7. QED
  BY <1>4, <1>5, <1>6, WriteStep

LEMMA RestoreWritten ==
  ASSUME ScriptsTypeOK, FileInv, BackupInv, Writes, at = "demo_restore",
         UNCHANGED before
  PROVE  BackupInv'
<1> USE FilesAre, ArtifactsConstants
<1>1. file \in Sources /\ file \in Files /\ UNCHANGED at
  BY WriteStep DEF FileInv, SetupSteps, RestoreSteps
<1>2. Content(file) = disk[Backup[file]]
  BY DEF Content, SetupSteps
<1>3. PICK g \in Sources : g = file /\ Saved(g)
  BY <1>1 DEF BackupInv, Sources
<1>4. \A f \in Sources : /\ disk'[Backup[f]] = disk[Backup[f]]
                         /\ f # file => disk'[f] = disk[f]
  BY <1>1, WriteStep DEF Sources, ScriptsTypeOK
<1>5. CASE disk' = [disk EXCEPT ![file] = Torn] /\ file' = file
           /\ Content(file) # None
  <2>1. Saved(g)'
    BY <1>1, <1>2, <1>3, <1>4, <1>5 DEF Saved
  <2>2. QED
    BY <1>1, <1>3, <1>4, <1>5, <2>1
       DEF BackupInv, Saved, Restored, Sources, DemoSteps
<1>6. CASE file' = NextFile(file) /\ Restored(g)'
  BY <1>1, <1>3, <1>4, <1>6
     DEF BackupInv, Saved, Restored, Sources, DemoSteps, NextFile
<1>7. ASSUME disk' = [disk EXCEPT ![file] = Content(file)],
             Content(file) # None
      PROVE  Restored(g)'
  <2>1. disk'[file] = disk[Backup[file]] /\ disk[Backup[file]] # None
    BY <1>1, <1>2, <1>7 DEF ScriptsTypeOK
  <2>2. QED
    BY <1>1, <1>3, <1>4, <2>1 DEF Saved, Restored
<1>8. ASSUME disk' = [disk EXCEPT ![file] = disk[file]], Content(file) = None
      PROVE  Restored(g)'
  <2>1. disk'[file] = disk[file] /\ disk[Backup[file]] = None
    BY <1>1, <1>2, <1>8 DEF ScriptsTypeOK
  <2>2. before[file] # None
    BY <1>1 DEF BackupInv
  <2>3. disk[file] = before[file]
    BY <1>3, <2>1, <2>2 DEF Saved
  <2>4. QED
    BY <1>3, <2>1, <2>3 DEF Restored
<1>9. QED
  BY <1>5, <1>6, <1>7, <1>8, WriteStep

LEMMA BackupStep ==
  ASSUME ScriptsTypeOK, FileInv, BackupInv, [ScriptsNext]_svars
  PROVE  BackupInv'
<1> USE FilesAre
<1>1. CASE UNCHANGED <<disk, file, at, before>>
  BY <1>1 DEF BackupInv, Saved, Restored, Sources
<1>2. CASE /\ at' \notin DemoSteps \cup {"demo_restore"}
           /\ UNCHANGED before
  BY <1>2 DEF BackupInv, DemoSteps
<1>3. CASE Writes /\ UNCHANGED before
  <2>1. CASE at = "demo_setup"
    <3>1. file \in KeyFiles /\ file \in Files /\ UNCHANGED at
      BY <1>3, <2>1, WriteStep DEF FileInv, RestoreSteps
    <3>2. \A f \in Sources : disk'[Backup[f]] = disk[Backup[f]]
      BY <1>3, <3>1, WriteStep DEF KeyFiles, Sources, ScriptsTypeOK
    <3>3. QED
      BY <1>3, <2>1, <3>1, <3>2 DEF BackupInv, Sources, DemoSteps
  <2>2. CASE at \notin DemoSteps \cup {"demo_restore"}
    BY <1>2, <1>3, <2>2, WriteStep
  <2>3. at \notin DemoSteps \ {"demo_setup", "demo_backup"}
    BY <1>3, WriteStep DEF FileInv, SetupSteps, RestoreSteps, DemoSteps
  <2>4. QED
    BY <1>3, <2>1, <2>2, <2>3, BackupWritten, RestoreWritten
<1>4. CASE StartDemo
  <2>1. /\ at' = "demo_backup" /\ file' = "lib_rs_backup"
        /\ \A f \in Sources : before'[f] = disk[f] /\ disk'[f] = disk[f]
        /\ \A f \in Backups : disk'[f] = None
    BY <1>4 DEF StartDemo, Enter, Sources, Backups
  <2>2. \A f \in Sources : disk[f] # None
    <3>1. /\ disk["lib_rs"] \in Ids \cup {Torn}
          /\ disk["vk_source"] \in Key \cup {Torn, Ceremony}
      BY ContentsAre DEF ScriptsTypeOK
    <3>2. QED
      BY <3>1, ArtifactsConstants, ScriptsConstants, ProofRecordConstants
         DEF Sources
  <2>3. "lib_rs_backup" # None
    BY ArtifactsConstants
  <2>4. QED
    BY <2>1, <2>2, <2>3 DEF BackupInv, DemoSteps, Sources, Backups
<1>5. CASE BackupDone
  BY <1>5, ArtifactsConstants DEF BackupDone, BackupInv, DemoSteps, Sources, Enter, scriptvars
<1>6. CASE DemoSetupDone \/ DemoDeploy
  BY <1>6 DEF DemoSetupDone, DemoDeploy, BackupInv, DemoSteps, Sources, Enter,
              scriptvars
<1>7. CASE DemoSync \/ DemoBuild
  <2>1. \A f \in Backups : disk'[f] = disk[f]
    BY <1>7 DEF DemoSync, DemoBuild, Sync, AnchorBuild, ScriptsTypeOK, Backups
  <2>2. /\ UNCHANGED before /\ at \in {"demo_sync", "demo_build"}
        /\ at' \in {"demo_build", "demo_deploy"}
    BY <1>7 DEF DemoSync, DemoBuild, Enter, scriptvars
  <2>3. QED
    BY <2>1, <2>2 DEF BackupInv, DemoSteps, Sources, Backups
<1>8. CASE at \in DemoSteps /\ Cleanup /\ UNCHANGED <<disk, before>>
  BY <1>8, CleanupSaves
<1>9. QED
  BY <1>1, <1>2, <1>3, <1>4, <1>5, <1>6, <1>7, <1>8
     DEF Begin, Enter, DemoSteps, ScriptsNext, Operator, NewKeys, LocalRandom,
         ImportCeremony, StartDeploy, EnterBuild, OtherCommand, Writes, Prove,
         CommandDone, Records, RecordUpgrade, Submit, filevars, scriptvars,
         ScriptStep, DeploySetupDone, DeploySync, DeployBuild, DeployDeploy,
         DeployPublish, DemoRun, RestoreDone, Fail, Kill, svars

-----------------------------------------------------------------------------
(* The key on devnet.                                                       *)

LEMMA KeysStayThere ==
  ASSUME ScriptsTypeOK, FileInv, [ScriptsNext]_svars,
         \A f \in KeyFiles : disk[f] # None
  PROVE  \A f \in KeyFiles : disk'[f] # None
<1>1. CASE UNCHANGED disk \/ Keeps
  BY <1>1 DEF Keeps
<1>2. CASE Writes
  <2>1. PICK v : disk' = [disk EXCEPT ![file] = v]
                 /\ (v # None \/ v = disk[file])
    BY <1>2, WriteStep, ArtifactsConstants
  <2>2. QED
    BY <2>1, FilesAre DEF ScriptsTypeOK, KeyFiles
<1>3. QED
  BY <1>1, <1>2, KeysKept DEF svars, filevars

LEMMA KeysStep ==
  ASSUME ScriptsTypeOK, FileInv, SetupInv, [ScriptsNext]_svars,
         programs["devnet"] # None \/ at \in DeploySteps \ {"deploy_setup"} =>
           \A f \in KeyFiles : disk[f] # None,
         programs'["devnet"] # None \/ at' \in DeploySteps \ {"deploy_setup"}
  PROVE  \A f \in KeyFiles : disk'[f] # None
<1>1. CASE \A f \in KeyFiles : disk[f] # None
  BY <1>1, KeysStayThere
<1>2. CASE StartDeploy
  <2>1. UNCHANGED programs
    BY <1>2 DEF StartDeploy
  <2>2. CASE Regenerates(opts')
    BY <1>1, <1>2, <2>1, <2>2 DEF StartDeploy, Enter
  <2>3. CASE ~Regenerates(opts')
    BY <1>1, <2>3 DEF Regenerates
  <2>4. QED
    BY <2>2, <2>3
<1>3. CASE DeploySetupDone
  <2>1. commands # None /\ None # "proving_key"
    BY ArtifactsConstants, ProofRecordConstants, FilesAre DEF ScriptsTypeOK
  <2>2. QED
    BY <1>1, <1>3, <2>1, ArtifactsConstants, FilesAre
       DEF DeploySetupDone, SetupInv, SetupSteps, KeyFiles
<1>4. CASE /\ programs["devnet"] = None
           /\ at \notin DeploySteps \ {"deploy_setup"}
           /\ programs'["devnet"] = programs["devnet"]
           /\ at' \notin DeploySteps \ {"deploy_setup"}
  BY <1>4
<1>5. CASE StartDemo
  BY <1>1, <1>5
     DEF StartDemo, Enter, Begin, DeploySteps, ScriptsTypeOK, Clusters
<1>6. CASE DemoDeploy
  BY <1>1, <1>6
     DEF DemoDeploy, AnchorDeploy, Enter, DeploySteps, ScriptsTypeOK, Clusters
<1>7. QED
  BY <1>1, <1>2, <1>3, <1>4, <1>5, <1>6
     DEF DeploySteps, Begin, Enter, ScriptsNext, Operator, NewKeys,
         LocalRandom, ImportCeremony, OtherCommand, Truncate, WriteFile,
         Prove, CommandDone, Records, RecordUpgrade, Submit, filevars,
         scriptvars, ScriptStep, DeploySync, DeployBuild, DeployDeploy,
         DeployPublish, BackupDone, DemoSetupDone, DemoSync, DemoBuild,
         DemoRun, Cleanup, RestoreDone, Fail, Kill, svars

LEMMA StableStep ==
  ASSUME ScriptsInv, [ScriptsNext]_svars
  PROVE  StableInv'
<1> USE DEF ScriptsInv
<1> DEFINE Here == programs["devnet"] # None /\ ~rotated
<1> DEFINE Stable ==
      /\ at \notin {"setup", "ceremony", "deploy_setup", "demo_unrestored"}
      /\ at \in DemoSteps => "RESTORE_ANCHOR_KEYS=0" \notin opts
      /\ NextSource \in {programs["devnet"].key, Torn}
<1>1. programs'["devnet"] # None \/ at' \in DeploySteps \ {"deploy_setup"} =>
        \A f \in KeyFiles : disk'[f] # None
  BY KeysStep DEF StableInv
<1>2. Here => Stable
  BY DEF StableInv
<1> HIDE DEF Stable, Here
<1>3. Here' => Stable'
  <2> USE DEF Here, Stable, NextSource
  <2> HIDE DEF ScriptsInv
  <2>1. CASE rotated'
    BY <2>1
  <2>2. CASE /\ UNCHANGED <<programs, opts, before>> /\ rotated' = rotated
             /\ disk'["vk_source"] = disk["vk_source"]
             /\ at \in DemoSteps \cup RestoreSteps <=>
                  at' \in DemoSteps \cup RestoreSteps
             /\ at' \in DemoSteps => at \in DemoSteps
             /\ at' \notin {"setup", "ceremony", "deploy_setup",
                            "demo_unrestored"}
    BY <1>2, <2>2
  <2>3. CASE Writes /\ UNCHANGED scriptvars
    <3>1. at \notin {"setup", "ceremony", "deploy_setup"} \cup DemoSteps
                   \cup RestoreSteps =>
            file # "vk_source"
      BY <2>3, WriteStep
         DEF ScriptsInv, FileInv, SetupSteps, DemoSteps, ProofFiles
    <3>2. UNCHANGED at /\ DOMAIN disk = Files
      BY <2>3, WriteStep DEF ScriptsInv, ScriptsTypeOK
    <3>3. file # "vk_source" => disk'["vk_source"] = disk["vk_source"]
      BY <2>3, <3>2, WriteStep, FilesAre DEF ScriptsInv
    <3>4. QED
      BY <1>2, <2>3, <3>1, <3>2, <3>3 DEF scriptvars
  <2>4. CASE StartDeploy
    <3>1. Here' => Here /\ ~Regenerates(opts')
      BY <2>4 DEF StartDeploy, Regenerates, ScriptsInv, StableInv
    <3>2. Here' => at' \in {"deploy_sync", "deploy_deploy"}
      BY <2>4, <3>1 DEF StartDeploy, EnterBuild, Enter
    <3>3. UNCHANGED <<disk, programs>> /\ at = "idle"
      BY <2>4 DEF StartDeploy, Begin
    <3>4. QED
      BY <1>2, <3>1, <3>2, <3>3 DEF DemoSteps, RestoreSteps
  <2>5. CASE DeployDeploy
    <3>1. programs'["devnet"] = disk["program_so"]
      BY <2>5
         DEF DeployDeploy, AnchorDeploy, ScriptsInv, ScriptsTypeOK, Clusters
    <3>2. ~rotated' => disk["program_so"] = Current
      BY <2>5 DEF DeployDeploy, ScriptsInv, CoherentInv
    <3>3. disk' = disk /\ at' = "deploy_publish"
      BY <2>5 DEF DeployDeploy, Enter
    <3>4. QED
      BY <3>1, <3>2, <3>3 DEF Current, DemoSteps, RestoreSteps
  <2>6. CASE StartDemo
    <3>1. programs'["devnet"] = programs["devnet"]
      BY <2>6 DEF StartDemo, ScriptsInv, ScriptsTypeOK, Clusters
    <3>2. /\ before'["vk_source"] = disk["vk_source"]
          /\ at = "idle" /\ at' = "demo_backup"
      BY <2>6 DEF StartDemo, Begin, Enter, Sources
    <3>3. Here' => Here /\ opts' = {}
      BY <2>6, <3>1 DEF StartDemo
    <3>4. QED
      BY <1>2, <3>1, <3>2, <3>3 DEF DemoSteps, RestoreSteps
  <2>7. CASE DemoDeploy
    <3>1. programs'["devnet"] = programs["devnet"]
      BY <2>7
         DEF DemoDeploy, AnchorDeploy, ScriptsInv, ScriptsTypeOK, Clusters
    <3>2. QED
      BY <1>2, <2>7, <3>1 DEF DemoDeploy, Enter, DemoSteps, RestoreSteps
  <2>8. CASE DeploySync \/ DeployBuild \/ DemoSync \/ DemoBuild
    <3>1. disk'["vk_source"] = disk["vk_source"]
      BY <2>8, FilesAre
         DEF DeploySync, DeployBuild, DemoSync, DemoBuild, Sync, AnchorBuild,
             ScriptsInv, ScriptsTypeOK
    <3>2. QED
      BY <2>2, <2>8, <3>1
         DEF DeploySync, DeployBuild, DemoSync, DemoBuild, Enter, DemoSteps,
             RestoreSteps, scriptvars
  <2>9. CASE /\ at \in DemoSteps /\ Cleanup /\ rotated' = rotated
             /\ UNCHANGED <<disk, programs, opts, before>>
    BY <1>2, <2>9 DEF Cleanup, Enter, DemoSteps, RestoreSteps
  <2>10. CASE RestoreDone
    <3>1. Here' => Here /\ at = "demo_restore"
      BY <1>2, <2>10 DEF RestoreDone, RestoreSteps, scriptvars
    <3>2. at = "demo_restore" => Restored("vk_source")
      BY <2>10 DEF RestoreDone, ScriptsInv, BackupInv
    <3>3. QED
      BY <1>2, <2>10, <3>1, <3>2
         DEF RestoreDone, Restored, Enter, scriptvars, RestoreSteps, DemoSteps
  <2>11. CASE Kill
    BY <1>2, <2>11 DEF Kill, Enter, DemoSteps, RestoreSteps
  <2>12. CASE Fail
    BY <1>2, <2>1, <2>9, <2>12
       DEF Fail, Enter, CommandSteps, DeploySteps, DemoSteps, RestoreSteps
  <2>13. CASE CommandDone /\ UNCHANGED scriptvars
    BY <1>2, <2>13 DEF CommandDone, Enter, scriptvars, DemoSteps, RestoreSteps
  <2>14. CASE DeploySetupDone
    BY <1>2, <2>14 DEF DeploySetupDone, scriptvars
  <2>15. CASE DeployPublish \/ BackupDone \/ DemoSetupDone
    BY <2>2, <2>15
       DEF DeployPublish, BackupDone, DemoSetupDone, Enter, scriptvars,
           DemoSteps, RestoreSteps
  <2>16. CASE Prove /\ UNCHANGED scriptvars
    BY <2>2, <2>16
       DEF Prove, Begin, Enter, scriptvars, DemoSteps, RestoreSteps
  <2>17. CASE UNCHANGED <<disk, at, scriptvars>>
    BY <1>2, <2>17 DEF scriptvars
  <2>18. QED
    BY <2>1, <2>3, <2>4, <2>5, <2>6, <2>7, <2>8, <2>9, <2>10, <2>11, <2>12,
       <2>13, <2>14, <2>15, <2>16, <2>17
       DEF ScriptsNext, Operator, NewKeys, OtherCommand, Writes, Records,
           RecordUpgrade, Submit, filevars, scriptvars, ScriptStep, DemoRun,
           DemoSteps, svars
<1>4. QED
  BY <1>1, <1>3 DEF StableInv, Here, Stable

-----------------------------------------------------------------------------
(* The theorems.                                                            *)

LEMMA ScriptsInvStep ==
  ASSUME ScriptsInv, [ScriptsNext]_svars
  PROVE  ScriptsInv'
<1>1. ScriptsTypeOK' /\ FileInv' /\ RecordsAreTrue'
  BY TypeStep DEF ScriptsInv
<1>2. SetupInv' /\ WholeInv' /\ CoherentInv' /\ BackupInv'
  BY SetupStep, WholeStep, CoherentStep, BackupStep DEF ScriptsInv
<1>3. StableInv'
  BY StableStep
<1>4. QED
  BY <1>1, <1>2, <1>3 DEF ScriptsInv

LEMMA ScriptsInvHolds == ScriptsSpec => []ScriptsInv
<1>1. ScriptsInit => ScriptsInv
  BY InitialState
<1>2. ScriptsInv /\ [ScriptsNext]_svars => ScriptsInv'
  BY ScriptsInvStep
<1>3. QED
  BY <1>1, <1>2, PTL DEF ScriptsSpec

\* Type correctness of the files, the programs on the clusters, the records
\* and the state of the scripts.
THEOREM ScriptsTypes == ScriptsSpec => []ScriptsTypeOK
<1>1. ScriptsInv => ScriptsTypeOK
  BY DEF ScriptsInv
<1>2. QED
  BY <1>1, ScriptsInvHolds, PTL

\* The record program never stores a statement that no secret key satisfies
\* (verifier.rs), whatever files of different runs a client sends and however
\* often the program is deployed again.
THEOREM RecordsStayTrue == ScriptsSpec => []RecordsAreTrue
<1>1. ScriptsInv => RecordsAreTrue
  BY DEF ScriptsInv
<1>2. QED
  BY <1>1, ScriptsInvHolds, PTL

\* A proof made with the proving key on disk verifies, on the command line and
\* in a program built from the source on disk, unless something has been half
\* done to the keys since the last complete setup (local_random.rs writes them
\* one after another).
THEOREM CurrentProofsAlwaysVerify == ScriptsSpec => []CurrentProofsVerify
<1>1. ScriptsInv => CurrentProofsVerify
  <2>1. SUFFICES ASSUME ScriptsInv, whole, FixtureIsCurrent
                 PROVE  LocalValidatorTestPasses /\ verify_from_files = "valid"
    BY DEF CurrentProofsVerify
  <2> DEFINE s == disk["proof"].statement
  <2>2. /\ disk["proving_key"] \in Key
        /\ disk["verifying_key"] = disk["proving_key"]
        /\ disk["vk_source"] = disk["proving_key"]
    BY <2>1 DEF ScriptsInv, WholeInv
  <2>3. /\ disk["proof"] \in Proof /\ disk["proof"].key = disk["proving_key"]
        /\ disk["proof_solana"] = disk["proof"]
        /\ disk["public_inputs"] = s /\ disk["inputs_solana"] = s
    BY <2>1 DEF FixtureIsCurrent
  <2>4. s \in Inputs
    BY <2>3, ProofRecordConstants DEF Proof
  <2>5. disk["proof"] = [key |-> disk["proving_key"], statement |-> s]
    BY <2>3 DEF Proof
  <2>6. QED
    BY <2>2, <2>3, <2>4, <2>5
       DEF LocalValidatorTestPasses, verify_from_files, Verifies
<1>2. QED
  BY <1>1, ScriptsInvHolds, PTL

\* When the demo starts the oracle, the program on the local validator accepts
\* the proofs of the proving key on disk and declares its new address, also
\* after any sequence of failed scripts and on a validator that was running.
THEOREM DemoStaysCoherent == ScriptsSpec => []DemoIsCoherent
<1>1. ScriptsInv => DemoIsCoherent
  BY DEF ScriptsInv, WholeInv, CoherentInv, DemoIsCoherent, Current
<1>2. QED
  BY <1>1, ScriptsInvHolds, PTL

\* What deploy-devnet.sh publishes is a program built for its address, and for
\* the proving key on disk unless something was half done to the keys.
THEOREM DeployStaysCoherent == ScriptsSpec => []DeployIsCoherent
<1>1. ScriptsInv => DeployIsCoherent
  BY DEF ScriptsInv, WholeInv, CoherentInv, DeployIsCoherent, Current
<1>2. QED
  BY <1>1, ScriptsInvHolds, PTL

\* The cleanup of local-demo.sh puts back what the demo found, or a backup
\* that cp left torn.
THEOREM CleanupRestores == ScriptsSpec => []SourcesAreRestored
<1>1. ScriptsInv => SourcesAreRestored
  <2>1. "lib_rs" # None
    BY ArtifactsConstants, FilesAre
  <2>2. QED
    BY <2>1
       DEF ScriptsInv, BackupInv, SourcesAreRestored, Restored, Sources
<1>2. QED
  BY <1>1, ScriptsInvHolds, PTL

\* Deploying again leaves the verifying key on devnet as it is, unless new
\* keys were asked for, a demo did not get to clean up, or the build was
\* skipped.
THEOREM DevnetKeyStays == ScriptsSpec => DevnetKeyIsStable
<1> DEFINE Kept ==
      /\ programs["devnet"] # None
      /\ programs'["devnet"] # None
      /\ "SKIP_BUILD" \notin opts
      /\ ~rotated
      => programs'["devnet"].key = programs["devnet"].key
<1>1. ScriptsInv /\ [ScriptsNext]_svars => [Kept]_svars
  <2> SUFFICES ASSUME ScriptsInv, ScriptsNext
               PROVE  Kept
    OBVIOUS
  <2>1. CASE programs'["devnet"] = programs["devnet"]
    BY <2>1
  <2>2. CASE DeployDeploy
    <3>1. /\ programs'["devnet"] = disk["program_so"]
          /\ disk["program_so"] # None /\ at = "deploy_deploy"
      BY <2>2
         DEF DeployDeploy, AnchorDeploy, ScriptsInv, ScriptsTypeOK, Clusters
    <3>2. "SKIP_BUILD" \notin opts => disk["program_so"] = Current
      BY <3>1 DEF ScriptsInv, CoherentInv
    <3>3. disk["program_so"].key \in Key
      BY <3>1, ContentsAre, FilesAre
         DEF ScriptsInv, ScriptsTypeOK, Contents, Program
    <3>4. programs["devnet"] # None /\ ~rotated =>
            disk["vk_source"] \in {programs["devnet"].key, Torn}
      BY <3>1
         DEF ScriptsInv, StableInv, NextSource, DemoSteps, RestoreSteps
    <3>5. QED
      BY <3>1, <3>2, <3>3, <3>4, ArtifactsConstants DEF Current
  <2>3. CASE StartDemo \/ DemoDeploy
    BY <2>1, <2>3
       DEF StartDemo, DemoDeploy, AnchorDeploy, ScriptsInv, ScriptsTypeOK,
           Clusters
  <2>4. QED
    BY <2>1, <2>2, <2>3
       DEF ScriptsNext, Operator, NewKeys, StartDeploy, OtherCommand, Records,
           scriptvars, ScriptStep, DeploySetupDone, DeploySync, DeployBuild,
           DeployPublish, BackupDone, DemoSetupDone, DemoSync, DemoBuild,
           DemoRun, RestoreDone, Fail, Kill
<1>2. QED
  BY <1>1, ScriptsInvHolds, PTL DEF ScriptsSpec, DevnetKeyIsStable

=============================================================================
