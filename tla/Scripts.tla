------------------------------ MODULE Scripts -------------------------------
(***************************************************************************)
(* scripts/deploy-devnet.sh and scripts/local-demo.sh over the files of    *)
(* module Artifacts, with the programs they leave on two clusters.  One    *)
(* command at a time runs in a checkout.  Any step may fail, or be stopped *)
(* with Ctrl-C: under `set -e` the script ends there, the demo by way of   *)
(* its EXIT trap.  A killed script runs no trap.                           *)
(***************************************************************************)
EXTENDS Artifacts

CONSTANTS
  Options,       \* environment variables the operator may set
  ScriptFaults   \* what may go wrong: a subset of {"failure", "kill"}

Clusters == {"local", "devnet"}
Ids == {"tracked", "synced"}   \* the declare_id! in lib.rs
Program == [key : Key, id : Ids]

ASSUME ScriptsConstants ==
  /\ Options \subseteq {"FORCE_SETUP", "SKIP_BUILD", "RESTORE_ANCHOR_KEYS=0"}
  /\ None \notin Ids /\ Torn \notin Ids /\ None \notin Program

VARIABLES
  programs,   \* the program on each cluster: [key, id], or None
  opts,       \* the options of the script that runs
  before,     \* the sources when the demo began (history)
  rotated     \* since devnet last got a program built from the sources, the
              \* operator has asked for other keys or for the last build,
              \* or a demo did not get to put the sources back (history)

scriptvars == <<programs, opts, before, rotated>>
svars == <<recordvars, filevars, scriptvars>>

CommandSteps == {"setup", "ceremony", "prove"}
DeploySteps == {"deploy_setup", "deploy_sync", "deploy_build", "deploy_deploy",
                "deploy_publish"}
DemoSteps == {"demo_backup", "demo_setup", "demo_sync", "demo_build",
              "demo_deploy", "demo_run"}
\* The second: cp has failed for one of the files.
RestoreSteps == {"demo_restore", "demo_unrestored"}
Steps == CommandSteps \cup DeploySteps \cup DemoSteps
         \cup RestoreSteps \cup {"idle"}

Contents(f) ==
  CASE f \in {"proving_key", "verifying_key"} -> Key \cup {None, Torn}
    [] f = "vk_source" -> Key \cup {Torn, Ceremony}
    [] f = "vk_source_backup" -> Key \cup {None, Torn, Ceremony}
    [] f \in {"proof", "proof_solana"} -> Proof \cup {None, Torn}
    [] f \in {"public_inputs", "inputs_solana"} -> Provable \cup {None, Torn}
    [] f = "lib_rs" -> Ids \cup {Torn}
    [] f = "lib_rs_backup" -> Ids \cup {None, Torn}
    [] OTHER -> Program \cup {None}

\* Every file holds what belongs into a file of its name, or a torn one of it,
\* whichever commands wrote to the paths they were given and were stopped; the
\* two tracked sources are always there.
ScriptsTypeOK ==
  /\ RecordTypeOK
  /\ DOMAIN disk = Files
  /\ \A f \in Files : disk[f] \in Contents(f)
  /\ at \in Steps
  /\ file \in Files \cup {None}
  /\ product \in Proof \cup {None}
  /\ commands \in 0..MaxCommands
  /\ whole \in BOOLEAN /\ rotated \in BOOLEAN
  /\ programs \in [Clusters -> Program \cup {None}]
  /\ opts \subseteq Options
  /\ DOMAIN before = Sources

-----------------------------------------------------------------------------
(* Steps that both scripts take.                                            *)

Sync ==
  disk' = [disk EXCEPT !["lib_rs"] = IF @ = Torn THEN Torn ELSE "synced"]

\* include!(verifying_key_solana.rs) needs VERIFYING_KEY, at its end.
Builds == disk["vk_source"] \in Key /\ disk["lib_rs"] # Torn

Built == [key |-> disk["vk_source"], id |-> disk["lib_rs"]]

AnchorBuild == Builds /\ disk' = [disk EXCEPT !["program_so"] = Built]

AnchorDeploy_once(cluster) ==
  /\ disk["program_so"] # None
  /\ programs' = [programs EXCEPT ![cluster] =
                    IF @ = None THEN disk["program_so"] ELSE @]
AnchorDeploy(cluster) ==
  /\ disk["program_so"] # None
  /\ programs' = [programs EXCEPT ![cluster] = disk["program_so"]]

-----------------------------------------------------------------------------
(* deploy-devnet.sh.                                                        *)

Regenerates_always(o) == o \subseteq Options
Regenerates(o) ==
  "FORCE_SETUP" \in o \/ \E f \in KeyFiles : disk[f] = None

EnterBuild_unsynced(o) ==
  Enter(IF "SKIP_BUILD" \in o THEN "deploy_deploy" ELSE "deploy_build", None)
EnterBuild(o) ==
  Enter(IF "SKIP_BUILD" \in o THEN "deploy_deploy" ELSE "deploy_sync", None)

StartDeploy ==
  /\ Begin("deploy-devnet")
  /\ opts' \in SUBSET (Options \ {"RESTORE_ANCHOR_KEYS=0"})
  /\ IF Regenerates(opts') THEN Enter("deploy_setup", "proving_key")
                           ELSE EnterBuild(opts')
  /\ whole' = (whole /\ ~Regenerates(opts'))
  /\ rotated' = (rotated \/ "FORCE_SETUP" \in opts')
  /\ UNCHANGED <<disk, product, programs, before, recordvars>>

DeploySetupDone ==
  /\ at = "deploy_setup" /\ file = None
  /\ EnterBuild(opts)
  /\ whole' = TRUE
  /\ UNCHANGED <<disk, product, commands, scriptvars, recordvars>>

DeploySync ==
  /\ at = "deploy_sync"
  /\ Sync
  /\ Enter("deploy_build", None)
  /\ UNCHANGED <<product, commands, whole, scriptvars, recordvars>>

DeployBuild ==
  /\ at = "deploy_build"
  /\ AnchorBuild
  /\ Enter("deploy_deploy", None)
  /\ UNCHANGED <<product, commands, whole, scriptvars, recordvars>>

DeployDeploy ==
  /\ at = "deploy_deploy"
  /\ AnchorDeploy("devnet")
  /\ Enter("deploy_publish", None)
  /\ rotated' = ("SKIP_BUILD" \in opts)
  /\ UNCHANGED <<disk, product, commands, whole, opts, before, recordvars>>

DeployPublish ==
  /\ at = "deploy_publish"
  /\ Enter("idle", None)
  /\ UNCHANGED <<disk, product, commands, whole, scriptvars, recordvars>>

-----------------------------------------------------------------------------
(* local-demo.sh.                                                           *)

\* A validator that runs already keeps its programs; a new one is empty.
StartDemo ==
  /\ Begin("local-demo")
  /\ opts' \in SUBSET (Options \cap {"RESTORE_ANCHOR_KEYS=0"})
  /\ programs' \in {programs, [programs EXCEPT !["local"] = None]}
  /\ before' = [f \in Sources |-> disk[f]]
  /\ disk' = [f \in Files |->
                IF f \in {Backup[g] : g \in Sources} THEN None ELSE disk[f]]
  /\ Enter("demo_backup", "lib_rs_backup")
  /\ rotated' = (rotated \/ opts' # {})
  /\ UNCHANGED <<product, whole, recordvars>>

BackupDone ==
  /\ at = "demo_backup" /\ file = None
  /\ Enter("demo_setup", "proving_key")
  /\ whole' = FALSE
  /\ UNCHANGED <<disk, product, commands, scriptvars, recordvars>>

DemoSetupDone ==
  /\ at = "demo_setup" /\ file = None
  /\ Enter("demo_sync", None)
  /\ whole' = TRUE
  /\ UNCHANGED <<disk, product, commands, scriptvars, recordvars>>

DemoSync ==
  /\ at = "demo_sync"
  /\ Sync
  /\ Enter("demo_build", None)
  /\ UNCHANGED <<product, commands, whole, scriptvars, recordvars>>

DemoBuild ==
  /\ at = "demo_build"
  /\ AnchorBuild
  /\ Enter("demo_deploy", None)
  /\ UNCHANGED <<product, commands, whole, scriptvars, recordvars>>

DemoDeploy ==
  /\ at = "demo_deploy"
  /\ AnchorDeploy("local")
  /\ Enter("demo_run", None)
  /\ UNCHANGED <<disk, product, commands, whole, opts, before, rotated,
                 recordvars>>

\* cleanup, the EXIT trap.
Cleanup ==
  IF "RESTORE_ANCHOR_KEYS=0" \in opts
  THEN Enter("idle", None) /\ UNCHANGED whole
  ELSE Enter("demo_restore", "lib_rs") /\ whole' = FALSE

\* The oracle opens the epoch and runs to its end.
DemoRun ==
  /\ at = "demo_run"
  /\ Cleanup
  /\ UNCHANGED <<disk, product, commands, scriptvars, recordvars>>

RestoreDone ==
  /\ at \in RestoreSteps /\ file = None
  /\ Enter("idle", None)
  /\ UNCHANGED <<disk, product, commands, whole, scriptvars, recordvars>>

-----------------------------------------------------------------------------
(* Failures.                                                                *)

\* A step that cannot succeed.
Doomed ==
  \/ at \in {"deploy_build", "demo_build"} /\ ~Builds
  \/ at = "deploy_deploy" /\ disk["program_so"] = None

Fail ==
  /\ at # "idle"
  /\ "failure" \in ScriptFaults \/ Doomed
  /\ \/ /\ at \in CommandSteps \cup DeploySteps
        /\ Enter("idle", None)
        /\ UNCHANGED <<whole, rotated>>
     \/ at \in DemoSteps /\ Cleanup /\ UNCHANGED rotated
     \/ \* cp ... || true
        /\ at \in RestoreSteps /\ file # None
        /\ Enter("demo_unrestored", NextFile(file))
        /\ rotated' = TRUE
        /\ UNCHANGED whole
  /\ product' = None
  /\ UNCHANGED <<disk, commands, programs, opts, before, recordvars>>

Kill ==
  /\ "kill" \in ScriptFaults
  /\ at # "idle"
  /\ Enter("idle", None)
  /\ product' = None
  /\ rotated' = (rotated \/ at \in DemoSteps \cup RestoreSteps)
  /\ UNCHANGED <<disk, commands, whole, programs, opts, before, recordvars>>

-----------------------------------------------------------------------------
\* A fresh clone, with a deploy key pair of its own: of artifacts/, the
\* verifying key source and a public_inputs.json are in the repository.
ScriptsInit ==
  /\ RecordInit
  /\ \E x \in Provable :
       disk = [f \in Files |-> CASE f = "vk_source" -> 0
                                 [] f = "lib_rs" -> "tracked"
                                 [] f = "public_inputs" -> x
                                 [] OTHER -> None]
  /\ file = None
  /\ at = "idle"
  /\ product = None
  /\ commands = 0
  /\ whole = FALSE
  /\ programs = [c \in Clusters |-> None]
  /\ opts = {}
  /\ before = [f \in Sources |-> disk[f]]
  /\ rotated = FALSE

\* Commands that are not scripts.
NewKeys ==
  /\ LocalRandom \/ ImportCeremony
  /\ rotated' = TRUE
  /\ UNCHANGED <<programs, opts, before, recordvars>>

OtherCommand ==
  /\ Prove \/ CommandDone \/ Truncate \/ WriteFile
  /\ UNCHANGED <<scriptvars, recordvars>>

Records ==
  /\ RecordUpgrade \/ \E authority \in Authority : Submit(authority)
  /\ UNCHANGED scriptvars

Operator == NewKeys \/ StartDeploy \/ StartDemo

ScriptStep ==
  \/ DeploySetupDone \/ DeploySync \/ DeployBuild \/ DeployDeploy
  \/ DeployPublish
  \/ BackupDone \/ DemoSetupDone \/ DemoSync \/ DemoBuild \/ DemoDeploy
  \/ DemoRun \/ RestoreDone

ScriptsNext ==
  Operator \/ OtherCommand \/ Records \/ ScriptStep \/ Fail \/ Kill

ScriptsSpec == ScriptsInit /\ [][ScriptsNext]_svars

-----------------------------------------------------------------------------
(* Properties.                                                              *)

\* When the demo opens its epoch and runs the oracle, the program on the local
\* validator accepts the proofs of the proving key on disk and answers at the
\* address it declares, whatever was left by scripts that failed before and by
\* a validator that was running already.
DemoIsCoherent ==
  at = "demo_run" =>
    programs["local"] = [key |-> disk["proving_key"], id |-> "synced"]

\* The same of a deployment on devnet, if the key files were not touched by
\* anything but a complete setup and the program was built.
DeployIsCoherent ==
  at = "deploy_publish" /\ "SKIP_BUILD" \notin opts =>
    /\ programs["devnet"].id = "synced"
    /\ whole => programs["devnet"].key = disk["proving_key"]

\* However the demo ends, when cp has put back every source they are what the
\* demo found, with one exception: a copy that failed half way while the
\* backup was made is put back as well.
SourcesAreRestored ==
  at = "demo_restore" /\ file = None =>
    \A f \in Sources :
      \/ disk[f] = before[f]
      \/ disk[f] = Torn /\ disk[Backup[f]] = Torn

\* Deploying again leaves the verifying key on devnet as it is, so proofs made
\* before stay valid: whatever failed on the way, demos run in between
\* included, unless new keys were asked for, a demo did not get to put the
\* sources back, or the build was skipped.
DevnetKeyIsStable ==
  [][/\ programs["devnet"] # None
     /\ programs'["devnet"] # None
     /\ "SKIP_BUILD" \notin opts
     /\ ~rotated
     => programs'["devnet"].key = programs["devnet"].key]_svars

=============================================================================
