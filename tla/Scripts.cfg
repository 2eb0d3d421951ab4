SPECIFICATION ScriptsSpec
CONSTANTS
  MaxCommands = 3
  Key <- MCKey
  Inputs <- MCInputs
  Provable <- MCProvable
  Authority = {a1}
  None = None
  Torn = Torn
  Ceremony = Ceremony
  Commands = {"local-random", "import-ceremony", "prover", "record-program", "deploy-devnet", "local-demo"}
  Options = {"FORCE_SETUP", "SKIP_BUILD", "RESTORE_ANCHOR_KEYS=0"}
  ScriptFaults = {"failure", "kill"}
\* The number of commands is bounded.
CHECK_DEADLOCK FALSE
INVARIANTS
  ScriptsTypeOK
  RecordsAreTrue
  CurrentProofsVerify
  DemoIsCoherent
  DeployIsCoherent
  SourcesAreRestored
PROPERTY
  DevnetKeyIsStable
