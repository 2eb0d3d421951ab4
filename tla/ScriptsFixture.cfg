SPECIFICATION ScriptsSpec
CONSTANTS
  MaxCommands = 3
  Key <- MCKey
  Inputs <- MCInputs
  Provable <- MCProvable
  Authority = {a1}
  None = None
  Torn = Torn
  Ceremony = Ceremony
  Commands = {"local-random", "prover", "local-demo"}
  Options = {}
  ScriptFaults = {}
\* The number of commands is bounded.
CHECK_DEADLOCK FALSE
INVARIANT
  FixtureIsAccepted
