SPECIFICATION FairVisualizerSpec
CONSTANTS
  Epochs <- MCEpochs
  Stages = {"sources", "vrf"}
  Served <- MCServed
  ManifestDigest <- MCManifestDigest
  SeedDigest <- MCSeedDigest
  AlphaDigest <- MCAlphaDigest
  AlphaEpoch = 3
  PublishedAlpha <- MCAlpha
  Damage <- MCDamage
  Secure = TRUE
  Faults = {"fetch"}
  MaxLoads = 2
  Nothing = Nothing
\* A page whose main() has failed stops.
CHECK_DEADLOCK FALSE
INVARIANTS
  VisualizerTypeOK
  PageShowsOneEpoch
  VerdictsAreTrue
PROPERTIES
  ComputingEnds
