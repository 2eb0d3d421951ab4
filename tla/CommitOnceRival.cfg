SPECIFICATION FairCommitOnceSpec
CONSTANTS
  EpochId = {e1}
  TheEpoch = e1
  Signer = {o1}
  Oracle = o1
  Salt = {s1, s2, s3}
  Manifest = {m1, m2, m3, m4}
  SecretKey = {k1}
  VrfKey = k1
  CommitmentHash <- MCCommitmentHash
  Commitment <- MCCommitment
  OracleSeed <- MCOracleSeed
  Seed <- MCSeed
  AlphaHash <- MCAlphaHash
  Alpha <- MCAlpha
  Evaluate <- MCEvaluate
  Beta <- MCBeta
  Zero = Zero
  BadProof = BadProof
  DeadlineChoices <- DemoDeadlines
  MaxSlot = 5
  MaxPolls = 2
  MaxRivals = 2
  MaxInFlight = 2
  NoAccount = NoAccount
  NoSalt = NoSalt
  NoManifest = NoManifest
  NoTx = NoTx
  Torn = Torn
\* The slot clock is bounded and the command ends.
CHECK_DEADLOCK FALSE
INVARIANTS
  CommitOnceTypeOK
  RevealedIsTrue
  OwnSaltStaysSecret
PROPERTY
  CommandEnds
