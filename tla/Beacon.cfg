SPECIFICATION Spec
CONSTANTS
  EpochId = {e1}
  Signer = {o1, o2}
  Salt = {s1, s2}
  Manifest = {m1, m2}
  SecretKey = {k1, k2}
  CommitmentHash <- MCCommitmentHash
  Commitment <- MCCommitment
  OracleSeed <- MCOracleSeed
  Seed <- MCSeed
  AlphaHash <- MCAlphaHash
  Alpha <- MCAlpha
  Evaluate <- MCEvaluate
  Beta <- MCBeta
  Zero = Zero
  BadProof = BadProof
  DeadlineChoices <- AnyDeadlines
  MaxSlot = 4
\* The slot clock is bounded, so the model stops at the last slot.
CHECK_DEADLOCK FALSE
INVARIANTS
  TypeOK
  SeedOpensCommitment
  OutputProvesSeed
  PhaseTellsProgress
PROPERTIES
  RevealIsBinding
  TermsAreFixed
  FinalizedIsForever
  ImplementsLifecycle
