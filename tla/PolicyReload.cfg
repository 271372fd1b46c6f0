SPECIFICATION FairSpec
CONSTANTS
  Signals = {"wrong_repo", "wrong_repo_semantic", "tests"}
  NoConfidence = NoConfidence
  Garbage = Garbage
  Nothing = Nothing
  Centrals <- MCCentrals
  Locals <- MCLocals
  Inputs <- MCInputs
INVARIANTS InForceIsSigned LocalOnlyTightens
PROPERTY CatchesUp
CHECK_DEADLOCK FALSE
