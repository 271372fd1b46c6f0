SPECIFICATION RolloutSpec
CONSTANTS
  Signals = {"wrong_repo", "tests"}
  NoConfidence = NoConfidence
  None = None
  Admins = {ann, bob}
  Candidates <- MCCandidates
  Percents = {10, 50, 100}
  Recorded <- MCRecorded
  MaxNewAllows = 0
  Scopes = {"repoA", "repoB"}
  Bucket <- MCBucket
INVARIANT CandidatePassedGate
PROPERTIES ImplementsActivation StickyScope
CHECK_DEADLOCK FALSE
