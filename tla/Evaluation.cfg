SPECIFICATION PipelineSpec
CONSTANTS
  e1 = e1
  e2 = e2
  o1 = o1
  Null = Null
  NoScore = NoScore
  NoConfidence = NoConfidence
  Signals = {"wrong_repo", "scope"}
  Evals = {e1, e2}
  Overrides = {o1}
  Writers = {e1, e2, o1}
  OverrideOf <- MCOverrideOf
  Config <- MCConfig
  RunModes = {"enforce"}
  Requests <- MCRequests
  Method = "max"
  Creeps = {3, 6}
  MaxDrift = 10
  MaxActions = 2
INVARIANTS FaultsBlock DriftBounded LineageAgrees NoRunAfterStop RecordedBeforeRun
CHECK_DEADLOCK FALSE
VIEW MCView
