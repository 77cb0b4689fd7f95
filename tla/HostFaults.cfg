CONSTANTS
  Workflow <- Quick
  MaxAgents = 0
  MaxTokens = 0
  ReviewBudget = 0
  StageBudget = 0
  SensitiveBlocks = TRUE
  GateOutcomes <- PassOrFail
  Edits <- EveryEdit
  Usage = {0}
  Verdicts <- ApprovedOrFixes
  Artifacts <- NoArtifacts
  MaxOps = 2
  MaxWorkers = 2
  MaxFaults = 1
  MaxResumes = 1
  Transient = FALSE
  AllowAnonymous = TRUE
SPECIFICATION Spec
INVARIANTS
  ClosedOnItsOwnEvidence
  ViolationStopsOrIsReconciled
  NoChangeIsSwallowed
  LogStaysCoherent
  FailedResumeKeepsToken
PROPERTIES
  KeepsThePromise
CHECK_DEADLOCK FALSE
