CONSTANTS
  Workflow <- Review
  MaxAgents = 0
  MaxTokens = 0
  ReviewBudget = 2
  StageBudget = 0
  SensitiveBlocks = TRUE
  GateOutcomes <- PassOrFail
  Edits <- PlainEdits
  Usage = {0}
  Verdicts <- ApprovedOrFixes
  Artifacts <- NoArtifacts
  MaxOps = 10
  MaxWorkers = 4
  MaxFaults = 1
  MaxResumes = 0
  Transient = FALSE
  AllowAnonymous = FALSE
SPECIFICATION Spec
INVARIANTS
  FixesAreBounded
PROPERTIES
  KeepsThePromise
CHECK_DEADLOCK FALSE
