CONSTANTS
  Workflow <- SDD
  MaxAgents = 0
  MaxTokens = 0
  ReviewBudget = 0
  StageBudget = 0
  SensitiveBlocks = TRUE
  GateOutcomes <- PassOrFail
  Edits <- NoEdits
  Usage = {0}
  Verdicts <- ApprovedOrFixes
  Artifacts <- EveryArtifact
  MaxOps = 10
  MaxWorkers = 4
  MaxFaults = 1
  MaxResumes = 0
  Transient = FALSE
  AllowAnonymous = FALSE
SPECIFICATION Spec
INVARIANTS
  LeftWithItsArtifact
CHECK_DEADLOCK FALSE
