CONSTANTS
  Workflow <- Quick
  MaxAgents = 0
  MaxTokens = 0
  ReviewBudget = 0
  StageBudget = 0
  SensitiveBlocks = TRUE
  GateOutcomes <- PassOrFail
  Edits <- PlainEdits
  Usage = {0}
  Verdicts <- ApprovedOrFixes
  Artifacts <- NoArtifacts
  MaxOps = 3
  MaxWorkers = 2
  MaxFaults = 1
  MaxResumes = 1
  Transient = FALSE
  AllowAnonymous = FALSE
SPECIFICATION Spec
INVARIANTS
  ViolationStopsTheRun
CHECK_DEADLOCK FALSE
