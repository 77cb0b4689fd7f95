CONSTANTS
  Workflow <- Quick
  MaxAgents = 0
  MaxTokens = 0
  ReviewBudget = 0
  StageBudget = 0
  SensitiveBlocks = TRUE
  GateOutcomes <- PassOrFail
  Edits <- NoEdits
  Usage = {0}
  Verdicts <- ApprovedOrFixes
  Artifacts <- NoArtifacts
  MaxOps = 3
  MaxWorkers = 2
  MaxFaults = 1
  MaxResumes = 0
  Transient = TRUE
  AllowAnonymous = FALSE
SPECIFICATION Spec
INVARIANTS
  LogStaysCoherent
CHECK_DEADLOCK FALSE
