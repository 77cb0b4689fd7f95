CONSTANTS
  Workflow <- Quick
  MaxAgents = 0
  MaxTokens = 0
  ReviewBudget = 0
  StageBudget = 0
  SensitiveBlocks = TRUE
  GateOutcomes <- PassOrFail
  Edits <- NoEdits
  Usage = {0}
  Verdicts <- ApprovedOrFixes
  Artifacts <- NoArtifacts
  MaxOps = 7
  MaxWorkers = 3
  MaxFaults = 1
  MaxResumes = 0
  Transient = FALSE
  AllowAnonymous = FALSE
SPECIFICATION Spec
INVARIANTS
  LastCloseCompletes
CHECK_DEADLOCK FALSE
