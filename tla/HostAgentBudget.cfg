CONSTANTS
  Workflow <- Quick
  MaxAgents = 2
  MaxTokens = 0
  ReviewBudget = 0
  StageBudget = 0
  SensitiveBlocks = TRUE
  GateOutcomes <- PassOrFail
  Edits <- PlainEdits
  Usage = {0}
  Verdicts <- ApprovedOrFixes
  Artifacts <- NoArtifacts
  MaxOps = 7
  MaxWorkers = 3
  MaxFaults = 0
  MaxResumes = 0
  Transient = FALSE
  AllowAnonymous = FALSE
SPECIFICATION Spec
PROPERTIES
  AgentBudgetStopsOnlyStarts
CHECK_DEADLOCK FALSE
