CONSTANTS
  Workflow <- Review
  MaxAgents = 5
  MaxTokens = 1
  ReviewBudget = 2
  StageBudget = 0
  SensitiveBlocks = TRUE
  GateOutcomes <- EveryOutcome
  Edits <- NoEdits
  Usage = {0, 1}
  Verdicts <- EveryVerdict
  Artifacts <- NoArtifacts
  MaxOps = 15
  MaxWorkers = 6
  MaxFaults = 0
  MaxResumes = 0
  Transient = FALSE
  AllowAnonymous = FALSE
SPECIFICATION FairSpec
PROPERTIES
  EventuallyStops
CHECK_DEADLOCK FALSE
