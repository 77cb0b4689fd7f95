CONSTANTS
  Workflow <- Review
  Engines = {e1}
  Cancellers = {c1}
  MaxAgents = 6
  MaxTokens = 5
  MaxStageTokens = 0
  ReviewBudget = 2
  EntryBudget = 0
  Deadlines = TRUE
  Starts <- EveryStart
  AgentOutcomes <- EveryEnd
  GateOutcomes <- EveryOutcome
  Usage = {1}
  Verdicts <- EveryVerdict
  Edits = TRUE
  MaxWorkers = 6
  Overtaken = TRUE
  MaxMishaps = 1
SPECIFICATION FairSpec
PROPERTIES
  LeftOnCleanWork
  CancelStopsTheEngine
CHECK_DEADLOCK FALSE
