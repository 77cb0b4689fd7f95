CONSTANTS
  Workflow <- Quick
  Engines = {e1, e2}
  Cancellers = {}
  MaxAgents = 3
  MaxTokens = 0
  MaxStageTokens = 1
  ReviewBudget = 0
  EntryBudget = 0
  Deadlines = FALSE
  Starts <- Ready
  AgentOutcomes <- PlainEnds
  GateOutcomes <- PassOrFail
  Usage = {1}
  Verdicts <- Approved
  Edits = TRUE
  MaxWorkers = 4
  Overtaken = TRUE
  MaxMishaps = 1
SPECIFICATION Spec
PROPERTY DisplacedEngineWritesNoOutcome
CHECK_DEADLOCK FALSE
