CONSTANTS
  Workflow <- Quick
  Engines = {e1, e2}
  Cancellers = {c1}
  MaxAgents = 3
  MaxTokens = 0
  MaxStageTokens = 1
  ReviewBudget = 0
  EntryBudget = 0
  Deadlines = FALSE
  Starts <- Ready
  AgentOutcomes <- PlainEnds
  GateOutcomes <- PassOrFail
  Usage = {1}
  Verdicts <- Approved
  Edits = TRUE
  MaxWorkers = 4
  Overtaken = FALSE
  MaxMishaps = 1
SPECIFICATION Spec
INVARIANTS
  NeverOverReports
  ReportedCancelIsRecorded
  OneAgentPerSlot
  AcceptedStageIsLeft
  CompletedIsVerified
PROPERTIES
  CancelIsFinalUnlessOvertaken
CHECK_DEADLOCK FALSE
