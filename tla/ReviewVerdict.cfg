CONSTANTS
  Verdicts <- MCVerdicts
  Bodies <- MCBodies
  TidyProse <- MCTidy
  OtherProse <- MCOther
  Data <- MCData
  MaxPieces = 3
  Budget = 2

SPECIFICATION Spec

INVARIANTS
  LastVerdictDecides
  ApprovalWasGiven

CHECK_DEADLOCK FALSE
