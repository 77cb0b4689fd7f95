CONSTANTS
  Dests <- MCDests
  Sorted <- MCSorted
  Versions = {1, 2}
  Declared <- MCDeclared
  Catalog <- MCCatalog
  OwnRules = {"own"}
  Projects <- MCProjects
  MaxCommands = 3
  MaxEdits = 1
  MaxCrashes = 1
  MaxFails = 2
SPECIFICATION Spec
INVARIANTS
  AddedRulesAreClaimed
PROPERTIES
  UserFilesSurvive
  FailedInstallChangesNothing
  UserRulesSurvive
  RetiredRulesGo
  InstalledMeansUsable
  MarkerGoesLast
CHECK_DEADLOCK FALSE
