CONSTANTS
  Dests <- MCDests
  Sorted <- MCSorted
  Versions = {1, 2}
  Declared <- MCDeclared
  Catalog <- MCCatalog
  OwnRules = {"own"}
  Projects <- MCProjects
  MaxCommands = 3
  MaxEdits = 1
  MaxCrashes = 1
  MaxFails = 2
SPECIFICATION Spec
PROPERTIES
  InstallWithdrawsRetired
CHECK_DEADLOCK FALSE
