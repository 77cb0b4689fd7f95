CONSTANTS
  Providers = {"git", "filesystem"}
  Workflow <- Quick
  Order <- ByName
  Paths = {"main", "notes"}
  Committed <- MCCommitted
  Entries <- MCEntries
  InitialTrees <- MCTrees
  Ignored = {"notes"}
  Sensitive = {}
  HostLocal = {}
  GateMutations = "block"
  GateOutputs = {}
  SensitiveMutations = "block"
  HostLocalState = "warn"
  Gates = 1
  MaxWorkers = 3
  MaxEdits = 3
  MaxCommits = 1
  MaxFaults = 1
  MaxResumes = 1
SPECIFICATION Spec
PROPERTIES
  AuditSeesTheWork
  ReadOnlyStagesOnlyRead
  GateKeepsOrPutsBack
  DamageIsUndoneOrTold
  DriftIsCaught
CHECK_DEADLOCK FALSE
