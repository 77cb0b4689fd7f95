CONSTANTS
  Providers = {"git"}
  Workflow <- Review
  Order <- ByName
  Paths = {"main"}
  Committed <- MCCommitted
  Entries <- Versions
  InitialTrees <- OneFile
  Ignored = {"notes"}
  Sensitive = {}
  HostLocal = {}
  GateMutations = "block"
  GateOutputs = {}
  SensitiveMutations = "block"
  HostLocalState = "warn"
  Gates = 1
  MaxWorkers = 6
  MaxEdits = 2
  MaxCommits = 0
  MaxFaults = 0
  MaxResumes = 1
SPECIFICATION Spec
PROPERTIES
  OwnWorkIsNoDrift
CHECK_DEADLOCK FALSE
