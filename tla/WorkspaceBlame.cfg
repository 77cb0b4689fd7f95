CONSTANTS
  Providers = {"git"}
  Workflow <- Quick
  Order <- ByName
  Paths = {"main", "notes"}
  Committed <- MCCommitted
  Entries <- Plain
  InitialTrees <- CleanTrees
  Ignored = {"notes"}
  Sensitive = {}
  HostLocal = {}
  GateMutations = "block"
  GateOutputs = {}
  SensitiveMutations = "block"
  HostLocalState = "warn"
  Gates = 1
  MaxWorkers = 2
  MaxEdits = 1
  MaxCommits = 0
  MaxFaults = 1
  MaxResumes = 1
SPECIFICATION Spec
PROPERTIES
  AuditBlamesNobodyElse
CHECK_DEADLOCK FALSE
