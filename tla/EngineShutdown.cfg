SPECIFICATION FairSpec
CONSTANTS
  Docs = {d1, d2}
  Requests = {}
  MaxContexts = 1
  MaxEpoch = 2
  MaxEvents = 3
  MaxFaults = 1
  FailureLimit = 3
  FaultKinds = {"hang", "crash", "exit"}
  FileEvents = {"manifest", "foreign"}
  AllowShutdown = TRUE
INVARIANTS
  NoOrphanWorker
PROPERTIES
  ShutdownCompletes
CHECK_DEADLOCK FALSE
