SPECIFICATION FairSpec
CONSTANTS
  Docs = {d1}
  Requests = {r1}
  MaxContexts = 1
  MaxEpoch = 2
  MaxEvents = 2
  MaxFaults = 1
  FailureLimit = 1
  FaultKinds = {"defect"}
  FileEvents = {}
  AllowShutdown = FALSE
PROPERTIES
  PendingEnds
CHECK_DEADLOCK FALSE
