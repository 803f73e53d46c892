SPECIFICATION Spec
CONSTANTS
  Docs = {d1}
  Requests = {r1}
  MaxContexts = 2
  MaxEpoch = 2
  MaxEvents = 4
  MaxFaults = 1
  FailureLimit = 2
  FaultKinds = {"crash", "exit", "hang", "defect", "queryDefect", "stall", "lease", "spawn", "slowStart"}
  FileEvents = {}
  AllowShutdown = FALSE
INVARIANTS
  CommittedMatchesWorker
  NoOrphanWorker
  OpenTextsAreCommitted
PROPERTIES
  AnswersAreCurrent
CHECK_DEADLOCK FALSE
