SPECIFICATION FairSpec
CONSTANTS
  Docs = {d1}
  Requests = {r1}
  MaxContexts = 2
  MaxEpoch = 2
  MaxEvents = 4
  MaxFaults = 1
  FailureLimit = 2
  FaultKinds = {"spawn"}
  FileEvents = {"source"}
  AllowShutdown = TRUE
INVARIANTS
  TypeOK
  CommittedMatchesWorker
  ObsoleteWorkIsPreempted
  PendingIsOwned
  WaitersAwaitTheNewest
  HealthyProjectsDoNotFail
  NoOrphanWorker
PROPERTIES
  ImplementsService
  NewestCommits
  RequestsSettle
CHECK_DEADLOCK FALSE
