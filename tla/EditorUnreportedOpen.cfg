SPECIFICATION FairSpec
CONSTANTS
  d1 = d1
  None = None
  Doc <- MCDoc
  MaxRestarts = 0
  MaxOpenings = 2
  MaxVersion = 2
  MaxFaults = 0
  Faults = {}
  MaxRevision = 1
  InOrder = TRUE
  Moves = FALSE
PROPERTY OpenDocumentsAreReported
CHECK_DEADLOCK FALSE
