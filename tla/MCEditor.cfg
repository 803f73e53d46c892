SPECIFICATION FairSpec
CONSTANTS
  d1 = d1
  None = None
  Doc <- MCDoc
  MaxRestarts = 1
  MaxOpenings = 2
  MaxVersion = 2
  MaxFaults = 1
  Faults = {"crash", "wedge", "wedgedStart", "refuse"}
  MaxRevision = 1
  InOrder = TRUE
  Moves = FALSE
INVARIANTS
  TypeOK
  NoServerOverlap
  ShownIsOfTheVersion
  ResultIsShown
PROPERTIES
  CommandsEnd
  EditedDocumentsAreReported
CHECK_DEADLOCK FALSE
