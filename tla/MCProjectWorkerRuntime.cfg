SPECIFICATION FairSpec
CONSTANTS
  Docs = {d1}
  Requests = {r1}
  Sources <- MCSources
  MaxGeneration = 3
  MaxInbox = 2
  MaxDisk = 2
  MaxSupersedes = 1
INVARIANTS
  TypeOK
  VerdictsAreFinal
  BasisIsLastCommit
  AnswersReadTheirGeneration
  OneAnswerPerRequest
PROPERTIES
  EveryGenerationEnds
CHECK_DEADLOCK FALSE
