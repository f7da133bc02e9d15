SPECIFICATION PartsSpec
CHECK_DEADLOCK FALSE
CONSTANTS
  Nil = Nil
  Conditions = {"q"}
  Timeout = 1
  MaxAge = 2
  MaxTime = 1
  MaxObservations = 2
  MaxProposals = 2
  h1 = h1  h2 = h2  b1 = b1  b2 = b2  b3 = b3
  Hosts = {h1, h2}
  Faithful = {h1}
  Journals = {j1, j2}
  Ids = {i1, i2}
  FaithfulIds = {i1}
  Bodies = {b1, b2, b3}
  WorkHost <- Work
  MaxSeq = 2
  MaxBatch = 2
  MaxSession = 3
INVARIANTS
  EvidenceIsSound
  ExecutionIsSound
PROPERTIES
  ImplementsLog
  StepsAreSound
  EveryRecordIsApplied
