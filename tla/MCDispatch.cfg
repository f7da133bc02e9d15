CONSTANTS
  a1 = a1
  r1 = r1
  h1 = h1
  o1 = o1
  o2 = o2
  x1 = x1
  Nil = Nil
  Runs = {r1}
  Attempts = {a1}
  Hosts = {h1}
  Resources = {x1}
  Ops = {o1, o2}
  RunOf <- OneRun
  VisitOf <- FirstVisit
  HostOf <- OneHost
  ResourceSet <- OneResource
  Predecessors <- Independent
  Postconditions = {o2}
  MaxEpoch = 3
  MaxRevision = 6
  MaxSession = 2
  MaxBudget = 1
  MaxResults = 2
SPECIFICATION SmallSpec
CHECK_DEADLOCK FALSE
INVARIANTS
  ConclusionIsTrue
  ActingHoldsResources
  CompletedRunIsFinished
  AbandonedRunIsInert
  SentAtMostOnce
  FencedHostIsFenced
PROPERTIES
  NoSendBehindFence
  NothingIsRevived
