CONSTANTS
  a1 = a1
  a2 = a2
  r1 = r1
  r2 = r2
  h1 = h1
  h2 = h2
  Nil = Nil
  Runs = {r1, r2}
  Attempts = {a1, a2}
  Hosts = {h1, h2}
  Resources = {}
  Ops = {}
  RunOf <- NoSlots
  VisitOf <- NoSlots
  HostOf <- NoSlots
  ResourceSet <- NoSlots
  Predecessors <- NoSlots
  Postconditions = {}
  MaxEpoch = 2
  MaxRevision = 4
  MaxSession = 2
  MaxBudget = 1
  MaxResults = 0
SPECIFICATION SmallSpec
SYMMETRY Symmetric
CHECK_DEADLOCK FALSE
INVARIANTS
  AuthorityIsCurrent
  EveryHostIsArmed
  StartIsPending
  OnePurposeExecutes
