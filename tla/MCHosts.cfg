CONSTANTS
  c1 = c1 c2 = c2 o1 = o1 b1 = b1 b2 = b2 r1 = r1
  None = None
  Unset = Unset
  LinkedCells = {c1, c2}
  Resources = {r1}
  ResOf <- Shared
  Cells = {c1}
  Ops = {o1}
  CellOf <- AtC1
  Bindings = {b1, b2}
  MaxRuntime = 3
  MaxHostBoot = 2
  MaxEpoch = 4
  MaxSession = 3
  MaxFailures = 1
  PlanTTL = 2
  TTL = 2
  MaxBoot = 2
  MaxJournal = 2
  MaxFence = 3
  MaxApprovals = 1
  MaxRuntimeBoot = 2
  MaxSessions = 3
  MaxCellEpoch = 4
SPECIFICATION PartsSpec
SYMMETRY Symmetric
CHECK_DEADLOCK FALSE
INVARIANTS
  RecoveryIsSound
  LinksAreSound
PROPERTIES
  PromotedHostIsFenced
