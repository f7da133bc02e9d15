CONSTANTS
  c1 = c1  c2 = c2  k1 = k1  k2 = k2  r1 = r1  r2 = r2
  a1 = a1  h1 = h1  o1 = o1  x1 = x1
  None = None
  Clients = {c1, c2}
  Keys = {k1, k2}
  Runs = {r1, r2}
  OldRuns = {r1}
  ControlOps = {"end"}
  ControlLimit = 1
  NormalLimit = 1
  Capacity = 2
  BurstLimit = 1
  Tickets = 2
  MaxRestores = 1
  MaxBoots = 2
  Evidence = {e1, e2, e3}
  MaxCounter = 7
  Cells = {"a", "b", "c"}
  Links = {x, y}
  MaxLinks = 2
SPECIFICATION PartsSpec
CHECK_DEADLOCK FALSE
INVARIANTS
  StoreIsSound
  StoredOperationDecodes
  RevocationIsWhole
PROPERTIES
  ImplementsLedger
  AcceptedIsTaken
  HistoryIsKept
  RevisionNamesDecision
  FenceIsConfirmed
  SentCommandIsNoticed
