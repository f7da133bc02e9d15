CONSTANTS
  k1 = k1 k2 = k2 p1 = p1 c1 = c1 c2 = c2 o1 = o1 o2 = o2
  None = None
  Absent = Absent
  Ops = {o1, o2}
  Cells = {c1, c2}
  Cases = {k1, k2}
  People = {p1}
  Kinds = {"diagnostic", "recovery", "maintenance"}
  Qualities = {"sound", "unsound", "uncertain", "misscoped"}
  Modes = {"automatic"}
  MaxReports = 2
  MaxHolds = 1
  Doubts = {TRUE, FALSE}
  Admitted = FALSE
  Upsets = {"revoked", "conflict", "runtime", "host", "relink", "dispute", "expiry"}
  MaxUpsets = 2
  MaxPlans = 2
  MaxFailures = 1
SPECIFICATION PartsSpec
SYMMETRY Alike
CHECK_DEADLOCK FALSE
INVARIANTS
  InterventionIsSound
PROPERTIES
  ReleaseIsSafe
