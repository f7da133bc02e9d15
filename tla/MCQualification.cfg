CONSTANTS
  h1 = h1
  h2 = h2
  p1 = p1
  p2 = p2
  p3 = p3
  Nil = Nil
  Hosts = {h1, h2}
  People = {p1, p2, p3}
  MaxFaults = 1
  MaxJobs = 2
  MaxReports = 1
  MaxDecisions = 1
  MaxBatches = 2
SYMMETRY Symmetry
SPECIFICATION SmallSpec
CHECK_DEADLOCK FALSE
INVARIANTS
  CertificateIsBacked
  CertifiedIsAccepted
PROPERTIES
  LiftedBlocksAreOver
