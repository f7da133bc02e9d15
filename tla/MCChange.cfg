SPECIFICATION PartsSpec
CONSTANTS
    c1 = c1
    c2 = c2
    A = A
    B = B
    None = None
    Changes = {c1, c2}
    Runs = {r1}
    Hosts = {h1, h2}
    Start = A
    Mode <- RevalidateFirst
    Target <- TargetB
    MaxEpoch = 5
    MaxBoot = 2
    MaxGen = 2
    MaxRev = 7
    MaxAttempt = 2
    di = di
    pi = pi
    d = d
    p = p
    n = n
    rules1 = rules1
    rules2 = rules2
    doc1 = doc1
    doc2 = doc2
    ann = ann
    bob = bob
    Absent = Absent
    Principals <- People
    Trusts <- TwoPolicies
    Sites <- ThreeSites
    Releases <- TwoReleases
    Intakes = {di, pi}
    DeviceIntakes = {di}
    ProcessIntakes = {pi}
    DeviceReviews = {d}
    ProcessReviews = {p}
    Authorities = {"key"}
    Reports = {"good", "bad"}
    Passing = {"good"}
    Plans = {n}
    DeviceHosts = {"h", "g"}
    Documents = {doc1, doc2}
    MaxTickets = 2
    MaxTurns = 3
    MaxVersions = 2
    MaxDecisions = 2
    MaxSaves = 2
SYMMETRY Alike
INVARIANT
  ChangeIsSound
PROPERTY
  ReviewsAreSound
CHECK_DEADLOCK FALSE
