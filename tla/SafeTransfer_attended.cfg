SPECIFICATION SyncSpec
CONSTANTS
  None = None
  m1 = m1  m2 = m2  m3 = m3  e1 = e1  e2 = e2
  s1 = s1  s2 = s2  d1 = d1  d2 = d2  d3 = d3  d4 = d4
  c1 = c1  c2 = c2  torn = torn
  o1 = o1  o2 = o2  o3 = o3
  w1 = w1  w2 = w2
  Media = {m1, m2}
  Event = {e1}
  Path = {s1, s2, d1, d2, d3}
  Content = {c1, c2, torn}
  OpId = {o1, o2}
  Worker = {w1}
  SourcePath <- MCSourcePath
  Present = {m1, m2}
  Routable <- MCRoutable
  Destination = {d1, d2, d3}
  Desired <- SameDesired
  Candidates <- MCCandidates
  Length <- SameLength
  Garbage = {torn}
  Policies <- MovePolicy
  MaxCrashes = 0
  MaxRequests = 1
  MaxSyncs = 1
INVARIANTS CommittedCopyStored InFlightOwned
SYMMETRY Symmetry
CHECK_DEADLOCK FALSE
