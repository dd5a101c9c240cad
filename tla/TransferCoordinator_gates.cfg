SPECIFICATION FairSpec
CONSTANTS
  None = None
  Caller = {c1, c2, c3}
  Media = {m1, m2}
  Gate = {g1, g2, g3}
INVARIANTS OnePermit
PROPERTY EveryCallServed
