SPECIFICATION FairWakeSpec
CONSTANTS
  Writer = {w1, w2}
  Share = {s1, s2}
  File = {f1, f2}
  Event = {e1}
  MaxPendingPathsPerShare = 1
INVARIANTS WorkAnnounced NothingDiscarded
PROPERTY EveryAskAnswered
