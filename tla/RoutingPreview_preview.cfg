SPECIFICATION Spec
CONSTANTS
  None = None
  a = a  b = b  f1 = f1  f2 = f2  e1 = e1  e2 = e2  g = g
  Share = {a, b}
  File = {f1, f2}
  Event = {e1, e2}
  Group = {g}
  Guessed = {f2}
  ShareOf <- MCShareOf
  CapturedAt <- MCCapturedAt
  Plan <- MCPlan
  FirstConfig <- MCFirstConfig
  MaxJobs = 5
  MaxClicks = 3
  MaxChanges = 2
INVARIANTS RunningJobsFindable
PROPERTIES VerdictIsWorkers PreviewEnds
CHECK_DEADLOCK FALSE
