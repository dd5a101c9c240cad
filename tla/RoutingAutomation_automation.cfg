SPECIFICATION FairSpec
CONSTANTS
  f1 = f1
  f2 = f2
  birthday = birthday
  trip = trip
  None = None
  File = {f1, f2}
  Event = {birthday, trip}
  EventOf <- MCEventOf
  Guessed = {}
  Walk <- MCWalk
  Watched = {f1}
  Late = {f2}
  Limit = 1
  MaxActs = 3
INVARIANTS TypeOK BackfillsOwed
PROPERTIES BackfillComplete DryRunBinds FilesNotStarved MonitorAnswered
CHECK_DEADLOCK FALSE
