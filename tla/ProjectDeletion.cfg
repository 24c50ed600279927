\* Two requests, a run and a deletion asked for twice, a fault.
CONSTANTS
  w1 = w1
  w2 = w2
  x1 = x1
  x2 = x2
  Writer = {w1, w2}
  Written = {"log_entries", "project_members", "log_fix_runs"}
  Day = {1}
  DayOf <- TwoDayOf
  NoDay = NoDay
  Deletion = {x1, x2}
  MaxFaults = 1
SPECIFICATION FairSpec
INVARIANT DeletionInv
INVARIANT ObjectsNamed
INVARIANT OldRowsGo
PROPERTY DeletionEnds
\* Once the project is gone and every request answered nothing is left to do.
CHECK_DEADLOCK FALSE
