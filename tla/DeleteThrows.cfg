\* A database error while a verified day is being deleted.
CONSTANTS
  a = a
  b = b
  job = job
  cli = cli
  Entry <- OneEntry
  Partition <- OnePartition
  Project = {a}
  Run = {job, cli}
  NoRun = NoRun
  Nightly = {job}
  PartOf <- OnePartOf
  ProjectOf <- OneProjectOf
  DayOf <- OneDayOf
  Scope <- OneScope
  Skewed = {}
  Switching = {}
  HotWindow = 1
  Grace = 1
  PageSize = 2
  BatchSize = 2
  CopyOnly = FALSE
  FirstDay = 3
  LastDay = 3
  Faults = {"dbDelete"}
  MaxFaults = 1
SPECIFICATION Spec
INVARIANT NoLoss
