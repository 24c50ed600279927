\* One day of three rows, two overlapping runs, two faults of the kinds the exporter survives.
CONSTANTS
  a = a
  b = b
  job = job
  cli = cli
  Entry <- OneEntry
  Partition <- OnePartition
  Project = {a}
  Run = {job, cli}
  NoRun = NoRun
  Nightly = {job}
  PartOf <- OnePartOf
  ProjectOf <- OneProjectOf
  DayOf <- OneDayOf
  Scope <- OneScope
  Skewed = {}
  Switching = {a}
  HotWindow = 1
  Grace = 1
  PageSize = 2
  BatchSize = 2
  CopyOnly = TRUE
  FirstDay = 3
  LastDay = 4
  Faults = {"crash", "store", "db", "billing"}
  MaxFaults = 2
SPECIFICATION Spec
INVARIANT NoLoss
INVARIANT ClaimExclusive
INVARIANT NeverCountedTwice
