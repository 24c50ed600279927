\* Two projects, one whose plan changes and whose only row comes late: what is pruned, and that every day is brought to its end.
CONSTANTS
  a = a
  b = b
  job = job
  cli = cli
  Entry <- TwoEntry
  Partition <- TwoPartition
  Project = {a, b}
  Run = {job, cli}
  NoRun = NoRun
  Nightly = {job}
  PartOf <- TwoPartOf
  ProjectOf <- TwoProjectOf
  DayOf <- TwoDayOf
  Scope <- TwoScope
  Skewed = {3}
  Switching = {b}
  HotWindow = 1
  Grace = 1
  PageSize = 1
  BatchSize = 1
  CopyOnly = FALSE
  FirstDay = 4
  LastDay = 4
  Faults = {"store", "silent", "db"}
  MaxFaults = 1
SPECIFICATION FairSpec
INVARIANT ProNeverPruned
PROPERTY UnfinishedDayFinishes
PROPERTY KeepsRetention
PROPERTY ProDayIsArchived
INVARIANT SettledDayVisible
