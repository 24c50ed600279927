\* A chart or a search over three days, while a run archives or prunes them.
CONSTANTS
  a = a
  job = job
  Entry <- QEntry
  Partition <- QPartition
  Project = {a}
  Run = {job}
  NoRun = NoRun
  Nightly = {job}
  PartOf <- QPartOf
  ProjectOf <- QProjectOf
  DayOf <- QDayOf
  Scope <- QScope
  Skewed = {}
  Switching = {a}
  HotWindow = 1
  Grace = 1
  PageSize = 2
  BatchSize = 1
  CopyOnly = TRUE
  FirstDay = 5
  LastDay = 5
  Faults = {"store", "db"}
  MaxFaults = 2
  Viewed = a
  From = 1
  To = 3
  MaxFiles = 2
  Limit = 1
  Offset = {4}
SPECIFICATION QuerySpec
INVARIANT ChartHonest
INVARIANT SearchComplete
INVARIANT PanelFits
