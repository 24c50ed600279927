\* On the database production runs on, with nothing that fails.
CONSTANTS
  r1 = r1
  r2 = r2
  Request = {r1, r2}
  Fingerprint = {"f", "g"}
  MaxRuns = 2
  Engines = {"sqlite"}
  Window = 1
  MaxNow = 1
  Faults = {}
  MaxFaults = 2
SPECIFICATION Spec
\* With every run of the bound used up nothing is left to do.
INVARIANT FailsForACause
CHECK_DEADLOCK FALSE
