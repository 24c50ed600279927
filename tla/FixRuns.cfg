\* Two clicks at once on two shapes of errors, two runs, two faults.
CONSTANTS
  r1 = r1
  r2 = r2
  Request = {r1, r2}
  Fingerprint = {"f", "g"}
  MaxRuns = 2
  Engines = {"sqlite", "postgres"}
  Window = 1
  MaxNow = 1
  Faults = {"db", "lost", "crash", "model"}
  MaxFaults = 2
SPECIFICATION Spec
INVARIANT FixInv
INVARIANT StrandedByFaults
INVARIANT LoserIsAnswered
PROPERTY OutcomeStays
\* With every run of the bound used up nothing is left to do.
CHECK_DEADLOCK FALSE
