CONSTANTS
  s1 = s1  s2 = s2
  RunId = {r1}
  Source = {s1, s2}
  Registered = {s1, s2}
  Finalizers = {f1, f2}
  StartAttempts = 1
  IngestAttempts = 2
  MaxFound = 1
  MaxFaults = 2
  SlowStart = TRUE
  NoRun = NoRun
SPECIFICATION Spec
SYMMETRY MCSymmetry
CHECK_DEADLOCK FALSE
INVARIANT TypeOK NotReportedEarly ParentReportsChildren NoLostFinalization
PROPERTY OnlyItsJobRewrites
