CONSTANTS
  s1 = s1  s2 = s2
  RunId = {r1, r2}
  Source = {s1, s2}
  Registered = {s1}
  Finalizers = {f1, f2}
  StartAttempts = 2
  IngestAttempts = 1
  MaxFound = 0
  MaxFaults = 1
  SlowStart = FALSE
  NoRun = NoRun
SPECIFICATION FairSpec
CHECK_DEADLOCK FALSE
PROPERTY EveryRunEnds EveryChildEnds
