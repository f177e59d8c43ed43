CONSTANTS
  w1 = w1  w2 = w2  first = first  second = second
  Jobs = {j1}
  Workers = {w1, w2}
  Spaces = {first, second}
  ModelOf <- MCModelOf
  FirstSpace = first
  Versions = {0, 1}
  Edited <- MCEdited
  OpenEnded = {0}
  Days = {0, 1}
  Attempts = 1
  MaxEdits = 2
  MaxRestarts = 1
  ApiSpace = second
  MaxStalls = 1
  NoSpace = NoSpace
  NoDay = NoDay
  NoVector = NoVector
SPECIFICATION Spec
CHECK_DEADLOCK FALSE
PROPERTY RecomputeNeverBlocked
