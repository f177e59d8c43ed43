CONSTANTS
  s1 = s1  s2 = s2  m1 = m1  m2 = m2  
  AppId = {a1, a2}
  Slots = {s1, s2}
  Matches = {m1, m2}
  MatchSlot <- MCMatchSlot2
  Procs = {p1}
  SupersedesInput = {a1, a2, NoApp}
  CooldownDays = 1
  MaxTime = 1
  WithSubmission = TRUE
  NoSlot = NoSlot  NoApp = NoApp  NoKey = NoKey
SPECIFICATION Spec
SYMMETRY MCSymmetry
VIEW MCView
INVARIANT ReapplicationEarned
