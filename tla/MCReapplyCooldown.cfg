CONSTANTS
  s1 = s1  s2 = s2  m1 = m1  m2 = m2  
  AppId = {a1, a2, a3}
  Slots = {s1}
  Matches = {m1}
  MatchSlot <- MCMatchSlot1
  Procs = {p1}
  SupersedesInput = {a1, a2, a3, NoApp}
  CooldownDays = 1
  MaxTime = 1
  WithSubmission = TRUE
  NoSlot = NoSlot  NoApp = NoApp  NoKey = NoKey
SPECIFICATION Spec
SYMMETRY MCSymmetry
VIEW MCView
PROPERTY CooldownAfterEveryRejection
