CONSTANTS
  s1 = s1  s2 = s2  m1 = m1  m2 = m2  
  AppId = {a1, a2}
  Slots = {s1}
  Matches = {m1}
  MatchSlot <- MCMatchSlot1
  Procs = {p1, p2}
  SupersedesInput = {NoApp}
  CooldownDays = 0
  MaxTime = 0
  WithSubmission = FALSE
  NoSlot = NoSlot  NoApp = NoApp  NoKey = NoKey
SPECIFICATION Spec
SYMMETRY MCSymmetry
INVARIANT TypeOK OneActivePerSlot OneApplicationPerKey AuditNeverAhead HumanReasonShown
PROPERTY TimelineIsChain ImplementsLifecycle
