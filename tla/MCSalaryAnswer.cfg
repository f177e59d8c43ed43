CONSTANTS
  f = f  salary = salary  x1 = x1  x2 = x2  t1 = t1  t2 = t2  w1 = w1  w2 = w2
  Apps = {a1}
  Questions = {q1}
  Workers = {w1, w2}
  Users = {u1}
  Facts = {f, salary}
  SalaryFacts = {salary}
  Wording = {x2}
  ClaimsOf <- MCSalaryClaim
  Text = {t1, t2}
  VariantText <- MCVariantSame
  Attempts = 1
  MaxEdits = 0
  MaxStalls = 1
  NoAnswer = NoAnswer
  NoLock = NoLock
SPECIFICATION Spec
SYMMETRY MCSymmetry
CHECK_DEADLOCK FALSE
PROPERTY OnlyStaleIsDemoted
