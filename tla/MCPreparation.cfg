CONSTANTS
  f = f  salary = salary  x1 = x1  x2 = x2  t1 = t1  t2 = t2  w1 = w1  w2 = w2
  Apps = {a1}
  Questions = {q1}
  Workers = {w1, w2}
  Users = {u1}
  Facts = {f}
  SalaryFacts = {}
  Wording = {x1, x2}
  ClaimsOf <- MCClaimsOf
  Text = {t1, t2}
  VariantText <- MCVariantDifferent
  Attempts = 1
  MaxEdits = 1
  MaxStalls = 1
  NoAnswer = NoAnswer
  NoLock = NoLock
SPECIFICATION Spec
SYMMETRY MCSymmetry
VIEW MCView
CHECK_DEADLOCK FALSE
INVARIANT TypeOK OneDocumentPerInput EventsAreBacked ApprovalIsHuman
