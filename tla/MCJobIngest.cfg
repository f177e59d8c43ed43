CONSTANTS
  a = a  b = b  c = c  x = x
  l1 = l1  l2 = l2  l3 = l3
  u1 = u1  u2 = u2  u3 = u3
  t1 = t1  t2 = t2
  Listings = {l1, l2, l3}
  Urls = {u1, u2, u3}
  Jobs = {a, b, c, x}
  Targets = {t1, t2}
  Offers <- MCOffers
  Block <- MCBlock
  Score <- MCScore
  High = 9
  Medium = 7
  Workers = {w1, w2, w3}
  Users = {p1, p2}
  MaxCrashes = 1
  None = None
SPECIFICATION Spec
SYMMETRY MCSymmetry
INVARIANT TypeOK NoTwins VacancyKept
PROPERTY ImplementsCatalogue
