SPECIFICATION Spec
CONSTANTS
  r1 = r1
  r2 = r2
  w1 = w1
  w2 = w2
  None = None
  Runs = {r1, r2}
  Workers = {w1, w2}
  Offers = {"o1", "o2"}
  View <- MCView
  Listing <- MCListing
  Query <- MCQuery
  MAX_PAGES = 2
  Limit = 1
  WindowLen = 1
  MaxWait = 1
  MinPenalty = 1
  DefaultPenalty = 1
  MaxPenalty = 3
  RetryAfters = {1, 3}
  MaxAttempts = 2
  MaxStalls = 1
PROPERTY PenaltyNeverShortened
