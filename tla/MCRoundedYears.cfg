CONSTANTS
  None = None
  Now = Now
  Profiles <- MCProfiles
  Offers <- MCOffers
  Today = 40
  maxRepairAttempts = 2
  MaxClaims = 2
  MaxEdits = 1
SPECIFICATION Spec
INVARIANT YearsAreNotRoundedUp
