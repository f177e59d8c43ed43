CONSTANTS
  None = None
  Languages = {"english", "french"}
  TextOrder <- MCTextOrder
  Canonical <- MCCanonical
  Jobs <- MCJobs
  Users = {u1, u2}
  ProfileBodies <- MCProfiles
  Skills <- MCSkills
  Spans <- MCSpans
  Levels = {"B1", "B2", "C1"}
  Originals <- MCOriginals
  AsOf = 40
  MaxRequests = 6
SPECIFICATION ProfileSpec
CHECK_DEADLOCK FALSE
INVARIANT UnmetNativeIsCapped
