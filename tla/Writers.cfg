CONSTANTS
  Gains = 2
  Full = 2
  Id = {i1, i2}
  NoId = NoId
  Venue <- MCVenue
  MayFail = TRUE
  Request = {r1}
  Channel = 2
  Knee = 1
  Floor = 1
  Programmes <- MCProgrammes
  Override = {}
  Linear <- MCLinear
  Threshold = 1
  Profile = {"twoway"}
  NoProfile = NoProfile
SPECIFICATION WritersSpec
INVARIANTS
  NothingLouder
