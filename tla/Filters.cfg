CONSTANTS
  Profile = {"home"}
  Key = {"sat", "hf"}
  Suffix <- MCSuffix
  Standard = {"hp"}
  Gone = Gone
  Down = Down
  Keep = {1, 2}
  MaxTime = 3
  MaxRequests = 4
  Invite = {i1}
  Credential = {c1, c2}
  Absent = Absent
  MaxAuths = 4
  MaxCount = 1
  MaxRestarts = 1
  NoData = NoData
  ShownMode = {"standby", "dj"}
  Grace = 1
  MaxLines = 2
  Viewer = {v1, v2}
  Nobody = Nobody
  QueueSize = 1
  MaxCoordinators = 3
SPECIFICATION MCSpec
SYMMETRY CredentialSymmetry
INVARIANTS
  ActiveVersionsExist
  OneCredentialPerInvite
  RevokedStaysRevoked
  OwnAnswers
  ViewersServed
PROPERTIES
  OnlyPassingSounds
  NewestSurvives
CHECK_DEADLOCK FALSE
