CONSTANTS
  Venue = {"hall", "club"}
  Profile = {"club"}
  DefaultVenue = "hall"
  NoVenue = NoVenue
  Absent = Absent
  Empty = Empty
  c1 = c1
  c2 = c2
  Client = {c1, c2}
  Mode = {"standby", "dj"}
  InitialMode = "standby"
  Request <- MCRequest
  NoOne = NoOne
  Dropped = Dropped
  Room = 3
  MaxAsked = 1
  MaxStarts = 2
SPECIFICATION RpcSpec
INVARIANTS
  OnePlaceEach
PROPERTIES
  ActsAsRegister
  RequestsAnswered
CHECK_DEADLOCK FALSE
