CONSTANTS
  Name <- MCName
  Mode = {"standby", "dj"}
  Table <- MCTable
  StreamName = {}
  ConvolverOut = "convolver-out"
  Usb = "usb"
  Id = {i1, i2}
  Monitored = {"convolver", "convolver-out"}
  Convolver = "convolver"
  Process <- MCProcess
  Standby = "standby"
  InitialMode = "dj"
  Param = {"main", "sub"}
  Unity = 2
  Restore <- MCRestore
  Venue = {"hall", "club"}
  Profile <- MCProfile
  DefaultVenue = "hall"
  NoVenue = NoVenue
  ForeignPair = {}
  UnlinkPair = {}
  ForeignLevel = {}
  Since = {}
  MayExit = TRUE
  MayCrash = TRUE
  MaxEpoch = 1
SPECIFICATION Spec
INVARIANTS
  MutedWhileClosed
  OpenGateGains
PROPERTY
  KeepsContract
