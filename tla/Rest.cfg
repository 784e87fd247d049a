CONSTANTS
  Name <- MCName
  Mode = {"standby", "live"}
  Table <- MCTable
  StreamName = {"player"}
  ConvolverOut = "convolver-out"
  Usb = "usb"
  Id = {i1}
  Monitored = {"convolver"}
  Convolver = "convolver"
  Process <- MCNoUsb
  Standby = "standby"
  InitialMode = "live"
  Param = {"main"}
  Unity = 1
  Restore <- MCRestore
  Venue = {"hall"}
  Profile <- MCProfileOne
  DefaultVenue = "hall"
  NoVenue = NoVenue
  ForeignPair <- MCForeignPair
  UnlinkPair = {}
  ForeignLevel = {2}
  Since = {2}
  MayExit = TRUE
  MayCrash = TRUE
  MaxEpoch = 2
SPECIFICATION FairSpec
PROPERTIES
  ComesToRest
  OverUnityIsMuted
