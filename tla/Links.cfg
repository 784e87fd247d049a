CONSTANTS
  Name <- MCName
  Mode = {"standby", "live"}
  Table <- MCTable
  StreamName = {"player"}
  ConvolverOut = "convolver-out"
  Usb = "usb"
  Id = {i1}
  Monitored = {"convolver"}
  Convolver = "convolver"
  Process <- MCMixedTwo
  Standby = "standby"
  InitialMode = "live"
  Param = {"main"}
  Unity = 1
  Restore <- MCRestore
  Venue = {}
  Profile <- MCProfile
  DefaultVenue = "hall"
  NoVenue = NoVenue
  ForeignPair <- MCStreamPair
  UnlinkPair <- MCUsbPair
  ForeignLevel = {}
  Since = {}
  MayExit = TRUE
  MayCrash = TRUE
  MaxEpoch = 50
SPECIFICATION Spec
INVARIANTS
  NoBypassWhenQuiet
  QuietMeansAtRest
  SettledIffMatching
PROPERTY
  StreamLinksStay
VIEW MCView
