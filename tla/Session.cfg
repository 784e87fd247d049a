CONSTANTS
  Session = {s1}
  None = None
  Channels = 2
  Positions = 1
  Ceiling <- MCCeiling
  SweepLevel = 1
  Mode = {"standby", "dj"}
  MaxUpsets = 2
  StartLevel <- MCStart
  CoarseStep = 3
  FineStep = 1
  MaxStep = 2
  FineThreshold = 2
  Tolerance = 1
  MaxRampSteps = 4
  MaxOvershoots = 2
  MaxXruns = 1
  LoopbackFloor <- MCFloor
  SnrLevel <- MCSnr
  AmbientLimit = 8
  Target = 6
  HardLimit = 9
  Spl <- MCSpl
SPECIFICATION SessionSpec
INVARIANTS
  ModeComesBack
  NoOrphan
  OneDeployment
  PassedWasHeard
PROPERTIES
  PlaysInMeasurementMode
  SessionsEnd
CHECK_DEADLOCK FALSE
