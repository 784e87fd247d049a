CONSTANTS
  Client = {"script", "ensure", "restore", "start", "stop"}
  None = None
  MaxCrashes = 1
  Blocks = 2
  MaxTries = 3
  MaxRuns = 2
  Targets = {"dj", "standby"}
  MaxAsked = 2
  MaxStarts = 3
  MaxTfAsked = 3
  NoCall = NoCall
  Command_ = {"play"}
  MaxAttempts = 1
  MaxMessages = 3
  MaxConnects = 1
  Pad = {"dj", "live", "stats", "free"}
  NoPad = NoPad
  Mapped = {"dj", "live", "stats"}
  Destructive = {"dj", "live"}
  Known = {"dj", "stats"}
SPECIFICATION TfSpec
INVARIANT StopRestores
CHECK_DEADLOCK FALSE
