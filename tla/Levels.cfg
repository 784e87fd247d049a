CONSTANTS
  Item <- MCCommand
  N = 3
  Quantum = 2
  Ramp = 3
  Levels = {1, 2}
  Duration = {3}
  SweepLength = 3
  StateSlots = 2
  MaxRequests = 3
  Gains = 1
  Full = 9
  Id = {i1}
  NoId = NoId
  Venue <- MCVenue
  MayFail = FALSE
  Channel = 1
  Knee = 3
  Floor = 8
  Programmes <- MCProgrammes
  Override = {2}
  Linear <- MCLinear
  Threshold = 100
SPECIFICATION MCSpec
PROPERTIES CommandsInOrder StopsOnSilence EndsAreReported HotIsReduced
