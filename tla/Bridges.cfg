CONSTANTS
  Capacity = 4
  Quantum = 2
  WriteSizes = {3}
  MaxFrames = 9
  Client = {c1, c2}
  PruneInterval = 2
  Level = {1, 3}
  Frames = 2
  MaxQuanta = 3
SPECIFICATION MCSpec
INVARIANTS WholeUnlessOvertaken ExactUnlessCrossed
PROPERTIES SkipsOnlyWhenLapped NobodyNeglected
