SPECIFICATION Spec
CONSTANTS
  NonData = 3
  BlockAlign = 2
  Unknown = 9
  MaxFrames = 2
  MaxData = 12
INVARIANTS FileAlwaysOpens ClosedMeansWhole WholeFrames
CHECK_DEADLOCK FALSE
