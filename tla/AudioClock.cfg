SPECIFICATION Spec
CONSTANTS
  Tick = 2
  Levels = {"zero", "sound"}
  Block = {1, 2, 3}
  NoBlock = 0
  Capacity = 2
  Prime = 2
  Advance = {0, 2, 4}
  Composite = TRUE
  MaxCaptures = 3
  MaxFills = 3
INVARIANTS JumpsAddUp LongestSilenceIsReal
CHECK_DEADLOCK FALSE
