SPECIFICATION Spec
CONSTANTS
  Tick = 2
  Levels = {"sound"}
  Block = {1, 2, 3, 4, 5}
  NoBlock = 0
  Capacity = 3
  Prime = 2
  Advance = {2}
  Composite = FALSE
  MaxCaptures = 5
  MaxFills = 5
INVARIANTS HandoverIsSafe NoJumpsMeansSeamless FileIsFresh LateTickIsAbsorbed
PROPERTY ImplementsDropOldest
CHECK_DEADLOCK FALSE
