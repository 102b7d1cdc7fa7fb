SPECIFICATION Spec
CONSTANTS
  one = one
  NoFile = NoFile
  File = {one}
  Rate <- TwoFrames
  JudgedFrom = 2
  Share = 2
  Ramp = 50
  Width = 4
  MaxTime = 5
  MaxPauses = 2
  MaxTrouble = 2
INVARIANTS ClockSkipsPauses OffsetIsPlace ClocksAgree 
PROPERTY OffsetsStay
