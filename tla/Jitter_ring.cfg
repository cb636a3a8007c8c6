SPECIFICATION Spec
CONSTANTS
  W = 3
  R = 2
  S = 1
  LMin = 0
  LInit = 0
  LMax = 1
  HMin = 0
  HInit = 1
  HMax = 1
  WindowReads = 2
  WidenThreshold = 1
  WidenStep = 1
  NarrowStep = 1
  WriteSizes <- MCWriteSizes
  ReadSizes = {2}
  MaxFrames = 36
CHECK_DEADLOCK FALSE
INVARIANTS
  IntactAudio
  SnapsAreApart
  FillNeverNegative
