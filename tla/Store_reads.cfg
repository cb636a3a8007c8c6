SPECIFICATION StoreSpec
CONSTANTS
  k1 = k1
  k2 = k2
  StoreKeys = {k1, k2}
  TombKeys = {k1}
  RingSize = 2
  SegmentCap = 2
  MaxOps = 4
INVARIANTS
  ReadsAreComplete
