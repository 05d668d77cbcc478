SPECIFICATION FairSpec
CONSTANTS
  MaxFrame = 3
  MaxSeg = 8
  BufCap = 3
  SegMax = 4
  Faults = {"write", "fsync", "create", "leftover", "close"}
  MaxMishaps = 2
INVARIANTS SealedDurable
PROPERTIES EventuallyDurable AppendsResume CloseReturns
