SPECIFICATION Spec
CONSTANTS
  MaxFrame = 2
  MaxSeg = 4
  BufCap = 3
  SegMax = 4
  Faults = {"crash", "power"}
  MaxMishaps = 2
INVARIANT BeforeTailWhole
