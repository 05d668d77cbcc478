SPECIFICATION FairSpec
CONSTANTS
  r1 = r1
  r2 = r2
  b1 = b1
  p1 = p1
  p2 = p2
  Rec = {r1, r2}
  Bad = {}
  Part = {p1, p2}
  PartOf <- MCPartOf
  MaxSeg = 5
  Faults = {"create"}
  MaxMishaps = 1
PROPERTY EventuallyPublished
