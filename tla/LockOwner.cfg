SPECIFICATION FairSpec
CONSTANTS
  Proc = {p1, p2, p3}
  Stale = 3
  Absent = absent
  Empty = empty
  HazardSets = {{}, {"overlap", "stall", "force"}}
  MaxMishaps = 3
INVARIANTS OneEngine RemovesOwn CleanExit
PROPERTIES SelfHeals
