SPECIFICATION Spec
CONSTANTS
  MaxFrame = 3
  MaxSeg = 8
  BufCap = 3
  SegMax = 4
  Faults = {"write", "fsync", "create", "leftover", "close", "closesync",
            "crash", "power"}
  MaxMishaps = 3
INVARIANTS CountersHonest TornOnlyAtEnd
PROPERTIES ImplementsLog
