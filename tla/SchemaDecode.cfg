SPECIFICATION Spec
CONSTANTS
  Layouts <- MCLayouts
  Rows <- MCRows
  Absent = Absent
  Stale = Stale
  MaxEpoch = 2
  MaxFrames = 2
  Faults = {"commit", "view", "crash", "power"}
  MaxMishaps = 2
INVARIANTS SchemaInv DecodedAsEncoded NoneUnknown OneTypePerKey ViewSpansEras
CHECK_DEADLOCK FALSE
