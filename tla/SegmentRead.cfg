SPECIFICATION Spec
CONSTANTS
  Chars <- MCChars
  U16Max = 3
  Magic = 50
  Version = 51
  Rows <- MCRows
  Wire <- MCWire
  Series <- S
  Keys <- MCKeys
  NotNull <- MCNotNull
  TsMin = 2
  TsMax = 5
  Limits = {12, 26}
  Cap = 24
  Garble = {99}
  Faults = {"damage", "history", "aside", "reject"}
  MaxAppends = 2
  MaxFlush = 2
  MaxMishaps = 1
INVARIANTS AllSeen NothingInvented Reencodes ReadableOnceRecovered TornIsNotCorrupt CellsAccounted CapHeld
CHECK_DEADLOCK FALSE
