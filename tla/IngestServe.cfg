SPECIFICATION FairSpec
CONSTANTS
  r1 = r1
  r3 = r3
  Rec = {r1, r3}
  Size <- MCSize
  Batch = 2
  Configured = 5
  Limits <- MCLimits
  OnFull = "Drop"
  SndHwm = 1
  RcvHwm = 2
  MaxPoll = 1
  MaxReq = 2
  MaxStart = 2
  Faults = {"send", "flood", "refuse", "crash"}
INVARIANTS LimitRespected Accounted
PROPERTIES ControlAnswered ServerStops
CHECK_DEADLOCK FALSE
