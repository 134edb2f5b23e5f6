SPECIFICATION Spec
CONSTANTS
  Procs = {p1}
  Cleaners = {c1}
  Timeout = 0
  ByName = FALSE
  CleanAge = 1
  MaxUses = 1
  MaxCrashes = 0
  NoProc = NoProc
PROPERTY RemovesLeftOversOnly
CHECK_DEADLOCK FALSE
