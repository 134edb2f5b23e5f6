SPECIFICATION FairSpec
CONSTANTS
  Procs = {p1}
  Cleaners = {c1, c2}
  Timeout = 0
  ByName = TRUE
  CleanAge = 1
  MaxUses = 2
  MaxCrashes = 1
  NoProc = NoProc
PROPERTIES LeftOverReclaimed
CHECK_DEADLOCK FALSE
