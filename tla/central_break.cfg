SPECIFICATION FairSpec
CONSTANTS
  Procs = {p1, p2}
  Cleaners = {}
  Timeout = 2
  ByName = FALSE
  CleanAge = 1
  MaxUses = 2
  MaxCrashes = 1
  NoProc = NoProc
INVARIANTS UnbrokenWhileMarked
PROPERTIES StaleLockBroken LookingEnds
CHECK_DEADLOCK FALSE
