SPECIFICATION Spec
CONSTANTS
  Procs = {p1, p2, p3}
  Cleaners = {}
  Timeout = 0
  ByName = FALSE
  CleanAge = 1
  MaxUses = 2
  MaxCrashes = 1
  NoProc = NoProc
INVARIANTS TypeOK HolderOnDisk ExitLeavesNothing
PROPERTIES ImplementsLock
SYMMETRY Symm
CHECK_DEADLOCK FALSE
