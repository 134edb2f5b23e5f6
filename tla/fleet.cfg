SPECIFICATION Spec
CONSTANTS
  m1 = m1
  m2 = m2
  m3 = m3
  j1 = j1
  j2 = j2
  u1 = u1
  u2 = u2
  siteA = siteA
  siteB = siteB
  NoMachine = NoMachine
  NoJob = NoJob
  NoUser = NoUser
  NoSched = NoSched
  NoSite = NoSite
  NoCtrl = NoCtrl
  NoRow = NoRow
  Machines <- MCMachines2
  Jobs = {j1, j2}
  Users = {}
  Sites = {siteA}
  Schedulers = {s1, s2}
  Ctrls = {c1, c2}
  SiteOf <- OneSite
  SiteOfCtrl <- CtrlAtA
  MaxJobs <- LimitTwo
  Need <- OneOrTwo
  Owner <- OwnedByU1
  Wish <- NoWish
  BurstJobs = 1
  MaxCrashes = 1
INVARIANTS TypeOK RunningJobHoldsMachines HarnessHasItsMachines BusyMachineBelongs JobLaunchedOnce FlagMeansDead
PROPERTIES AllocSpec
SYMMETRY Symm
