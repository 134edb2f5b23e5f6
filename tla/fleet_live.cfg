SPECIFICATION ScheduledSpec
CONSTANTS
  m1 = m1
  m2 = m2
  m3 = m3
  j1 = j1
  j2 = j2
  u1 = u1
  u2 = u2
  siteA = siteA
  siteB = siteB
  NoMachine = NoMachine
  NoJob = NoJob
  NoUser = NoUser
  NoSched = NoSched
  NoSite = NoSite
  NoCtrl = NoCtrl
  NoRow = NoRow
  Machines <- MCMachines3
  Jobs = {j1, j2}
  Users = {}
  Sites = {siteA}
  Schedulers = {}
  Ctrls = {c1}
  SiteOf <- OneSite
  SiteOfCtrl <- CtrlAtA
  MaxJobs <- LimitTwo
  Need <- OneOrTwo
  Owner <- OwnedByU1
  Wish <- NamesApart
  BurstJobs = 1
  MaxCrashes = 1
PROPERTIES DoneJobFreesMachines RemovedJobEnds ScheduledIsStarted DeadHarnessNoticed
