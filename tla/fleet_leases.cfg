SPECIFICATION Spec
CONSTANTS
  m1 = m1
  m2 = m2
  m3 = m3
  j1 = j1
  j2 = j2
  u1 = u1
  u2 = u2
  siteA = siteA
  siteB = siteB
  NoMachine = NoMachine
  NoJob = NoJob
  NoUser = NoUser
  NoSched = NoSched
  NoSite = NoSite
  NoCtrl = NoCtrl
  NoRow = NoRow
  Machines <- MCMachines3
  Jobs = {j1, j2}
  Users = {u1}
  Sites = {siteA, siteB}
  Schedulers = {s1}
  Ctrls = {}
  SiteOf <- TwoSites
  SiteOfCtrl <- CtrlAtA
  MaxJobs <- LimitTwo
  Need <- OneOrTwo
  Owner <- OwnedByU1
  Wish <- NamesAcross
  BurstJobs = 1
  MaxCrashes = 0
INVARIANTS RunningJobHoldsMachines JobAtOneSite
