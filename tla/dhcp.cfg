SPECIFICATION Spec
CONSTANTS
  h1 = h1
  h2 = h2
  j1 = j1
  j2 = j2
  NumAddrs = 2
  Hosts = {h1, h2}
  CloudHosts = {h2}
  Jobs = {j1, j2}
  MacOf <- TwoJobs
  Threads = {t1, t2}
  Cleaners = {c1, c2}
  ClientLease = 1
  TrueLease = 1
  Blacklist = 1
  MaxAtWork = 2
  NoMac = NoMac
  NoAddr = NoAddr
  NoJob = NoJob
  NoHost = NoHost
  NoOne = NoOne
  Invalid = Invalid
  Rpc = Rpc
INVARIANTS TypeOK NoAddressShared HeldIsReserved NoAddressLost
PROPERTIES ImplementsPool
CONSTRAINT FewAtWork
SYMMETRY Symm
CHECK_DEADLOCK FALSE
