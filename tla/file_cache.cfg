SPECIFICATION FairSpec
CONSTANTS
  Procs = {p1, p2, m}
  Manual = {m}
  Inodes = {i1, i2, i3}
  MaxCalls = 1
  NoFile = NoFile
  NoMark = NoMark
  Empty = Empty
INVARIANTS TypeOK MarkMeansFetching
PROPERTIES GivenStays PublishedWhole WaitEnds
CHECK_DEADLOCK FALSE
