CONSTANTS
  t1 = t1
  t2 = t2
  t3 = t3
  None = None
  Threads = {t1, t2}
  MaxSegmentCount = 1
  AtOnce = 2
  BigSize = 3
  MaxMerges = 8
  Workloads <- MCWorkloads
SPECIFICATION FairSpec
INVARIANTS TypeOK MergesOwnSegments
PROPERTIES ForceMergeIsDone CallsEnd
CHECK_DEADLOCK FALSE
