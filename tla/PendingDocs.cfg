CONSTANTS
  t1 = t1
  t2 = t2
  Threads = {t1, t2}
  Deleter = Deleter
  Closer = Closer
  None = None
  ActualMaxDocs = 4
  Committed = 1
  AddedDocs = 2
  Workloads <- MCWorkloads
SPECIFICATION Spec
SYMMETRY Symmetry
INVARIANTS TypeOK DocsCounted LimitHolds
