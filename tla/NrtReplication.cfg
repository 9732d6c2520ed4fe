CONSTANTS
  n1 = n1
  n2 = n2
  n3 = n3
  NoNode = NoNode
  Nodes = {n1, n2, n3}
  FirstPrimary = n1
  MaxName = 4
  Workloads <- MCWorkloads
SPECIFICATION FairSpec
INVARIANTS TypeOK ReplicasShowPoints CommitSurvives FilesAccounted
PROPERTY CatchesUp
CHECK_DEADLOCK FALSE
