--------------------------- MODULE MCPendingDocs ---------------------------
\* Instances of PendingDocs for TLC.
EXTENDS PendingDocs, TLC

CONSTANTS t1, t2

Workload(docs, failedDocs, failures, packetsN, mergesN, drops, adds, deleteAlls, rollbacks) ==
  [docs |-> docs, failedDocs |-> failedDocs, failures |-> failures, packets |-> packetsN,
   merges |-> mergesN, drops |-> drops, adds |-> adds, deleteAlls |-> deleteAlls,
   rollbacks |-> rollbacks]

MCWorkloads == {
  Workload(3, 1, 1, 0, 0, 0, 1, 0, 1),   \* the limit, failures, addIndexes and rollback
  Workload(2, 1, 1, 2, 1, 1, 0, 0, 1),   \* packets and merges, failures and rollback
  Workload(3, 0, 0, 0, 1, 0, 0, 1, 0),   \* deleteAll while documents are flushed and merged
  Workload(2, 0, 0, 1, 1, 1, 0, 1, 0),   \* deleteAll with packets and merges
  Workload(2, 1, 1, 1, 0, 0, 0, 1, 0)}   \* deleteAll with failures, whose rollback overtakes it

Symmetry == Permutations(Threads)
=============================================================================
