CONSTANTS
  Readers = {r1}
  FirstSegments = {0, 1}
  Faults = {"flush", "merge", "livedocs", "write", "sync", "rename", "defer"}
  NoContent = NoContent
  Corrupt = Corrupt
  Workloads <- MCWorkloads
SPECIFICATION Spec
INVARIANTS TypeOK FilesExact CommitsReadable FreshNames NothingToCommit
PROPERTY RefinesDurableIndex
CHECK_DEADLOCK FALSE
