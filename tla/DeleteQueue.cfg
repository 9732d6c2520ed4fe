SPECIFICATION Spec
CONSTANTS
    Threads = {t1, t2}
    NoThread = NoThread
    Dwpts = {d1, d2}
    NoDwpt = NoDwpt
    Keys = {k1}
    NoKey = NoKey
    LockedCalls = {"freeze", "clear", "force"}
    MaxBlock = 1
    MaxSeqNo = 3
    MaxCuts = 2
    MaxFailed = 1
    PutReplaces = TRUE
CONSTRAINT MCBound
SYMMETRY MCSymmetry
INVARIANTS TypeOK LiveDocsFollowSeqNos PacketsPartitionDeletes AnyChangesExact
PROPERTY RefinesSequencedUpdates
\* Every call may have been made: the bounds end a behaviour.
CHECK_DEADLOCK FALSE
