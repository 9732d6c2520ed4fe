SPECIFICATION Spec
CONSTANTS
    Threads = {t1, t2}
    Keys = {k1}
    Kinds = {"update", "deleteQuery"}
    MaxOps = 3
    MaxApply = 1
    MaxFullFlush = 1
    MaxFailed = 1
SYMMETRY MCSymmetry
INVARIANTS TypeOK CommitIsPrefix DeletesExact NoChangeForgotten
CHECK_DEADLOCK FALSE
