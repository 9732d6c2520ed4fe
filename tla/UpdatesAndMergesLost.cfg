SPECIFICATION Spec
CONSTANTS
    Keys = {k1}
    Opened = 2
    Workloads <- MCTwoMerges
INVARIANTS NewestValueWins
CHECK_DEADLOCK FALSE
