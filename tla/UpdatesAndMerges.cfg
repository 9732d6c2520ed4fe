SPECIFICATION Spec
CONSTANTS
    Keys = {k1}
    Opened = 2
    Workloads <- MCWorkloads
INVARIANTS TypeOK DeletesExact UpdatesInOrder
CHECK_DEADLOCK FALSE
