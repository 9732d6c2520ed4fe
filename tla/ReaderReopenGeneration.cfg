SPECIFICATION Spec
CONSTANTS
    t1 = t1
    t2 = t2
    Reopener = Reopener
    None = None
    Threads = {t1, t2}
    MaxGen = 2
    MaxCalls = 2
    MaxFails = 0
INVARIANTS SearchingGenIsIncluded
CHECK_DEADLOCK FALSE
