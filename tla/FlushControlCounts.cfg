SPECIFICATION Spec
CONSTANTS
    Threads = {t1, t2}
    Main = Main
    NoThread = NoThread
    MaxBufferedDocs = 2
    RamLimit = 0
    DocBytes = 1
    BigDocBytes = 1
    HardMaxBytesPerDWPT = 5
    CheckPendingFlush = TRUE
    MainCalls = {"fullFlush"}
    MaxDocs = 4
    MaxFailed = 1
    MaxFlushNext = 1
    MaxMain = 1
SYMMETRY MCSymmetry
INVARIANTS TypeOK CountersBalance FullFlushIsComplete
CHECK_DEADLOCK FALSE
