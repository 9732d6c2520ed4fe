SPECIFICATION FairSpec
CONSTANTS
    Threads = {t1, t2}
    Main = Main
    NoThread = NoThread
    MaxBufferedDocs = 0
    RamLimit = 4
    DocBytes = 3
    BigDocBytes = 6
    HardMaxBytesPerDWPT = 20
    CheckPendingFlush = TRUE
    MainCalls = {"fullFlush", "deleteAll"}
    MaxDocs = 3
    MaxFailed = 0
    MaxFlushNext = 0
    MaxMain = 1
INVARIANTS StalledIsCurrent
PROPERTIES CallsReturn
CHECK_DEADLOCK FALSE
