\* Two threads, a crash and a call that raises
CONSTANTS
    MaxSize = 2
    CleanSize = 2
    MaxMarkCount = 2
    RateNum = 1
    RateDen = 3
    RebuildCondition = 2
    Threads = {t1, t2}
    BootThread = t1
    MaxBatch = 1
    MaxSaves = 4
    MaxCrashes = 1
    MaxFailures = 1
SPECIFICATION Spec
INVARIANTS
    IndexAgreesWithTable
    RowBeingPutIsLive
