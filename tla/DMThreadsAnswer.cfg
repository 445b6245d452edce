\* Two threads, nothing fails
CONSTANTS
    MaxSize = 2
    CleanSize = 1
    MaxMarkCount = 2
    RateNum = 1
    RateDen = 3
    RebuildCondition = 2
    Threads = {t1, t2}
    BootThread = t1
    MaxBatch = 1
    MaxSaves = 6
    MaxCrashes = 0
    MaxFailures = 0
SPECIFICATION Spec
INVARIANT NoWrongAnswer
