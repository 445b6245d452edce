\* One thread, crashes and store calls that raise at any step
CONSTANTS
    MaxSize = 2
    CleanSize = 1
    MaxMarkCount = 2
    RateNum = 1
    RateDen = 3
    RebuildCondition = 2
    Threads = {t1}
    BootThread = t1
    MaxBatch = 2
    MaxSaves = 6
    MaxCrashes = 2
    MaxFailures = 1
SPECIFICATION FairSpec
INVARIANTS
    MarksBounded
    NoWrongAnswer
    FlushedStaysFindable
PROPERTY CallsEnd
