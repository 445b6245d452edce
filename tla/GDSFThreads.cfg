\* Two threads share the unlocked index; their batches together take all of it
CONSTANTS
    Threads = {t1, t2}
    Keys = {1, 2, 3, 4, 5, 6}
    Costs = {}
    Placeholder = True
    Size <- MCUnitSize
    Unit = 1
    MaxSize = 4
    CleanParam = 2
    Batches <- MCBatches
    MaxPushes = 7
SPECIFICATION FairSpec
INVARIANTS
    CapacityOvershoot
    EveryEvictionReported
PROPERTY PutTerminates
