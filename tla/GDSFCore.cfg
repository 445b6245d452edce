\* One thread, getsizeof given, one object per call: the bookkeeping of the heap
CONSTANTS
    Threads = {t1}
    Keys = {k1, k2, k3}
    Costs = {1, 2, 9}
    Placeholder = True
    Size <- MCSize
    Unit = 4
    MaxSize = 3
    CleanParam = 2
    Batches <- MCSingles
    MaxPushes = 6
SPECIFICATION Spec
SYMMETRY KeySymmetry
INVARIANTS
    HeapCoversCache
    PrioritiesAboveInflation
PROPERTIES
    InflationNeverFalls
    ImplementsPriorityCache
