\* One saving thread and one reader over each store.
CONSTANTS
    Stores <- MCStores
    Readers = {"r1"}
    DataCheck = TRUE
    MaxSize = 2
    CleanSize = 1
    RateNum = 1
    RateDen = 3
    RebuildCondition = 2
    MaxElements = 6
    MaxSaves = 8
    MaxRestarts = 2
    MaxLookups = 1
SPECIFICATION Spec
INVARIANTS  NoOrphans HnswRoom RaisingLeaks
