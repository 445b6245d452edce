\* One cache, one caller: sessions, the API functions, aadapt.
CONSTANTS
    A = A
    B = B
    Threads = {"t1"}
    Depth = 1
    Questions <- Pairs
    Sessions <- OneSession
    NoSession = NoSession
    NoAnswer = NoAnswer
    Raised = Raised
    Requests <- SingleRequests
    MinRank = 0
    MaxRank = 4
    Threshold = 75
    Radius = 1
    TopK = 2
    AutoFlush = 2
    MaxRows = 3
    MaxFailures = 1
SPECIFICATION FairSpec
INVARIANTS RowOncePerSession UnflushedBounded ErrorsExplained
PROPERTY RequestsEnd
