\* Two caches, two callers, questions of which neighbours are similar.
CONSTANTS
    A = A
    B = B
    Threads = {"t1", "t2"}
    Depth = 2
    Questions <- Line
    Sessions <- NoSessions
    NoSession = NoSession
    NoAnswer = NoAnswer
    Raised = Raised
    Requests <- ChainRequests
    MinRank = 0
    MaxRank = 4
    Threshold = 75
    Radius = 1
    TopK = 1
    AutoFlush = 2
    MaxRows = 4
    MaxFailures = 0
SPECIFICATION Spec
INVARIANTS AnswerWithinDrift StoredInFirst HitReachesCaller
