\* Two clients over the default cache: streams, batches, moderation, drops.
CONSTANTS
    K = K
    L = L
    A = A
    B = B
    Keys = {K, L}
    Sessions = {A, B}
    NoSession = NoSession
    MaxSize = 2
    t1 = t1
    t2 = t2
    Threads = {t1, t2}
    Requests <- PassRequests
    Chunks = 2
    Raised = Raised
    None = None
    AutoFlush = 2
    MaxCalls = 3
    MaxFaults = 2
SPECIFICATION Spec
SYMMETRY Symmetry
INVARIANTS WholeAnswers EndOfStreamMeansSaved AnswerOncePerSession DropForgets
