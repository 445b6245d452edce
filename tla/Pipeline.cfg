\* Each pre-processor and each evaluation, two threads, three requests.
CONSTANTS
    t1 = t1
    t2 = t2
    Threads = {t1, t2}
    Chats <- MCChats
    Inputs <- MCInputs
    Given <- MCGiven
    Configs <- MCConfigs
    Threshold = 80
    TopK = 1
    Prompts = {"p"}
    ContextLen = 1
    Weights <- MCWeights
    TargetLength = 3
    TimeRange = 1
    UtcAhead = 1
    Marker = "m"
    MaxRequests = 3
    MaxClock = 3
SPECIFICATION Spec
SYMMETRY ThreadSymmetry
INVARIANTS TextOfOneRequest AnswerForSameView MarkerNotSaved
PROPERTIES RepeatServed FreshAnswers
