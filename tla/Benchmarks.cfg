\* Four prompts for two places, evicted one by one, or three, evicted in twos, two costs, each experiment.
CONSTANTS
    a = a
    b = b
    c = c
    d = d
    Prompts = {a, b, c, d}
    Costs = {1, 2}
    MaxSizes = {2, 3}
    FixedSize = 3
    Few = 2
    CleanPercent = 67
    MaxRequests = 8
SPECIFICATION Spec
SYMMETRY PromptSymmetry
INVARIANTS HarnessInStep NoEarlyEviction StaleEntriesAgeOut
PROPERTY AblationIsolates
