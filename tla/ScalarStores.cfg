\* Two nodes over each store.
CONSTANTS
    p1 = p1
    p2 = p2
    Backends = {"sql", "mongo", "redis", "redis_ttl", "dynamo"}
    Processes = {p1, p2}
    Inserters <- OneRedisInserter
    Sessions = {"a"}
    NoSession = "none"
    MaxInserts = 2
    MaxOps = 5
SPECIFICATION Spec
INVARIANTS OwnRowAndAnswers ServedUntilMarked ClearLeavesNothing
