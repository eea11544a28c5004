\* One worker: the cases run in the main process; one of two shards.
CONSTANTS
    NCases = 6
    CaseIndex <- MCSequential
    ShardCount = 2
    ShardIndex = 1
    Workers = 1
    InflightPerWorker = 4
    NoLimit = NoLimit
    Limit = 2
    Verdicts = {"PASS", "FAIL"}
    Prior <- MCNone
SPECIFICATION Spec
INVARIANTS LimitRespected
