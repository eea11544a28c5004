\* A second run into the directory of an earlier, complete one.
CONSTANTS
    NCases = 4
    CaseIndex <- MCSequential
    ShardCount = 1
    ShardIndex = 0
    Workers = 2
    InflightPerWorker = 1
    NoLimit = NoLimit
    Limit = 3
    Verdicts = {"PASS", "FAIL"}
    Prior <- MCFirstTwo
SPECIFICATION Spec
INVARIANT InspectFindsLoss
