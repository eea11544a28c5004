\* The files of a run that an exception ended.
CONSTANTS
    NCases = 5
    CaseIndex <- MCIndex
    DirOf <- MCDirs
    ShardCount = 2
    ShardIndex = 0
    NoLimit = NoLimit
    Limit = 3
    MaxConsecutiveTimeouts = 2
    Interval = 2
    Durations = {0, 1}
    Leftovers <- MCLeftovers
    Configs <- MCConfigs
SPECIFICATION Spec
INVARIANT EveryRunSummarised
