\* Five cases, four of the shard, a limit of three, two hangs open the fuse.
CONSTANTS
    NCases = 5
    CaseIndex <- MCIndex
    DirOf <- MCDirs
    ShardCount = 2
    ShardIndex = 0
    NoLimit = NoLimit
    Limit = 3
    MaxConsecutiveTimeouts = 2
    Interval = 2
    Durations = {0, 1}
    Leftovers <- MCLeftovers
    Configs <- MCConfigs
SPECIFICATION Spec
INVARIANTS TypeOK FuseHolds EvidenceFirst ConsentFirst Paced StopExplained
PROPERTY KeepsPromise
