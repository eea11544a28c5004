\* Every operation and configuration; five of six cases of the shard, a limit of three.
CONSTANTS
    NCases = 6
    CaseIndex <- MCIndex
    Campaign <- MCCampaign
    ShardCount = 2
    ShardIndex = 0
    NoLimit = NoLimit
    Limit = 3
    DefaultRoutes <- MCRoutes
    Configs <- MCAllConfigs
SPECIFICATION Spec
INVARIANTS TypeOK WireConsent LossShows OutputMatchesBooks PacketsAsBuilt
PROPERTY KeepsPromise
