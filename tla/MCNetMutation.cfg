\* The packets of the cases that ask for a wrong checksum.
CONSTANTS
    NCases = 6
    CaseIndex <- MCIndex
    Campaign <- MCCampaign
    ShardCount = 2
    ShardIndex = 0
    NoLimit = NoLimit
    Limit = 3
    DefaultRoutes <- MCRoutes
    Configs <- MCPcapConfigs
SPECIFICATION Spec
INVARIANT MutationReachesPacket
