\* Four requests, every kind of rule; sockets and buffers that both wedges fill.
CONSTANTS
    Requests <- MCRequests
    RuleLists <- MCRuleLists
    SocketRoom = 2
    HighWater = 2
    ReadLimit = 0
    IcRespPlen = 5
    CapsulePlen = 5
SPECIFICATION FairSpec
INVARIANTS OnlyRulesDiffer EndToEnd
PROPERTIES Delivery CloseSpreads
CHECK_DEADLOCK FALSE
