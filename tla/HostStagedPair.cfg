SPECIFICATION Spec
CONSTANTS
    Ranks <- PairRanks
    HostStagedTP = TRUE
    PeerPath = FALSE
    GlooTakesUneven = TRUE
    UseDeviceCommunicator = TRUE
    UseMq = FALSE
    Requests <- PairRequests
    Values = {3, 4}
    MaxCalls = 2
INVARIANT TypeOK
INVARIANT RefusedByAll
PROPERTY ImplementsCollective
PROPERTY EveryCallReturns
