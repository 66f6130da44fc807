SPECIFICATION Spec
CONSTANTS
    Ranks <- PairRanks
    HostStagedTP = TRUE
    PeerPath = FALSE
    GlooTakesUneven = TRUE
    UseDeviceCommunicator = TRUE
    UseMq = FALSE
    Requests <- BroadcastRequests
    Values = {3, 4}
    MaxCalls = 1
INVARIANT EveryCollectiveIsStaged
