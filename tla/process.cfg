SPECIFICATION FairSpec
CONSTANTS
    old = old
    new = new
    Processes <- Pods
    Topologies <- BothTopologies
    GiveUp <- Patience
    LeaseDuration <- Expiry
    Limit <- Replacement
    MaxDisturbances = 2
INVARIANTS
    TypeOK
    ListersAreFed
    CachesWillFill
    OneOperatorActs
    LeaseOutlivesLeader
PROPERTIES
    OperatorRuns
