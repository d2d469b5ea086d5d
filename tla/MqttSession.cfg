SPECIFICATION FairSpec
CONSTANTS
    NComponents = 2
    PingAfter = 3
    TurnMax = 2
    BrokerLimit = 5
INVARIANTS
    TypeOK
    OnlineMeansReachable
    OnlineMeansDiscovered
    KeepAliveKept
PROPERTIES
    OfflineShown
    Recovers
    ImplementsPresence
