CONSTANTS
    Ids = {1}
    ReconnectInterval = 2
    PingInterval = 2
    Period = 5
    MaxGap = 1
    MaxInbox = 2
    MaxFaults = 2
SPECIFICATION FairSpec
INVARIANTS TypeOK AuthSound SnapshotSent  KeepAlive
PROPERTIES  DeadPeerNoticed Recovers
