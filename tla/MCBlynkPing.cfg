CONSTANTS
    Ids = {1}
    ReconnectInterval = 2
    PingInterval = 2
    Period = 5
    MaxGap = 1
    MaxInbox = 2
    MaxFaults = 2
SPECIFICATION Spec
INVARIANTS OpenConnectionPinged
