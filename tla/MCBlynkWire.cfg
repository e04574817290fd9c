CONSTANTS
    Header = 2
    Buffer = 2
    Window = 4
    Modulus = 7
    Lengths = {1, 2, 3, 5}
    Ids = {1, 2}
    MaxPackets = 2
    MaxOut = 2
    PushEvery = 2
    MaxFaults = 1
SPECIFICATION Spec
INVARIANTS TypeOK AlignedUnlessWrapped   
PROPERTIES StallsOnlyTooLong HalfClosedNoticed ValuesFollow
