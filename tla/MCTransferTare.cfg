CONSTANTS
    Raw = {0, 3}
    Known = {1}
    TypedFactors = {0, 4}
    DefaultFactor = 3
    Step = 3
    MaxFactor = 1
    Kegs = {4}
    DefaultKeg = 4
    WeighInterval = 1
    PostInterval = 2
    GetInterval = 1
    MaxBlock = 1
    Debounce = 1
    Block = 3
    Period = 8
    Users = {"brewer"}
SPECIFICATION Spec
INVARIANT TareOncePerPress
