CONSTANTS
    Raw = {0, 3}
    Known = {1}
    TypedFactors = {0, 4}
    DefaultFactor = 3
    Step = 3
    MaxFactor = 1
    Kegs = {4}
    DefaultKeg = 4
    WeighInterval = 2
    PostInterval = 3
    GetInterval = 1
    MaxBlock = 2
    Debounce = 1
    Block = 3
    Period = 6
    Users = {"owner", "brewer"}
SPECIFICATION Spec
INVARIANTS TypeOK FactorInEffect   KegInForce
PROPERTIES ZeroOnlyByHand PostedSinceTare KeepsSending
