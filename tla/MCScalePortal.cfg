CONSTANTS
    Raw = {0, 2, 4}
    Known = {1, 2}
    Others = {1, 2}
    DefaultEmpty = 1
    DefaultOther = 1
    PortalFactors <- PortalFactor
SPECIFICATION Spec
INVARIANTS ConfigInEffect
