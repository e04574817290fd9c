CONSTANTS
    Grams <- ClockGrams
    Recalibrated <- OtherFactor
    PourDelta = 30
    ZeroDeadband = 15
    PourSettle = 1
    PourArmDelay = 2
    SendInterval = 2
    Period = 8
    MaxGap = 2
SPECIFICATION Spec
INVARIANTS TypeOK PourFromBaseline StaleBound
PROPERTIES NoPourWhileArming
