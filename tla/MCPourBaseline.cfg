CONSTANTS
    Grams <- KegGrams
    Recalibrated <- NoRecalibration
    PourDelta = 30
    ZeroDeadband = 15
    PourSettle = 1
    PourArmDelay = 1
    SendInterval = 2
    Period = 4
    MaxGap = 1
SPECIFICATION Spec
PROPERTIES BaselineFollows
