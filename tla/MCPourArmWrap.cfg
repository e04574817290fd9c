CONSTANTS
    Grams <- ClockGrams
    Recalibrated <- NoRecalibration
    PourDelta = 30
    ZeroDeadband = 15
    PourSettle = 1
    PourArmDelay = 2
    SendInterval = 2
    Period = 8
    MaxGap = 1
SPECIFICATION Spec
INVARIANTS ArmWindowBrief
