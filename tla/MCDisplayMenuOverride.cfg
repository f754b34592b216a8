SPECIFICATION Spec
CONSTANTS
    Limit <- MCLimit
    Initial <- MCInitial
    Currents <- MCCurrents
    Thresholds <- MCThresholds
    Modes = 2
    HoldOverride = 0
    HoldCalibrate = 1
    HoldReturn = 2
    HoldMenu8 = 3
    Timeout = 2
    DownMax = 4
    OfflineMax = 2
    CountMod = 4
    OverrideMax = 1
PROPERTY OverrideByPressing
