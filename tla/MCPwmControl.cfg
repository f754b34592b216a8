SPECIFICATION FairSpec
CONSTANTS
    Base = 4
    PwmSetMin = 2
    PwmSetMax = 9
    Levels = 3
    LevelStep = 4
    SlopeThrottle = 1
    SpeedSteps <- MCSpeedSteps
    Drop = 5
    Nudge = 6
    PedalMax = 3
    PedalUse = 1
    PedalKeep = 1
    StrainLong = 2
    StrainShort = 1
INVARIANTS AppliedInLimits
PROPERTIES LessNeverRaises PedalEnds
