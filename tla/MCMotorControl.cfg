SPECIFICATION FairSpec
CONSTANTS
    h1 = h1
    h2 = h2
    Hall = {h1, h2}
    BadHall = BadHall
    Off = Off
    Startup = 5
    Period = 2
    OfflineMax = 2
    CountMod = 4
INVARIANTS SectorFollowsHall DriveStops
PROPERTIES ChosenBeforeDrive CalmBeforeDrive FaultsClear
