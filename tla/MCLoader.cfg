SPECIFICATION LoaderFairSpec
CONSTANTS
    LineMax = 2
    PageBytes = 4
    Bad = Bad
    Pairs <- MCPairs
    Files <- MCFiles
    Left <- MCLeft
    Zero <- MCZero
    Erased <- MCErased
    NoCrc = NoCrc
    Invalid = Invalid
    Chunks = 2
    FlashPages = 2
    Data <- MCData
    Image <- MCImage
    ButtonImage <- MCButtonImage
    OldImage <- MCOldImage
    Lossy <- MCWrites
    Premature = FALSE
    Tries = 2
    MaxCommands = 3
    MaxTroubles = 4
    MaxRetries = 4
    MaxLoads = 1
    MaxQuits = 0
    MaxLosses = 3
    MaxResets = 0
    MaxAsked = 2
CHECK_DEADLOCK FALSE
INVARIANTS StoredIsTrue HexReads
PROPERTIES LoopsReturn UploadSurvives
