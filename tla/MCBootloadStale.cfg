SPECIFICATION Spec
CONSTANTS
    a = a
    b = b
    Zero = Zero
    Erased = Erased
    NoCrc = NoCrc
    Invalid = Invalid
    Chunks = 2
    FlashPages = 3
    Data <- MCData
    Image <- MCImage
    OldImage <- MCOldImage
    Lossy <- MCAllFrames
    Premature = FALSE
    MaxRetries = 1
    MaxLoads = 1
    MaxQuits = 0
    MaxLosses = 0
    MaxResets = 1
    MaxAsked = 0
CHECK_DEADLOCK FALSE
INVARIANT ApplicationValid
