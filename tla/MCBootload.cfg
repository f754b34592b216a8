SPECIFICATION EagerSpec
CONSTANTS
    a = a
    b = b
    Zero = Zero
    Erased = Erased
    NoCrc = NoCrc
    Invalid = Invalid
    Chunks = 2
    FlashPages = 3
    Data <- MCData
    Image <- MCImage
    OldImage <- MCOldImage
    Lossy <- MCAllFrames
    Premature = TRUE
    MaxRetries = 3
    MaxLoads = 2
    MaxQuits = 1
    MaxLosses = 2
    MaxResets = 2
    MaxAsked = 3
CHECK_DEADLOCK FALSE
INVARIANTS ValidUnlessReset StoredIsTrue VerifiedIsFlashed
