SPECIFICATION FairSpec
CONSTANTS
    Header = Header
    p = p
    q = q
    r = r
    None = None
    Byte <- MCByte
    Frames <- MCFrames
    RxMax = 5
    Gaps = {1, 2}
    MaxNoise <- MCMaxNoise
    MaxOwed = 3
INVARIANTS InOrder Recovers UsedWasChecked UsedWasSent
PROPERTY MessageUsed
