SPECIFICATION FairSpec
CONSTANTS
    Start = Start
    End = End
    Zero = End
    Idle = Idle
    Byte <- MCByte
    ReplyByte <- MCReplyByte
    Size = 3
    MaxReply = 2
INVARIANTS FifosConsistent TestStaysTrue NoLostWakeup FoundIsThere
PROPERTIES LinkSpec QueuedBytesLeave FloodEnds
