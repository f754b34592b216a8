SPECIFICATION FairSpec
CONSTANTS
    EscapeChr = 5
    EscapeMax = 2
    Version = 1
    DataMax = 3
    Size = 17
    Messages <- MCMessages
    Crc <- MCCrc
    MaxNoise = 2
    MaxOwed = 4
INVARIANTS TypeOK AllHandled Recovers
PROPERTY NeverJams
