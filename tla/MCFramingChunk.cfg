SPECIFICATION Spec
CONSTANTS
    EscapeChr = 248
    EscapeMax = 7
    Version = 1
    DataMax = 128
    Size = 128
    Messages <- MCMessages
    Crc <- MCCrc
    MaxNoise = 0
    MaxOwed = 3
INVARIANT AllHandled
