\* Two packets with different travel times.
CONSTANTS
    Second = 96000
    Word = 256
    SizeMod = 8
    Epoch = 64
    Setups <- Matched
    StartTime = 10
    MaxTime = 15
    MaxPackets = 2
SPECIFICATION SessionSpec
INVARIANTS
    StdIsDeviation
CHECK_DEADLOCK FALSE
