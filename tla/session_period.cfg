\* A sound card that does not support the period asked for.
CONSTANTS
    Second = 96000
    Word = 256
    SizeMod = 8
    Epoch = 64
    Setups <- OnePair
    StartTime = 10
    MaxTime = 15
    MaxPackets = 2
SPECIFICATION SessionSpec
INVARIANTS
    PayloadIsOnePeriod
CHECK_DEADLOCK FALSE
