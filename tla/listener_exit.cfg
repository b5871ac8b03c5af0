\* ESC before two packets have been accepted.
CONSTANTS
    Epoch = 4
    Packets <- RecordPackets
    SeqMod = 4
    MaxTransit = 2
    HwLatency = 1
    RecTime = 0
    Recording = FALSE
    StartTime = 5
    MaxTime = 11
    MaxArrivals = 2
SPECIFICATION Spec
INVARIANTS
    EscExitsCleanly
