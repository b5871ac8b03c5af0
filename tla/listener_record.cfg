\* A timed recording: the file's contents and its name.
CONSTANTS
    Epoch = 4
    Packets <- RecordPackets
    SeqMod = 4
    MaxTransit = 2
    HwLatency = 1
    RecTime = 3
    Recording = TRUE
    StartTime = 5
    MaxTime = 11
    MaxArrivals = 3
SPECIFICATION FairSpec
INVARIANTS
    RecordingIsPrefix
    StampIsFirstPlayed
PROPERTIES
    SessionEnds
