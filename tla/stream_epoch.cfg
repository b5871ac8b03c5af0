\* Packets due and arriving on different sides of an epoch boundary.
CONSTANTS
    Epoch = 4
    Packets <- StreamPackets
    SeqMod = 4
    MaxTransit = 2
    HwLatency = 1
    RecTime = 0
    Recording = FALSE
    StartTime = 5
    MaxTime = 9
    MaxArrivals = 4
    MaxFrames = 2
SPECIFICATION StreamSpec
PROPERTIES
    LateMeansLate
