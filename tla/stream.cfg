\* A talker, a lossy network and a listener over an epoch boundary at 8.
CONSTANTS
    Epoch = 4
    Packets <- StreamPackets
    SeqMod = 2
    MaxTransit = 2
    HwLatency = 1
    RecTime = 0
    Recording = FALSE
    StartTime = 5
    MaxTime = 9
    MaxArrivals = 4
    MaxFrames = 4
SPECIFICATION StreamSpec
INVARIANTS
    PlayedInOrder
    DropsNotOvercounted
    DropsCounted
PROPERTIES
    RecoveredModuloEpoch
    BurstStartsWhenDue
