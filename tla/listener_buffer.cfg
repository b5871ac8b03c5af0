\* Buffer, packet timer and playback: every presentation time of an epoch of
\* four ticks, the clock over two epoch boundaries, three frames, no recording.
\* MaxTime is the end of an epoch, so every time a packet is scheduled for is
\* reached.
CONSTANTS
    Epoch = 4
    Packets <- BufferPackets
    SeqMod = 4
    MaxTransit = 2
    HwLatency = 1
    RecTime = 0
    Recording = FALSE
    StartTime = 3
    MaxTime = 11
    MaxArrivals = 3
SPECIFICATION FairSpec
INVARIANTS
    TypeOK
    NoEmptyPlay
    TimerReadReady
    BufferInv
PROPERTIES
    StartNotEarly
    ImplementsPlayout
    BufferDrains
