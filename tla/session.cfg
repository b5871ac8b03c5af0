\* Two command lines and two cards; two packets of one to three frames at 96,
\* 48 or 44.1 kHz on a clock of 96000 ticks a second, which passes from one
\* epoch of the timestamps to the next at 14.
CONSTANTS
    Second = 96000
    Word = 256
    SizeMod = 8
    Epoch = 7
    Setups <- AllSetups
    StartTime = 10
    MaxTime = 15
    MaxPackets = 2
SPECIFICATION SessionSpec
INVARIANTS
    KeptIsUnderstood
    PlayedAsCaptured
    TimesModuloEpochs
    NamedAfterFirstSound
    FiguresAreTrue
    LosesAtMostOneFragment
    HeaderDescribesData
    HeaderMatchesStream
PROPERTIES
    ImplementsRecorder
CHECK_DEADLOCK FALSE
