\* A full queue when the duration is over.
CONSTANTS
    Cams = {c1}
    QueueSize = 1
    Modes = {"stealth"}
    MaxFrames = 4
SPECIFICATION FairSpec
PROPERTIES
    TimedSessionEnds
