\* Two sessions with two cameras, on a host whose local time is UTC.
CONSTANTS
    Cams = {c1, c2}
    Starts = {0, 1}
    UtcOffset = 0
    Sessions = 2
SPECIFICATION FairSpec
INVARIANTS
    AlignedStreams
PROPERTIES
    OwnFilesJoined
    NoVideoDiscarded
    SyncEnds
CHECK_DEADLOCK FALSE
