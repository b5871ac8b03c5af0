\* Two cameras, a queue of two, three frames each (the first is ignored),
\* with and without a duration and windows.
CONSTANTS
    Cams = {c1, c2}
    QueueSize = 2
    Modes = {"stealth", "timed", "free"}
    MaxFrames = 3
SPECIFICATION FairSpec
INVARIANTS
    TypeOK
    VideoInOrder
    VideoFramesStamped
    NameIsFirstUnlessLost
    MarkerIsLast
    EndedCameraIsComplete
PROPERTIES
    SessionWindsUp
