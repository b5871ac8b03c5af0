\* One camera, on a host whose local time is ahead of UTC.
CONSTANTS
    Cams = {c1}
    Starts = {0, 1}
    UtcOffset = 1
    Sessions = 1
SPECIFICATION Spec
INVARIANTS
    AlignedStreams
CHECK_DEADLOCK FALSE
