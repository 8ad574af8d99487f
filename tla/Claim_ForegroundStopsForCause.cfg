SPECIFICATION Spec
CONSTANTS
    MAXJOBS = 2
    Pid = {1, 2}
    MaxKeys = 0
    MaxExt = 1
PROPERTY
    ForegroundStopsForCause
