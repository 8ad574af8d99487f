SPECIFICATION FairSpec
CONSTANTS
    MAXJOBS = 1
    Pid = {1, 2}
    MaxKeys = 1
    MaxExt = 1
PROPERTIES
    ZombiesAreReaped
    ForegroundReturns
