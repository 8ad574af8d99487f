SPECIFICATION FairSpec
CONSTANTS
    MAXJOBS = 1
    Pid = {1}
    MaxKeys = 0
    MaxExt = 0
PROPERTY
    FgWaitsForItsJob
