SPECIFICATION Spec
CONSTANTS
    MAXJOBS = 2
    Pid = {1, 2}
    MaxKeys = 1
    MaxExt = 0
INVARIANT
    OneJobPerKey
