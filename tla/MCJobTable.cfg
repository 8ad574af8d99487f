SPECIFICATION ListSpec
CONSTANTS
    MAXJOBS = 4
    Pid = {1, 2, 3, 4}
    MaxJid = 5
INVARIANTS
    DistinctJidsInFirstLap
