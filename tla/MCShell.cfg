SPECIFICATION Spec
CONSTANTS
    MAXJOBS = 2
    Pid = {1, 2}
    MaxKeys = 1
    MaxExt = 1
INVARIANTS
    TypeOK
    NoForgottenChild
    AtMostOneForeground
    NoForegroundAtPrompt
    ExitedJobLeavesList
PROPERTY
    ImplementsJobControl
