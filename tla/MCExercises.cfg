SPECIFICATION FairSpec
CHECK_DEADLOCK FALSE
CONSTANTS
    MaxPid = 4
    MaxTyped = 2
    FileSize = 2
INVARIANTS
    OutputIsPossible
    NoLostChild
    MaskOnlyInHandlers
    ChildrenAreKnown
    EachThreadItsMessage
PROPERTY
    ExerciseEnds
