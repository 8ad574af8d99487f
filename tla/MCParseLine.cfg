SPECIFICATION Spec
CHECK_DEADLOCK FALSE
CONSTANTS
    MAXLINE = 9
    MaxLength = 4
    MaxWords = 3
INVARIANTS
    PiecesAreTheInput
    WordsAreMeant
