SPECIFICATION FairSpec
CONSTANTS
    Chars <- MCChars
    Files <- MCFiles
    MaxWaiting = 3
INVARIANTS TypeOK WithinLines LexedRight
PROPERTY Ends
CHECK_DEADLOCK FALSE
