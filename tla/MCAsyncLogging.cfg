SPECIFICATION LoggerSpec
CONSTANTS
    Statements <- MCStatements
    Header <- MCHeader
    Ending <- MCEnding
    SmallSize = 5
    NumLength = 3
    MaxLines = 4
    Bytes <- MCBytes
    Capacity = 7
    Null = Null
INVARIANTS
    TypeOK
    CrashTakesFullBuffer
    WholeOrFull
PROPERTIES
    ImplementsLogSink
    KeptIsWritten
CHECK_DEADLOCK FALSE
