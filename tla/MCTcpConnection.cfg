SPECIFICATION Spec
CONSTANTS
    Sizes <- ThreeResponses
    Room = 2
    AutoClose = {TRUE, FALSE}
    Timeout = 1
CHECK_DEADLOCK FALSE
INVARIANTS
    TypeOK
    FinAfterFlush
    WriteInterestMatches
PROPERTIES
    ImplementsByteStream
    OutputFlushed
    ShutdownCompletes
    SilentIsShutDown
