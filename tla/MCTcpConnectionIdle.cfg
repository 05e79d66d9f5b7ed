SPECIFICATION SafeSpec
CONSTANTS
    Sizes <- ThreeResponses
    Room = 2
    AutoClose = {TRUE}
    Timeout = 1
CHECK_DEADLOCK FALSE
INVARIANTS
    HandleWriteSends
