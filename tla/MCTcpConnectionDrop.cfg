SPECIFICATION SafeSpec
CONSTANTS
    Sizes <- ThreeResponses
    Room = 2
    AutoClose = {FALSE}
    Timeout = 1
CHECK_DEADLOCK FALSE
PROPERTIES
    SendKeepsMessage
