SPECIFICATION Spec
CONSTANTS
    Bytes = {0, 1}
    NUL = 0
    Messages <- ShortMessages
    pre_index_ = 1
    kInitialSize = 4
    ExtraSize = 2
    MaxSize = 8
INVARIANTS
    TypeOK
    IndexesInBounds
PROPERTIES
    ImplementsByteQueue
CHECK_DEADLOCK FALSE
