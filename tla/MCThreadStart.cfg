SPECIFICATION Spec
CONSTANTS
    thread_num_ = 4
    NULL = NULL
INVARIANTS
    TypeOK
    NoLostSignal
    LoopsExist
PROPERTIES
    StartCompletes
CHECK_DEADLOCK FALSE
