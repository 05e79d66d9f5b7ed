SPECIFICATION Spec
CONSTANTS
    Streams <- MCStreams
    Words <- MCWords
    Key <- MCKey
    Value <- MCValue
    NoColon = NoColon
    PathOf <- MCPathOf
    LateQuery <- MCLateQuery
    Pages <- MCPages
INVARIANTS
    TypeOK
PROPERTIES
    ImplementsHttpService
CHECK_DEADLOCK FALSE
