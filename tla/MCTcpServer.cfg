SPECIFICATION SafeSpec
CONSTANTS
    Base = base
    io1 = io1
    io2 = io2
    Pools <- TwoLoops
    Conns = {c1, c2}
    Fds = {f1, f2}
    AutoClose = TRUE
    Acceptor = Acceptor
    TimerQueue = TimerQueue
    NoChannel = NoChannel
SYMMETRY Symmetric
INVARIANTS
    TypeOK
    NoDanglingChannel
    EpollerMatches
    CloseFindsEntry
    ClosedIsQuiet
PROPERTIES
    ConnectionsNotOverwritten
CHECK_DEADLOCK FALSE
