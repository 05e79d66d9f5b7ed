SPECIFICATION Spec
CONSTANTS
    Base = base
    io1 = io1
    io2 = io2
    Pools <- AnyLoops
    Conns = {c1, c2}
    Fds = {f1}
    AutoClose = TRUE
    Acceptor = Acceptor
    TimerQueue = TimerQueue
    NoChannel = NoChannel
PROPERTIES
    PeerCloseReleases
CHECK_DEADLOCK FALSE
