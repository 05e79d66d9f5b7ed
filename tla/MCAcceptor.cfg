SPECIFICATION AcceptorSpec
CONSTANTS
    Fds = {f1, f2, f3}
    Clients = {c1, c2, c3, c4}
    None = None
INVARIANTS
    ClosesItsOwn
    ReserveLostOnlyToLog
PROPERTIES
    BacklogAccepted
CHECK_DEADLOCK FALSE
