SPECIFICATION Spec
CONSTANTS
    Tasks = {t1, t2, t3}
    OtherThreads = {p1, p2}
    LoopThread = loop
    Channels = {c1}
    WakeupChannel = wakeup
    MaxEvents = 1
    Nothing = Nothing
INVARIANTS
    TypeOK
    NoLostWakeup
    WakeupReadSucceeds
PROPERTIES
    WakeupDrained
    ImplementsTaskQueue
CHECK_DEADLOCK FALSE
