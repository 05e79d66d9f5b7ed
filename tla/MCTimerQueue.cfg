SPECIFICATION Spec
CONSTANTS
    once = once
    every = every
    often = often
    Timers <- MCTimers
    Interval <- MCInterval
    Repeating = {every, often}
    Second = 2
    Steps <- MCSteps
    MaxSteps = 1
    MaxLate = 1
    Overdue = 6
INVARIANTS
    TypeOK
    OneOwner
    ArmedWhilePending
PROPERTIES
    EveryTimerRuns
CHECK_DEADLOCK FALSE
