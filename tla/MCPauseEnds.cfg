SPECIFICATION Spec
CONSTANTS
    User = User
    Queues = {q1, q2}
    Timers = {p1, p2}
    None = None
    Limits = {1}
    MaxSize = 2
    Threshold = 100
    Restore = 75
    Timed = TRUE
    MaxCalls = 4
INVARIANT
    TimedPauseEnds
CHECK_DEADLOCK FALSE
