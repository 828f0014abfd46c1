SPECIFICATION FairSpec
CONSTANTS
    Threads = {t1, t2, t3}
    None = None
    Executor = Executor
    Handles = {h1, h2}
    Critical = {t3}
INVARIANTS
    TypeOK
    TouchesLiving
    StuckTwoWays
    Reaped
PROPERTIES
    RemovalEnds
CHECK_DEADLOCK FALSE
