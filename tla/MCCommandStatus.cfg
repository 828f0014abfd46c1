SPECIFICATION Spec
CONSTANTS
    c1 = c1
    c2 = c2
    Commands = {c1, c2}
    Callbacks = {"callback"}
    Progress = {"received"}
    Success = {"complete"}
    NoSuccess = {"error"}
    MaxCycles = 2
SYMMETRY Interchangeable
INVARIANTS TypeOK OwnAnswer StatusExact NothingLeft
PROPERTIES NoFalseDisconnect
CHECK_DEADLOCK FALSE
