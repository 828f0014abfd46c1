SPECIFICATION Spec
CONSTANTS
    Handles = {h1, h2}
    NoHandle = NoHandle
    Names = {a, b}
    NoName = NoName
    Permissions <- MCPermissions
    Requests <- MCRequests
    First <- MCFirst
    MaxClients = 3
    MaxServices = 2
    MaxBorn = 3
SYMMETRY MCSymmetry
INVARIANTS
    TypeOK
    UniqueNames
    ServicesOwned
    MonitorsOwned
    SignalInTime
    TerminalListed
PROPERTIES
    ExitsReported
    AnsweredOnce
CHECK_DEADLOCK FALSE
