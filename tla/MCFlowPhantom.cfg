SPECIFICATION Spec
CONSTANTS
  a = a
  b = b
  Clients <- MCClients
  Critical = {}
  NoHandle = NoHandle
  Sends <- OneEach
  MaxWaiting = 2
  MaxCommands = 1
  Floor = 1
  RequeuePenalty = 2
  PenaltyMax = 2
INVARIANT NoPhantomWaiting
CHECK_DEADLOCK FALSE
