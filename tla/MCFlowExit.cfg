SPECIFICATION FairSpec
CONSTANTS
  a = a
  b = b
  Clients <- MCClients
  Critical = {b}
  NoHandle = NoHandle
  Sends <- OneEach
  MaxWaiting = 2
  MaxCommands = 1
  Floor = 1
  RequeuePenalty = 2
  PenaltyMax = 2
PROPERTY ServerExits
CHECK_DEADLOCK FALSE
