SPECIFICATION FairSpec
CONSTANTS
  a = a
  b = b
  Clients <- MCClients
  Critical = {}
  NoHandle = NoHandle
  Sends <- TwoAndOne
  MaxWaiting = 2
  MaxCommands = 1
  Floor = 1
  RequeuePenalty = 2
  PenaltyMax = 2
INVARIANTS
  TypeOK
  OnePlace
  AdmissionBound
  LeavesNoHandle
PROPERTIES
  OnlyForListed
  Answered
CHECK_DEADLOCK FALSE
