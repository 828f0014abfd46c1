SPECIFICATION FairSpec
CONSTANTS
  client = client
  port = port
  other = other
  Clients <- MCClients
  NoOne = NoOne
  Listens <- MCListens
  NoListen = NoListen
  TotalMax = 2
  ListenMax = 1
  Sockets = 2
  Binds = 2
  Early <- MCEarly
INVARIANTS
  TypeOK
  CountsExact
  StolenAlone
PROPERTY Watched
CHECK_DEADLOCK FALSE
