CONSTANTS
  c1 = c1
  c2 = c2
  Callers = {c1, c2}
  AutoReconnect = TRUE
  NoConn = NoConn
  MaxConns = 7
  MaxCalls = 2
  MaxDisconnects = 1
SPECIFICATION FairSpec
CHECK_DEADLOCK FALSE
INVARIANTS
  TypeOK
  NoStrayConnection
  InstalledIsOpen
  FlagHasOwner
  AnsweredOnce
PROPERTIES
  FlagClears
  DisconnectCloses
