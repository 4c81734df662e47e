SPECIFICATION FairSpec
CONSTANTS
  Clients = {a, b, c}
  MaxConnections = 2
  PoolSize = 1
  MayFail = TRUE
  None = None
INVARIANTS
  TypeOK
  OneThingUnderWay
  OwnResponse
PROPERTY EveryClientEnds
\* All clients may have been served.
CHECK_DEADLOCK FALSE
