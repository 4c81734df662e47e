SPECIFICATION FairSpec
CONSTANTS
  Conns = {d1}
  Clients = {a}
  None = None
PROPERTY EveryQueryAnswered
CHECK_DEADLOCK FALSE
