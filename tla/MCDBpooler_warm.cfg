SPECIFICATION FairWarmSpec
CONSTANTS
  Conns = {d1}
  Clients = {a, b, c}
  None = None
INVARIANTS
  NoStrandedQuery
  FirstComeFirstServed
PROPERTIES
  EveryQueryAnswered
  ImplementsService
\* All clients may have been served.
CHECK_DEADLOCK FALSE
