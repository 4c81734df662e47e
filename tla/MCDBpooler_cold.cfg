SPECIFICATION Spec
CONSTANTS
  Conns = {d1, d2}
  Clients = {a, b, c}
  None = None
SYMMETRY Symmetry
INVARIANTS
  TypeOK
  CountersAgree
  OnePlacePerConnection
  OnePlacePerQuery
  CallbackSeesOwnQuery
\* All clients may have been served.
CHECK_DEADLOCK FALSE
