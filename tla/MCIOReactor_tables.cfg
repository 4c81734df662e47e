SPECIFICATION Spec
CONSTANTS
  Fds = {f1, f2, f3, f4}
  Conns = {c1, c2, c3, c4}
  Listener = L
  MaxEvents = 2
  EpollCtlMayFail = TRUE
  Interrupts = TRUE
  None = None
SYMMETRY Symmetry
INVARIANTS
  TypeOK
  NoDanglingCallback
  TablesAgree
  NoStaleEvent
\* reactorRun may return.
CHECK_DEADLOCK FALSE
