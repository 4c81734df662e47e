SPECIFICATION Spec
CONSTANTS
  Fds = {f1, f2}
  Conns = {c1}
  Listener = L
  MaxEvents = 2
  EpollCtlMayFail = TRUE
  Interrupts = FALSE
  None = None
SYMMETRY Symmetry
INVARIANT
  DeadReactorHasNoWork
\* reactorRun may return.
CHECK_DEADLOCK FALSE
