SPECIFICATION FairSpec
CONSTANTS
  Fds = {f1, f2, f3}
  Conns = {c1, c2, c3}
  Listener = L
  MaxEvents = 2
  EpollCtlMayFail = FALSE
  Interrupts = FALSE
  None = None
INVARIANTS
  AwaitingIsTracked
  NoLostWakeup
  DeadReactorHasNoWork
PROPERTY ReadyIsServed
\* reactorRun may return.
CHECK_DEADLOCK FALSE
