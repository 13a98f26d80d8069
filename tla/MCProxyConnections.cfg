SPECIFICATION Spec
CONSTANTS
  Conn = {c1, c2}
  None = None
  MaxPending = 1
  MaxEvents = 2
INVARIANTS
  SelectSafe
  PartialFrameClock
  NoOrphanSocket
  WorkersSuffice
PROPERTIES
  ImplementsLifecycle
  PairClosesTogether
  WaitingSettles
  StalledFrameEnds
  ShutdownReleases
\* The proxy stops when the loop was interrupted and the workers are done.
CHECK_DEADLOCK FALSE
