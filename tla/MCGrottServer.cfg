SPECIFICATION ServerSpec
CONSTANTS
  Socket = {s1, s2, s3}
  Peer = {p1, p2}
  Logger = {l1, l2}
  Inverter = {i1}
  None = None
  Http = Http
  Answers <- MCTimeAnswers
  TimeRegister = "r31"
  Garbled = {}
  MaxQueue = 2
  MaxEvents = 2
INVARIANTS
  QueuePerPeer
  RepliesStayHome
PROPERTIES
  RetiresOnlyDead
  OwnershipKept
  ImplementsRouter
SYMMETRY Symmetry
