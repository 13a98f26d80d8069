SPECIFICATION ServerSpec
CONSTANTS
  Socket = {s1}
  Peer = {p1, p2}
  Logger = {l1, l2}
  Inverter = {i1}
  None = None
  Http = Http
  Answers <- MCAnswers
  TimeRegister = "r31"
  Garbled = {}
  MaxQueue = 2
  MaxEvents = 2
INVARIANT WriteResultKept
