SPECIFICATION Spec
CONSTANTS
  Socket = {s1, s2}
  Peer = {p1}
  Logger = {"l1"}
  Inverter = {"i1"}
  None = None
  Http = Http
  Answers <- MCAnswers
  TimeRegister = "r31"
  Garbled = {}
  MaxQueue = 2
  MaxEvents = 1
  Requests <- MCRequests
  DataloggerPolls = 1
  InverterPolls = 2
  MaxCommands = 0
INVARIANTS
  AnswerIsFresh
PROPERTIES
  OkIsAnswered
  RequestEnds
  DeadReaped
