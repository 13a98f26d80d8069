SPECIFICATION Spec
CONSTANTS
  Sources <- MCSources
  Packets <- MCPackets
  BuiltIn = {"T05NNNN", "T06NNNN"}
  Ephemeral = 40000
INVARIANTS
  StrongestSource
  InfluxJudgedOnce
  HealthFollowsProxy
CHECK_DEADLOCK FALSE
