SPECIFICATION Spec
CONSTANTS
  Sources <- MCSources
  Packets <- MCPackets
  BuiltIn = {"T05NNNN", "T06NNNN"}
  Ephemeral = 40000
INVARIANT CommandLineFirst
CHECK_DEADLOCK FALSE
