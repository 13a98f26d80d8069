SPECIFICATION Spec
CONSTANTS
  Loaded <- MCLoaded
  Families <- MCFamilies
  Reads <- MCReads
  GenericTypes = {"03", "04", "50"}
  MeterTypes = {"20", "1b"}
  NoLayout = NoLayout
  NoRecord = NoRecord
  NoSerial = "unread"
  Confs <- MCConfs
  Records <- MCRecords
  Second = 2
  MaxTime = 7
INVARIANTS
  StrictFamily
  SerialKept
PROPERTIES
  UploadsSpaced
  RefusalsJustified
CONSTRAINT Clocked
