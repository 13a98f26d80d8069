SPECIFICATION Spec
CONSTANTS
  Device = {d1}
  Key <- MCKey
  StandardKeys = {"pvpowerout"}
  StandardSource <- MCStandardSource
  ProfileLayout = {"X", "MOD"}
  OtherLayout = {"SPH"}
  Defined <- MCDefined
  Included <- MCIncluded
  Identity <- MCIdentity
  Values <- MCValues
  Options <- MCOptions
  Family = "X family"
  NoLayout = ""
  None = None
INVARIANTS
  NothingForgotten
  RetainedCurrent
PROPERTIES
  ImplementsContract
  PendingCarried
  CleanedUp
