SPECIFICATION Spec
CONSTANTS
  Writers = {w1, w2}
  Users = {u1}
  MaxCrashes = 1
SYMMETRY Symmetric
INVARIANTS
  PathComplete
  KeepsModeIfRead
  ErrorLeavesPath
  NoTempLeft
PROPERTIES
  MappedUnchanged
CHECK_DEADLOCK FALSE
