SPECIFICATION Spec
CONSTANTS
  Top4 = 1
  Top6 = 5
  Blocks <- AliasBlocks
  Keys = {a, b, bad}
  BadKeys = {bad}
  NoData = none
  OneField = oneField
  MaxRows = 2
INVARIANTS
  MalformedRefused
CHECK_DEADLOCK FALSE
