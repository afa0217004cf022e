SPECIFICATION Spec
CONSTANTS
  Top = 5
  Records = {1, 2}
INVARIANTS
  NothingLost
  BoundariesAscend
  SameEitherWay
PROPERTIES
  ImplementsCoverage
CHECK_DEADLOCK FALSE
