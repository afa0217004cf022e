SPECIFICATION Spec
CONSTANTS
  Buckets = 3
  BucketSize = 2
  HiTop = 4
  LoTop = 3
  v6Aliases <- AliasPrefixes
  embeddedV4 <- Embedded
  Files <- SmallFiles
INVARIANTS
  RangesAscend
  RangesComplete
  OneAnswer
  SameRange
PROPERTY StopsAtOnce
CHECK_DEADLOCK FALSE
