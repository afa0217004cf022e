SPECIFICATION OpenSpec
CONSTANTS
  Word64 = 16777216
  MaxFileSize = 4000
  MaxUint16 = 3
  MaxUint24 = 4
  Buckets = 2
  BucketSize = 4
  Databases <- MCDatabases
  Others <- MCOthers
INVARIANTS
  ReadsInBounds
  OpenedIsSafe
  WrittenOpens
  GEO1Kept
CHECK_DEADLOCK FALSE
