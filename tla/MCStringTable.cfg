SPECIFICATION StringsSpec
CONSTANTS
  Empty = Empty
  s1 = s1
  s2 = s2
  s3 = s3
  large = large
  Strings = {s1, s2, s3, large}
  Size <- Sizes
  Max16 = 3
  Max24 = 4
  MaxSize = 3
  MaxBlob = 4
  SourceRecords <- SmallRecords
  Metas <- SmallMetas
  MaxRecords = 2
INVARIANTS
  RecordsKept
  RefusesOnlyTooMany
CHECK_DEADLOCK FALSE
