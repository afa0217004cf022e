SPECIFICATION FairSpec
CONSTANTS
  Buckets = 2
  Subs = 2
  SubSize = 3
  StartLists <- ShortStartLists
INVARIANTS
  TablesSplit
  BoundsEnclose
  LastAtOrBelow
PROPERTIES
  SearchEnds
