SPECIFICATION FairSpec
CONSTANTS
  Buckets = 2
  HiBits = 2
  LoTop = 2
  SlotStarts = 1
  MaxL2Bits = 2
  StartLists <- ShortStartLists
INVARIANTS
  FewSlots
  IndexRight
  LastAtOrBelow
PROPERTIES
  SearchEnds
