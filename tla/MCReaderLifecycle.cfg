SPECIFICATION FairSpec
CONSTANTS
  Procs = {p1, p2}
  Readers = {r1, r2, r3}
  Mappings = {m1}
  Files = {f1, f2}
  NoReader = NoReader
  NoMapping = NoMapping
  Unused = Unused
  Heap = Heap
  Free = Free
  Stuck = Stuck
INVARIANTS
  ReadsAreSafe
  ReleasedOnce
PROPERTIES
  GarbageIsUnmapped
