\* Two threads that allocate, write and free in one small pool.
CONSTANTS
  Threads = {t1, t2}
  Heap <- SmallHeap
  MaxSize = 15
  HeaderSize = 2
  MinAlignment = 2
  Sizes <- SomeSizes
  Alignments <- SomeAlignments
SPECIFICATION Spec
INVARIANTS
  TypeOK
  AllocationsApart
  EveryBlockHasOneOwner
PROPERTY OnlyOwnersWrite
\* The machine is stopped when memory cannot be had.
CHECK_DEADLOCK FALSE
