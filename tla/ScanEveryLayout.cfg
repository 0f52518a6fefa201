\* Memory at rest: every place of a table, every set of unreadable pages.
CONSTANTS
  MaxAddress = 15
  PageSize = 4
  ScanSize = 12
  BufferSize = 8
  SignatureSize = 2
  TableAlignment = 2
  HeaderBytes = 3
  MinTableSize = 4
  MaxTableSize = 6
  Checksum <- SomeChecksum
  Contents <- AllContents
  Memories <- OneTableMemories
  SolidSets <- AllSolidSets
  MaxWrites = 0
SPECIFICATION Spec
INVARIANTS
  TypeOK
  NoTablePassedOver
  RangeAccounted
  ScanInvariant
PROPERTIES
  CandidatesAscend
  ScanTerminates
\* The scan ends.
CHECK_DEADLOCK FALSE
