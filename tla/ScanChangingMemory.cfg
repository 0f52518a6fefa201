\* Memory that others write while the scan runs.
CONSTANTS
  MaxAddress = 7
  PageSize = 4
  ScanSize = 8
  BufferSize = 4
  SignatureSize = 2
  TableAlignment = 2
  HeaderBytes = 3
  MinTableSize = 4
  MaxTableSize = 6
  Checksum <- SomeChecksum
  Contents <- WrittenContents
  Memories <- ShortTableMemories
  SolidSets <- AllSolidSets
  MaxWrites = 2
SPECIFICATION SafetySpec
PROPERTY ReportsOnlyTables
\* The scan ends.
CHECK_DEADLOCK FALSE
