\* Page tables at rest: every content of two tables, and failing reads.
CONSTANTS
  MaxAddress = 255
  PageSize = 4
  Fanout = 2
  EntrySize = 2
  MinPhysicalBits = 5
  MaxPhysicalBits = 6
  Processors <- NarrowProcessors
  SolidSets <- AllButOne
  Tables <- TwoTables
  Entries = {}
  Addresses <- SpreadAddresses
  Directories = {7, 32, 64}
  MaxChanges = 0
SPECIFICATION SafetySpec
INVARIANTS
  TypeOK
  TranslationCoversRun
  FetchFailureIsReal
  ZeroIsNoTableBelowRoot
\* One translation is made.
CHECK_DEADLOCK FALSE
