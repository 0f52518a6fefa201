\* Page tables that their owner changes during a translation.
CONSTANTS
  MaxAddress = 255
  PageSize = 4
  Fanout = 2
  EntrySize = 2
  MinPhysicalBits = 5
  MaxPhysicalBits = 6
  Processors <- AllProcessors
  SolidSets <- AllSolid
  Tables <- SomeTables
  Entries <- StoredEntries
  Addresses <- HalfAddresses
  Directories = {4, 8}
  MaxChanges = 1
SPECIFICATION SafetySpec
INVARIANT AnswerIsBeforeOrAfter
\* One translation is made.
CHECK_DEADLOCK FALSE
