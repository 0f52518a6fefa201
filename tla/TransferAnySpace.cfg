\* Virtual reads and writes while the address space changes.
CONSTANTS
  MaxAddress = 15
  PageSize = 2
  LargeSize = 4
  EntrySize = 2
  Canonical <- LowAndHigh
  Spaces <- SomeSpaces
  SolidSets <- SomeSolid
  Requests <- AllRequests
  MaxChanges = 2
SPECIFICATION Spec
INVARIANTS
  TypeOK
  BytesWereMapped
  ReportsWhatWasTransferred
  FaultPassesOverNothing
  AnswersHaveReasons
PROPERTY CallReturns
\* One call is made.
CHECK_DEADLOCK FALSE
