\* One reading thread, every layout of three pages and every request.
CONSTANTS
  MaxAddress = 5
  PageSize = 2
  Threads = {t1}
  Requests <- AllRequests
  Layouts <- AllLayouts
  MaxCalls = 1
  Resetters = {}
  MaxResets = 0
SPECIFICATION Spec
INVARIANTS
  TypeOK
  TransferInvariant
  MappedCopyStaysInPage
PROPERTY ImplementsContract
\* The caller makes MaxCalls calls and stops.
CHECK_DEADLOCK FALSE
