\* One writing thread, every set of mappable pages and every request.
CONSTANTS
  MaxAddress = 8
  PageSize = 3
  Threads = {t1}
  Requests <- AllRequests
  Mappables <- AllMappables
  MaxCalls = 1
SPECIFICATION Spec
INVARIANTS
  TypeOK
  WriteInvariant
PROPERTY ImplementsContract
\* The caller makes MaxCalls calls and stops.
CHECK_DEADLOCK FALSE
