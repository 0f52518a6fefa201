\* Two threads writing overlapping ranges.
CONSTANTS
  MaxAddress = 5
  PageSize = 2
  Threads = {t1, t2}
  Requests <- OverlappingRequests
  Mappables <- ContendedMappables
  MaxCalls = 1
SPECIFICATION SafetySpec
INVARIANT AnswersTellWhatChanged
PROPERTY StoresStayInMapping
\* The callers make MaxCalls calls each and stop.
CHECK_DEADLOCK FALSE
