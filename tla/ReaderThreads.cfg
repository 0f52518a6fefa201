\* Two threads reading with one reader while two others reset its counters.
CONSTANTS
  MaxAddress = 5
  PageSize = 2
  Threads = {t1, t2}
  Requests <- TwoRequests
  Layouts <- ContendedLayouts
  MaxCalls = 1
  Resetters = {r1, r2}
  MaxResets = 1
SPECIFICATION SafetySpec
SYMMETRY Interchangeable
INVARIANTS
  StatisticsAccountForBytes
  ResetDriftIsBounded
\* The callers make MaxCalls calls each and stop.
CHECK_DEADLOCK FALSE
