CONSTANTS
  Sessions = {s}
  Leases = {l}
  Callers = {p, q}
  WatchKeys = {k}
  StartRevs = {0}
  NoKey = NoKey
  None = None
  StaleAfter = 1
  TTL = 1
  Lag = 0
  MaxClock = 1
  MaxWatch = 3
  MaxRev = 1
  MaxCalls = 4
SPECIFICATION FairSpec
INVARIANTS TypeOK NoLeakedWatch ResumesAskedKeys CursorAhead
PROPERTIES ClosesStaleOnly AbandonedIsCleaned
CHECK_DEADLOCK FALSE
