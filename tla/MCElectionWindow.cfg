CONSTANTS
  Names = {a, b}
  Self = a
  NoName = NoName
  Callers = {p, q}
  TTL = 3
  HB = 2
  Lag = 1
  MaxClock = 3
  MaxTerm = 2
  MaxCalls = 3
SPECIFICATION Spec
INVARIANT NoSecondLeader
CHECK_DEADLOCK FALSE
