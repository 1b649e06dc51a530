CONSTANTS
  Keys = {a, b}
  Readers = {r}
  Streams = {s}
  LogCap = 2
  ChanCap = 2
  Retain = 2
  Slack = 0
  MaxRev = 3
SPECIFICATION Spec
INVARIANT GetAtReturnsNewest
CHECK_DEADLOCK FALSE
