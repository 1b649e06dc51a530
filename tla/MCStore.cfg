CONSTANTS
  Keys = {a, b}
  Readers = {r}
  Streams = {s}
  LogCap = 2
  ChanCap = 1
  Retain = 2
  Slack = 0
  MaxRev = 4
SPECIFICATION Spec
SYMMETRY Symmetry
INVARIANTS TypeOK LogWindow LatestKept NoInnerGap LiveStreamConverges
PROPERTIES ReadersPinned RefinesKV
CHECK_DEADLOCK FALSE
