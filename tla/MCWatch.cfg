CONSTANTS
  Keys = {k, l}
  LogCap = 2
  ChanCap = 1
  Retain = 2
  Slack = 0
  MaxRev = 3
  Watches = {w}
  AnyKey = AnyKey
  SubCap = 1
  WatchKeys = {k}
  StartRevs = {1}
  AckRevs = {2}
  MaxFail = 1
SPECIFICATION FairSpec
INVARIANTS TypeOK DeliveredOnce EventAccounted
PROPERTIES EventuallyReceived CancelEndsLoop RefinesHubSpec
CHECK_DEADLOCK FALSE
