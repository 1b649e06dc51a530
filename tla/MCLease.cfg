CONSTANTS
  Leases = {x, y}
  Keys = {k}
  Handlers = {h}
  Scanner = Scanner
  NoMap = NoMap
  TTL = 2
  Lag = 1
  MaxClock = 4
  MaxGen = 2
SPECIFICATION FairSpec
INVARIANTS TypeOK MapLostToLateCallback
PROPERTIES NoEarlyRemoval OverdueRemoved RefinesLeaseSpec
CHECK_DEADLOCK FALSE
