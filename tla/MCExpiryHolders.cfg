CONSTANTS
  r2 = r2
  x = x
  demo = demo
  Locks = {demo}
  Requests = {r1, r2}
  Leases = {x}
  NoLease = NoLease
  NoRequest = NoRequest
  LockOf <- MCLockOf
  ClientOf <- MCClientOf
  LeaseOf <- MCLeaseOf
  Retrying = {}
  Keys = {k}
  Handlers = {h}
  Scanner = Scanner
  NoMap = NoMap
  TTL = 1
  Lag = 0
  MaxClock = 2
  MaxGen = 2
  Puts = {}
  NoPut = NoPut
SPECIFICATION Spec
INVARIANT OneBeliever
CHECK_DEADLOCK FALSE
