CONSTANTS
  r2 = r2
  x = x
  demo = demo
  Locks = {demo}
  Requests = {r1, r2}
  Leases = {x}
  NoLease = NoLease
  NoRequest = NoRequest
  LockOf <- MCLockOf
  ClientOf <- MCClientOf
  LeaseOf <- MCLeaseOf
  Retrying = {}
  Keys = {k}
  Handlers = {h}
  Scanner = Scanner
  NoMap = NoMap
  TTL = 1
  Lag = 0
  MaxClock = 1
  MaxGen = 2
  Puts = {p, q}
  NoPut = NoPut
SPECIFICATION Spec
INVARIANTS HolderIsRecorded LeaselessHolderKeeps CallbackCleans
PROPERTY DeletesOnlyBound
CHECK_DEADLOCK FALSE
