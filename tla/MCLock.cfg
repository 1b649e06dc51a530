CONSTANTS
  r1 = r1
  r2 = r2
  x = x
  y = y
  demo = demo
  Locks = {demo}
  Requests = {r1, r2, r3, r4}
  Leases = {x, y}
  NoLease = NoLease
  NoRequest = NoRequest
  LockOf <- MCLockOf
  ClientOf <- DistinctClients
  LeaseOf <- MCLeaseOf
  Retrying = {r1}
SPECIFICATION FairSpec
INVARIANTS TypeOK MutualExclusion NoLostWakeup JournalFollows
PROPERTIES GrantsInOrder NoStarvation
CHECK_DEADLOCK FALSE
