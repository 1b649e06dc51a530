------------------------------ MODULE LeaseSpec ------------------------------
(***************************************************************************)
(* What the lease manager promises the components built on it: a table of  *)
(* deadlines.  A lease leaves the table when it is revoked, or when a      *)
(* caller finds its deadline at or before the time that caller read from   *)
(* the clock, at most Lag ticks ago; only a renewal that is in time moves  *)
(* a deadline.  Lease implements this specification; Election and Session  *)
(* are built on its actions.                                               *)
(***************************************************************************)
EXTENDS Naturals

CONSTANTS Leases, TTL, Lag, MaxClock

VARIABLES
  now,     \* the clock
  table    \* table[id]: the deadline of id, 0 when it is not registered

leaseVars == <<now, table>>

Registered(id) == table[id] > 0

\* The times a caller may pass: read from the clock, then possibly delayed.
Times == {at \in 0..now : at + Lag >= now}

-----------------------------------------------------------------------------

Tick ==
  /\ now < MaxClock
  /\ now' = now + 1
  /\ UNCHANGED table

Create(id) ==
  /\ ~Registered(id)
  /\ table' = [table EXCEPT ![id] = now + TTL]
  /\ UNCHANGED now

Renew(id, at) ==
  /\ table[id] > at
  /\ table' = [table EXCEPT ![id] = at + TTL]
  /\ UNCHANGED now

\* The leases of S are overdue at time at; a late renewal expires one, a scan
\* all that it finds.
Expire(S, at) ==
  /\ \A id \in S : Registered(id) /\ table[id] <= at
  /\ table' = [id \in Leases |-> IF id \in S THEN 0 ELSE table[id]]
  /\ UNCHANGED now

Revoke(id) ==
  /\ Registered(id)
  /\ table' = [table EXCEPT ![id] = 0]
  /\ UNCHANGED now

-----------------------------------------------------------------------------

Init ==
  /\ now = 0
  /\ table = [id \in Leases |-> 0]

Next ==
  \/ Tick
  \/ \E id \in Leases : Create(id) \/ Revoke(id)
  \/ \E id \in Leases, at \in Times : Renew(id, at)
  \/ \E S \in SUBSET Leases, at \in Times : Expire(S, at)

Spec == Init /\ [][Next]_leaseVars
=============================================================================
