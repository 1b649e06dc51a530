------------------------------- MODULE MCLock -------------------------------
(***************************************************************************)
(* Lock with four requests for one lock: two under leases, two without.    *)
(***************************************************************************)
EXTENDS Lock

CONSTANTS r1, r2, x, y, demo

MCLockOf == [r \in Requests |-> demo]
MCLeaseOf == [r \in Requests |-> CASE r = r1 -> x [] r = r2 -> y [] OTHER -> NoLease]
DistinctClients == [r \in Requests |-> r]
=============================================================================
