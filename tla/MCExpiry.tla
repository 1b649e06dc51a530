------------------------------ MODULE MCExpiry ------------------------------
(***************************************************************************)
(* Expiry with one lock, a request under the lease and one without, and    *)
(* one key that two puts write.                                            *)
(***************************************************************************)
EXTENDS Expiry

CONSTANTS r2, x, demo

MCLockOf == [r \in Requests |-> demo]
MCLeaseOf == [r \in Requests |-> IF r = r2 THEN NoLease ELSE x]
MCClientOf == [r \in Requests |-> r]
=============================================================================
