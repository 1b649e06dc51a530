------------------------------- MODULE MCLease -------------------------------
(***************************************************************************)
(* Lease with two ids, one API goroutine and the scanner.                  *)
(***************************************************************************)
EXTENDS Lease
=============================================================================
