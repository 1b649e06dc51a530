------------------------------- MODULE MCWatch -------------------------------
(***************************************************************************)
(* Watch with one subscription, two keys and three writes.                 *)
(***************************************************************************)
EXTENDS Watch
=============================================================================
