----------------------------- MODULE MCElection -----------------------------
(***************************************************************************)
(* Election with two candidates, two API goroutines and the heartbeat.     *)
(***************************************************************************)
EXTENDS Election
=============================================================================
