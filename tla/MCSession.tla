------------------------------ MODULE MCSession ------------------------------
(***************************************************************************)
(* Session with one session, two request goroutines and the stale loop.    *)
(***************************************************************************)
EXTENDS Session
=============================================================================
