------------------------------- MODULE HubSpec -------------------------------
(***************************************************************************)
(* What the watch hub promises the sessions built on it: a registry of     *)
(* subscriptions, each opened once for a key and a start revision and      *)
(* cancelled at most once, with an acknowledged cursor that only advances  *)
(* until the subscription is cancelled.  Watch implements this             *)
(* specification; Session is built on its actions.                         *)
(***************************************************************************)
EXTENDS Naturals

CONSTANTS
  Watches,   \* subscription ids, each issued at most once
  KeySet,    \* the keys one can watch
  NoKey,     \* the key of an id not yet opened
  Revs       \* revisions a client may name

VARIABLES
  hub,       \* hub[w]: state, key and start of subscription w
  acks       \* acks[w]: the acknowledged cursor, 0 when there is none

hubVars == <<hub, acks>>

Unused(w) == hub[w].state = "unused"

IsOpen(w) == hub[w].state = "open"

-----------------------------------------------------------------------------

Open(w, key, rev) ==
  /\ Unused(w)
  /\ hub' = [hub EXCEPT ![w] = [state |-> "open", key |-> key, from |-> rev]]
  /\ UNCHANGED acks

\* The cursor is kept for any id, known or not.
Ack(w, rev) ==
  /\ acks' = [acks EXCEPT ![w] = IF rev > @ THEN rev ELSE @]
  /\ UNCHANGED hub

Cancel(w) ==
  /\ IsOpen(w)
  /\ hub' = [hub EXCEPT ![w].state = "closed"]
  /\ acks' = [acks EXCEPT ![w] = 0]

-----------------------------------------------------------------------------

Init ==
  /\ hub = [w \in Watches |-> [state |-> "unused", key |-> NoKey, from |-> 0]]
  /\ acks = [w \in Watches |-> 0]

Next ==
  \E w \in Watches :
    \/ \E key \in KeySet, rev \in Revs : Open(w, key, rev)
    \/ \E rev \in Revs : Ack(w, rev)
    \/ Cancel(w)

Spec == Init /\ [][Next]_hubVars
=============================================================================
