------------------------------- MODULE KVSpec -------------------------------
(***************************************************************************)
(* What the key-value store promises to a client that only writes and      *)
(* reads current values: an atomic map from keys to the revision of their  *)
(* last write, and one revision counter shared by every key.               *)
(***************************************************************************)
EXTENDS Naturals

CONSTANTS Keys,     \* keys of the store
          MaxRev    \* bound on the number of writes

VARIABLES head,     \* newest revision assigned to a write
          op,       \* the last write a client made
          cur       \* cur[k]: revision of k's live value, 0 when k has none

kvVars == <<head, op, cur>>

KVInit ==
  /\ head = 0
  /\ op = "none"
  /\ cur = [k \in Keys |-> 0]

\* A write of k takes the next revision; k then has that value, or none.
KVWrite(k, del) ==
  /\ head < MaxRev
  /\ head' = head + 1
  /\ op' = [key |-> k, del |-> del]
  /\ cur' = [cur EXCEPT ![k] = IF del THEN 0 ELSE head + 1]

KVNext == \E k \in Keys, del \in BOOLEAN : KVWrite(k, del)

KVStore == KVInit /\ [][KVNext]_kvVars
=============================================================================
