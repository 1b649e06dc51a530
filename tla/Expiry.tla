------------------------------- MODULE Expiry -------------------------------
(***************************************************************************)
(* The lease manager, the lock manager and the store wired together as in  *)
(* cmd/coordination: lease removal runs expiryHandler, which releases the  *)
(* locks held under the lease and deletes the keys bound to it, while API  *)
(* requests acquire locks and put keys under the same leases.              *)
(*                                                                         *)
(* The lock manager's LeaseChecker is the lease manager: alive is the set  *)
(* of registered leases.  Of the store only the presence of the keys that  *)
(* clients put is kept (Store has the rest); the reserved locks/ keys are  *)
(* the journal of Lock.                                                    *)
(***************************************************************************)
EXTENDS Naturals, Sequences, FiniteSets

CONSTANTS
  Locks, Requests, Leases, NoLease, NoRequest, LockOf, ClientOf, LeaseOf, Retrying,
  Keys, Handlers, Scanner, NoMap, TTL, Lag, MaxClock, MaxGen,
  Puts,      \* calls of handleKVPut
  NoPut      \* a key that is absent

ASSUME ExpiryAssumption ==
  /\ LockOf \in [Requests -> Locks]
  /\ LeaseOf \in [Requests -> Leases \cup {NoLease}]
  /\ DOMAIN ClientOf = Requests
  /\ NoRequest \notin Requests
  /\ NoLease \notin Leases
  /\ Retrying \subseteq Requests
  /\ Leases # {} /\ Keys # {}
  /\ \A S \in SUBSET Keys : NoMap # S
  /\ TTL \in Nat \ {0} /\ Lag \in Nat /\ MaxClock \in Nat /\ MaxGen \in Nat
  /\ Scanner \notin Handlers
  /\ NoPut \notin Puts

VARIABLES
  now, leases, bindings, threads, scan, notified, acked, overrun,
  pc, late, holder, queue, ticket, seq, waiters, signal, journal,
  under,     \* under[r]: incarnation of r's lease when Acquire was called
  puts,      \* puts[p]: progress of put request p
  kv         \* kv[k]: the put whose value key k has, or NoPut

leaseVars == <<now, leases, bindings, threads, scan, notified, acked, overrun>>
lockVars == <<pc, late, holder, queue, ticket, seq, waiters, signal, journal, under>>
kvVars == <<puts, kv>>
vars == <<leaseVars, lockVars, kvVars>>

LS == INSTANCE Lease
LK == INSTANCE Lock WITH alive <- {id \in Leases : leases[id].here}

-----------------------------------------------------------------------------
(* handleKVPut *)

\* A request that names a lease binds the key first; if that fails it returns.
PutBegin(p, id, k) ==
  /\ puts[p].stage = "idle"
  /\ IF id = NoLease THEN UNCHANGED leaseVars ELSE LS!BindKey(id, k)
  /\ puts' = [puts EXCEPT ![p] = [stage |-> "bound", id |-> id, key |-> k,
                gen |-> IF id = NoLease THEN 0 ELSE leases[id].gen, late |-> FALSE]]
  /\ UNCHANGED <<lockVars, kv>>

\* Then it writes the key, late if the lease has ended since.
PutStore(p) ==
  /\ puts[p].stage = "bound"
  /\ puts' = [puts EXCEPT ![p].stage = "done", ![p].late =
                puts[p].id # NoLease /\ LS!Removed(puts[p].id, puts[p].gen)]
  /\ kv' = [kv EXCEPT ![puts[p].key] = p]
  /\ UNCHANGED <<leaseVars, lockVars>>

-----------------------------------------------------------------------------
(* Locks and leases *)

\* A step of a lock request; Acquire's first step notes the lease's incarnation.
LockStep(r) ==
  /\ UNCHANGED leaseVars
  /\ LK!RequestStep(r)
  /\ under' = IF pc[r] = "idle" /\ LeaseOf[r] # NoLease
              THEN [under EXCEPT ![r] = leases[LeaseOf[r]].gen]
              ELSE under
  /\ UNCHANGED kvVars

\* Operations of the lease manager that neither bind nor notify.
LeaseStep ==
  /\ \/ LS!Tick
     \/ \E id \in Leases : LS!Create(id)
     \/ \E t \in Handlers, id \in Leases, at \in LS!Times : LS!Renew(t, id, at)
     \/ \E t \in Handlers, id \in Leases : LS!Revoke(t, id)
     \/ \E at \in LS!Times : LS!ExpireOnce(at)
     \/ \E p \in scan : LS!ScanReport(p[1], p[2])
  /\ UNCHANGED <<lockVars, kvVars>>

\* expiryHandler, in three parts: each locks another component.
HandlerReleases(t) ==
  /\ LS!Notify(t)
  /\ LK!ReleaseByLease(threads[t].id)
  /\ UNCHANGED <<under, kvVars>>

HandlerConsumes(t) ==
  /\ LS!ConsumeKeys(t)
  /\ UNCHANGED <<lockVars, kvVars>>

\* Mutant of HandlerDeletes: the error of Delete is ignored, the key stays.
HandlerForgets(t, k) ==
  /\ LS!CleanKey(t, k)
  /\ UNCHANGED <<lockVars, kvVars>>

HandlerDeletes(t, k) ==
  /\ LS!CleanKey(t, k)
  /\ kv' = [kv EXCEPT ![k] = NoPut]
  /\ UNCHANGED <<lockVars, puts>>

HandlerReturns(t) ==
  /\ LS!CallbackDone(t)
  /\ UNCHANGED <<lockVars, kvVars>>

HandlerStep(t) ==
  \/ HandlerReleases(t)
  \/ HandlerConsumes(t)
  \/ \E k \in Keys : HandlerDeletes(t, k)
  \/ HandlerReturns(t)

-----------------------------------------------------------------------------
(* Specification *)

Init ==
  /\ LS!Init
  /\ pc = [r \in Requests |-> "idle"]
  /\ late = {}
  /\ holder = [l \in Locks |-> NoRequest]
  /\ queue = [l \in Locks |-> {}]
  /\ ticket = [r \in Requests |-> 0]
  /\ seq = 0
  /\ waiters = {}
  /\ signal = [r \in Requests |-> "open"]
  /\ journal = [l \in Locks |-> << >>]
  /\ under = [r \in Requests |-> 0]
  /\ puts = [p \in Puts |-> [stage |-> "idle", id |-> NoLease, gen |-> 0,
                             late |-> FALSE, key |-> CHOOSE k \in Keys : TRUE]]
  /\ kv = [k \in Keys |-> NoPut]

Next ==
  \/ \E p \in Puts, id \in Leases \cup {NoLease}, k \in Keys : PutBegin(p, id, k)
  \/ \E p \in Puts : PutStore(p)
  \/ \E r \in Requests : LockStep(r)
  \/ LeaseStep
  \/ \E t \in LS!Threads : HandlerStep(t)

Spec == Init /\ [][Next]_vars

\* Goroutines keep running and the scan repeats; clients need not release,
\* renew or revoke anything.
Fairness ==
  /\ WF_vars(LeaseStep /\ LS!ExpireOnce(now))
  /\ WF_vars(LeaseStep /\ \E p \in scan : LS!ScanReport(p[1], p[2]))
  /\ \A t \in LS!Threads : WF_vars(HandlerStep(t))
  /\ \A p \in Puts : WF_vars(PutStore(p))
  /\ \A r \in Requests : WF_vars(pc[r] \in {"retry", "enqueue", "cancel"} /\ LockStep(r))

FairSpec == Spec /\ Fairness

-----------------------------------------------------------------------------
(* Properties *)

\* A request may act as the holder: Acquire returned success, it has not
\* released, and its lease, if it has one, has not ended since it asked.
Believes(r) ==
  /\ pc[r] = "holding"
  /\ LeaseOf[r] # NoLease =>
       leases[LeaseOf[r]].here /\ under[r] = leases[LeaseOf[r]].gen

\* It may act, and no callback of an earlier incarnation has run into its lease.
Undisturbed(r) == Believes(r) /\ <<LeaseOf[r], under[r]>> \notin overrun

\* A request that may act as the holder is the one the lock manager and the
\* persisted record name, whatever callbacks, grants and releases did in the
\* meantime, unless its lease id was created again before the callback of its
\* predecessor was done.  So two requests never act as the holder of a lock at
\* a time (lock.go:61-146, release.go:10-36, expiry.go:13-20).
HolderIsRecorded ==
  \A r \in Requests :
    Undisturbed(r) =>
      LET j == journal[LockOf[r]]
      IN  holder[LockOf[r]] = r /\ j[Len(j)].state = "held" /\ j[Len(j)].req = r

\* A callback, even a late one that finds its lease id created again, takes a
\* lock only from requests under that lease: a request that was granted a lock
\* without a lease keeps it until it releases it (lock.go:129-146).
LeaselessHolderKeeps ==
  \A r \in Requests :
    pc[r] = "holding" /\ LeaseOf[r] = NoLease => holder[LockOf[r]] = r

\* Once the callback for a removed lease is done, no key that was put under the
\* lease while it lived remains, unless the id was created again before the
\* callback, or that of a predecessor, was done (expiry.go:13-20, lease.go:153-165).
CallbackCleans ==
  \A p \in Puts, k \in Keys :
    /\ kv[k] = p
    /\ ~puts[p].late
    /\ <<puts[p].id, puts[p].gen>> \in notified
    /\ leases[puts[p].id].gen = puts[p].gen
    /\ <<puts[p].id, puts[p].gen>> \notin overrun
    => \E t \in LS!Threads : threads[t].id = puts[p].id /\ threads[t].stage # "idle"

\* The value of a put disappears only in the callback of a lease under which
\* its key was put, by this request or by another: a put without a lease, or
\* under one that lives, loses its key to an ended lease only if they shared
\* the key (api.go:94-106, expiry.go:13-20, lease.go:129-165).
DeletesOnlyBound ==
  [][ \A k \in Keys :
        kv[k] # NoPut /\ kv'[k] = NoPut =>
          \E t \in LS!Threads, q \in Puts :
            /\ threads[t].stage = "clean" /\ k \in threads[t].keys
            /\ puts[q].key = k /\ puts[q].id = threads[t].id
            /\ LS!Removed(puts[q].id, puts[q].gen)
               \/ <<puts[q].id, puts[q].gen>> \in overrun ]_vars

-----------------------------------------------------------------------------
(* Claims of the source that the code does not keep *)

\* BENZHI_README.md:5 promises one holder at a time: no two requests may act as
\* the holder of a lock.
OneBeliever ==
  \A r, q \in Requests :
    Believes(r) /\ Believes(q) /\ LockOf[r] = LockOf[q] => r = q

\* lease_verify_test.go:35 fails with "expired lease still holds the lock": a
\* lock whose holder's lease is gone changes hands.
ExpiredHolderLosesLock ==
  \A l \in Locks :
    LET Stuck == /\ holder[l] # NoRequest
                 /\ LeaseOf[holder[l]] # NoLease
                 /\ ~leases[LeaseOf[holder[l]]].here
    IN  Stuck ~> ~Stuck
=============================================================================
