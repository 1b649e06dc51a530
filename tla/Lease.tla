-------------------------------- MODULE Lease --------------------------------
(***************************************************************************)
(* The lease manager of internal/lease: creation, renewal, revocation, key *)
(* bindings, the expiry scan, and the notification that a removal causes.  *)
(*                                                                         *)
(* Manager methods run under m.mu; notifications run after it is released, *)
(* in the goroutine that removed the lease: an API handler (Renew, Revoke) *)
(* or the scanner.  A notification is one pass through the callback that   *)
(* main.go installs: release locks, consume the bound keys, delete them.   *)
(* Callers read the clock before they enter the manager, so the time they  *)
(* pass may lag behind.  A lease id may be created again once it is gone;  *)
(* gen tells its incarnations apart.                                       *)
(***************************************************************************)
EXTENDS Naturals, FiniteSets

CONSTANTS
  Leases,     \* lease ids
  Keys,       \* keys that can be bound
  Handlers,   \* goroutines serving API requests
  Scanner,    \* the goroutine of ExpireAfter
  NoMap,      \* bindings[id] is absent (a nil map)
  TTL,        \* ttl of every lease, in ticks
  Lag,        \* how old the time a caller passes may be
  MaxClock,   \* bound: ticks of the clock
  MaxGen      \* bound: creations of one lease id

ASSUME LeaseAssumption ==
  /\ Leases # {}
  /\ \A S \in SUBSET Keys : NoMap # S
  /\ TTL \in Nat \ {0}
  /\ Lag \in Nat
  /\ MaxClock \in Nat
  /\ MaxGen \in Nat
  /\ Scanner \notin Handlers

VARIABLES
  now,        \* the clock
  leases,     \* leases[id]: registered or not, deadline, incarnation
  bindings,   \* bindings[id]: the bound keys, or NoMap
  threads,    \* threads[t]: the notification goroutine t is running
  scan,       \* incarnations the current scan removed and has yet to report
  notified,   \* incarnations for which the callback was invoked
  acked,      \* acked[id]: the clock when Create or Renew last succeeded
  overrun     \* incarnations on which the callback of an earlier one acted

vars == <<now, leases, bindings, threads, scan, notified, acked, overrun>>

-----------------------------------------------------------------------------
(* Types and derived state *)

Threads == Handlers \cup {Scanner}

Entry == [here : BOOLEAN, exp : Nat, gen : Nat]

Incarnation == Leases \X Nat

Thread == [stage : {"idle", "notify", "consume", "clean"},
           id : Leases, gen : Nat, keys : SUBSET Keys]

\* The times a caller may pass: read from the clock, then possibly delayed.
Times == {at \in 0..now : at + Lag >= now}

\* Alive, as the lock manager sees it.
Alive(id) == leases[id].here

\* An incarnation that was registered once and is no more.
Removed(id, gen) ==
  /\ gen > 0
  /\ gen < leases[id].gen \/ (gen = leases[id].gen /\ ~leases[id].here)

\* Mutant of Unregister: removeLocked only marks the lease it was handed.
UnregisterNothing(S) == UNCHANGED leases

\* removeLocked; the bindings stay.
Unregister(S) ==
  leases' = [id \in Leases |->
               IF id \in S THEN [leases[id] EXCEPT !.here = FALSE] ELSE leases[id]]

\* Goroutine t enters notify for the incarnation of id it removed.
StartNotify(t, id) ==
  threads' = [threads EXCEPT ![t] =
                [stage |-> "notify", id |-> id, gen |-> leases[id].gen, keys |-> {}]]

-----------------------------------------------------------------------------
(* Operations *)

Tick ==
  /\ now < MaxClock
  /\ now' = now + 1
  /\ UNCHANGED <<leases, bindings, threads, scan, notified, acked, overrun>>

\* Mutant of Create: the map is made only for an id that never had one.
CreateKeepingMap(id) ==
  /\ ~leases[id].here
  /\ leases[id].gen < MaxGen
  /\ leases' = [leases EXCEPT ![id] =
                  [here |-> TRUE, exp |-> now + TTL, gen |-> @.gen + 1]]
  /\ bindings' = [bindings EXCEPT ![id] = IF leases[id].gen = 0 THEN {} ELSE @]
  /\ acked' = [acked EXCEPT ![id] = now]
  /\ UNCHANGED <<now, threads, scan, notified, overrun>>

Create(id) ==
  /\ ~leases[id].here
  /\ leases[id].gen < MaxGen
  /\ leases' = [leases EXCEPT ![id] =
                  [here |-> TRUE, exp |-> now + TTL, gen |-> @.gen + 1]]
  /\ bindings' = [bindings EXCEPT ![id] = {}]
  /\ acked' = [acked EXCEPT ![id] = now]
  /\ UNCHANGED <<now, threads, scan, notified, overrun>>

\* Mutant of RenewOk: the deadline is computed from the old one's start.
RenewOkInPlace(id, at) ==
  /\ leases[id].exp > at
  /\ acked' = [acked EXCEPT ![id] = now]
  /\ UNCHANGED <<leases, threads>>

\* Mutant of RenewOk: the deadline is not compared with the caller's time.
RenewOkAnyTime(id, at) ==
  /\ leases' = [leases EXCEPT ![id].exp = at + TTL]
  /\ acked' = [acked EXCEPT ![id] = now]
  /\ UNCHANGED threads

\* Renew before the deadline.
RenewOk(id, at) ==
  /\ leases[id].exp > at
  /\ leases' = [leases EXCEPT ![id].exp = at + TTL]
  /\ acked' = [acked EXCEPT ![id] = now]
  /\ UNCHANGED threads

\* Renew at or after the deadline: the lease is expired and reported.
RenewLate(t, id, at) ==
  /\ leases[id].exp <= at
  /\ Unregister({id})
  /\ StartNotify(t, id)
  /\ UNCHANGED acked

\* Renew of a registered lease; of another one it fails and changes nothing.
\* BatchRenew and RenewMany are calls of it one after the other.
Renew(t, id, at) ==
  /\ threads[t].stage = "idle"
  /\ leases[id].here
  /\ RenewOk(id, at) \/ RenewLate(t, id, at)
  /\ UNCHANGED <<now, bindings, scan, notified, overrun>>

Revoke(t, id) ==
  /\ threads[t].stage = "idle"
  /\ leases[id].here
  /\ Unregister({id})
  /\ StartNotify(t, id)
  /\ UNCHANGED <<now, bindings, scan, notified, acked, overrun>>

\* BindKey; writing to a missing map panics, which net/http recovers: the
\* deferred unlock runs and nothing has changed.
BindKey(id, k) ==
  /\ leases[id].here
  /\ bindings[id] # NoMap
  /\ bindings' = [bindings EXCEPT ![id] = @ \cup {k}]
  /\ UNCHANGED <<now, leases, threads, scan, notified, acked, overrun>>

\* Mutant of Overdue: a lease is kept at its deadline.
PastDeadline(at) == {id \in Leases : leases[id].here /\ leases[id].exp < at}

\* The leases a scan at time at removes.
Overdue(at) == {id \in Leases : leases[id].here /\ leases[id].exp <= at}

\* ExpireOnce, under the lock: all overdue leases are removed at once.
ExpireOnce(at) ==
  /\ scan = {}
  /\ threads[Scanner].stage = "idle"
  /\ Unregister(Overdue(at))
  /\ scan' = {<<id, leases[id].gen>> : id \in Overdue(at)}
  /\ UNCHANGED <<now, bindings, threads, notified, acked, overrun>>

\* ExpireOnce, after it, for one removed lease: the callback runs only if the
\* id is registered again by now.
ScanReport(id, gen) ==
  /\ <<id, gen>> \in scan
  /\ threads[Scanner].stage = "idle"
  /\ scan' = scan \ {<<id, gen>>}
  /\ \/ /\ leases[id].here
        /\ threads' = [threads EXCEPT ![Scanner] =
                         [stage |-> "notify", id |-> id, gen |-> gen, keys |-> {}]]
     \/ ~leases[id].here /\ UNCHANGED threads
  /\ UNCHANGED <<now, leases, bindings, notified, acked, overrun>>

-----------------------------------------------------------------------------
(* The callback (expiryHandler), seen from the lease manager *)

\* A callback step of goroutine t that finds its lease id registered again.
Overrun(t) ==
  LET id == threads[t].id
  IN  overrun' = IF leases[id].here THEN overrun \cup {<<id, leases[id].gen>>} ELSE overrun

\* ReleaseByLease is called.
Notify(t) ==
  /\ threads[t].stage = "notify"
  /\ notified' = notified \cup {<<threads[t].id, threads[t].gen>>}
  /\ threads' = [threads EXCEPT ![t].stage = "consume"]
  /\ Overrun(t)
  /\ UNCHANGED <<now, leases, bindings, scan, acked>>

\* Mutant of ConsumeKeys: the bindings of all leases are taken together.
ConsumeAllKeys(t) ==
  /\ threads[t].stage = "consume"
  /\ threads' = [threads EXCEPT ![t].stage = "clean", ![t].keys = Keys]
  /\ bindings' = [bindings EXCEPT ![threads[t].id] = NoMap]
  /\ Overrun(t)
  /\ UNCHANGED <<now, leases, scan, notified, acked>>

ConsumeKeys(t) ==
  LET id == threads[t].id
  IN  /\ threads[t].stage = "consume"
      /\ threads' = [threads EXCEPT ![t].stage = "clean",
                       ![t].keys = IF bindings[id] = NoMap THEN {} ELSE bindings[id]]
      /\ bindings' = [bindings EXCEPT ![id] = NoMap]
      /\ Overrun(t)
      /\ UNCHANGED <<now, leases, scan, notified, acked>>

\* One consumed key is deleted from the store.
CleanKey(t, k) ==
  /\ threads[t].stage = "clean"
  /\ k \in threads[t].keys
  /\ threads' = [threads EXCEPT ![t].keys = @ \ {k}]
  /\ UNCHANGED <<now, leases, bindings, scan, notified, acked, overrun>>

\* The callback returns.
CallbackDone(t) ==
  /\ threads[t].stage = "clean"
  /\ threads[t].keys = {}
  /\ threads' = [threads EXCEPT ![t].stage = "idle"]
  /\ UNCHANGED <<now, leases, bindings, scan, notified, acked, overrun>>

-----------------------------------------------------------------------------
(* Specification *)

Init ==
  /\ now = 0
  /\ leases = [id \in Leases |-> [here |-> FALSE, exp |-> 0, gen |-> 0]]
  /\ bindings = [id \in Leases |-> NoMap]
  /\ threads = [t \in Threads |-> [stage |-> "idle", id |-> CHOOSE id \in Leases : TRUE,
                                   gen |-> 0, keys |-> {}]]
  /\ scan = {}
  /\ notified = {}
  /\ acked = [id \in Leases |-> 0]
  /\ overrun = {}

CallbackStep(t) ==
  \/ Notify(t)
  \/ ConsumeKeys(t)
  \/ \E k \in Keys : CleanKey(t, k)
  \/ CallbackDone(t)

\* The scanner passes the current time, then waits for its reports to end.
ScannerStep ==
  \/ \E at \in Times : ExpireOnce(at)
  \/ \E p \in scan : ScanReport(p[1], p[2])
  \/ CallbackStep(Scanner)

Next ==
  \/ Tick
  \/ \E id \in Leases : Create(id)
  \/ \E t \in Handlers, id \in Leases, at \in Times : Renew(t, id, at)
  \/ \E t \in Handlers, id \in Leases : Revoke(t, id)
  \/ \E id \in Leases, k \in Keys : BindKey(id, k)
  \/ ScannerStep
  \/ \E t \in Handlers : CallbackStep(t)

Spec == Init /\ [][Next]_vars

\* The scan runs again after every interval with the time of that moment, and
\* goroutines inside a callback keep running.
Fairness ==
  /\ WF_vars(ExpireOnce(now))
  /\ WF_vars(\E p \in scan : ScanReport(p[1], p[2]))
  /\ \A t \in Threads : WF_vars(CallbackStep(t))

FairSpec == Spec /\ Fairness

-----------------------------------------------------------------------------
(* Properties *)

\* Every variable has its type; a scan never reports an incarnation that is
\* still registered.
TypeOK ==
  /\ now \in 0..MaxClock
  /\ leases \in [Leases -> Entry]
  /\ bindings \in [Leases -> (SUBSET Keys) \cup {NoMap}]
  /\ threads \in [Threads -> Thread]
  /\ scan \subseteq Incarnation
  /\ notified \subseteq Incarnation
  /\ overrun \subseteq Incarnation
  /\ acked \in [Leases -> 0..now]
  /\ \A p \in scan \cup notified : Removed(p[1], p[2])

\* A lease whose owner does not revoke it survives for TTL - Lag after the
\* last renewal that was acknowledged, whatever stale times the scanner and
\* concurrent renewals carry (lease.go:96-113, expire.go:12-24).
NoEarlyRemoval ==
  [][\A id \in Leases :
       leases[id].here /\ ~leases'[id].here /\ ~(\E t \in Handlers : Revoke(t, id))
         => now + Lag >= acked[id] + TTL]_vars

\* BindKey finds a map to write to (lease.go:137), unless the id was created
\* again before the callback of an earlier incarnation consumed it
\* (lease.go:70, 155-165).
MapLostToLateCallback ==
  \A id \in Leases :
    leases[id].here /\ bindings[id] = NoMap
      => <<id, leases[id].gen>> \in overrun

\* A lease that is overdue is eventually removed or extended: no stream of
\* callbacks, revocations and creations keeps the scanner from it
\* (expire.go:12-53).
OverdueRemoved ==
  \A id \in Leases :
    leases[id].here /\ leases[id].exp <= now
      ~> ~leases[id].here \/ leases[id].exp > now

\* The deadlines other components rely on.
table == [id \in Leases |-> IF leases[id].here THEN leases[id].exp ELSE 0]

LeaseTable == INSTANCE LeaseSpec

\* The manager implements the table of deadlines: a lease leaves it only when
\* revoked or overdue at a time its remover has just read, and only a renewal
\* in time moves a deadline, in every interleaving of handlers, scans and
\* callbacks (lease.go:56-127, expire.go:12-24).
RefinesLeaseSpec == LeaseTable!Spec
=============================================================================
