----------------------------- MODULE LeaseProofs -----------------------------
(***************************************************************************)
(* Proofs about Lease for every set of leases, keys and goroutines, every  *)
(* ttl and every lag.                                                      *)
(***************************************************************************)
EXTENDS Lease, TLAPS

-----------------------------------------------------------------------------
(* The inductive invariant *)

\* A goroutine inside the callback reports an incarnation that was removed.
ThreadInv ==
  \A t \in Threads :
    threads[t].stage # "idle" => Removed(threads[t].id, threads[t].gen)

\* A registered lease has been created, has a deadline, and that deadline is
\* at most Lag earlier than the acknowledged renewal promises.
DeadlineInv ==
  \A id \in Leases :
    leases[id].here =>
      /\ leases[id].gen > 0
      /\ leases[id].exp > 0
      /\ leases[id].exp + Lag >= acked[id] + TTL

LeaseInv == TypeOK /\ ThreadInv /\ DeadlineInv

-----------------------------------------------------------------------------
(* What a step does to the registered leases *)

\* A lease is left alone, renewed, removed or created again; a removed
\* incarnation stays removed.
LEMMA RemovedStays ==
  ASSUME TypeOK, leases' \in [Leases -> Entry],
         NEW id \in Leases, NEW gen \in Nat, Removed(id, gen),
         \/ leases'[id].gen = leases[id].gen /\ (leases'[id].here => leases[id].here)
         \/ leases'[id].gen = leases[id].gen + 1
  PROVE  Removed(id, gen)'
BY DEF Removed, TypeOK, Entry

LEMMA UnregisterEffect ==
  ASSUME TypeOK, NEW S \in SUBSET Leases, Unregister(S)
  PROVE  /\ leases' \in [Leases -> Entry]
         /\ \A id \in Leases :
              /\ leases'[id].gen = leases[id].gen
              /\ leases'[id].exp = leases[id].exp
              /\ leases'[id].here = (leases[id].here /\ id \notin S)
<1>1. ASSUME NEW id \in Leases PROVE leases[id] \in Entry
  BY DEF TypeOK
<1> QED
  BY <1>1 DEF Unregister, Entry

\* What every operation does to the registered leases: the incarnation of an
\* id stays or is followed by the next one.
LeaseStep ==
  /\ leases' \in [Leases -> Entry]
  /\ \A id \in Leases :
       \/ leases'[id].gen = leases[id].gen /\ (leases'[id].here => leases[id].here)
       \/ leases'[id].gen = leases[id].gen + 1

LEMMA ReportsStay ==
  ASSUME TypeOK, LeaseStep
  PROVE  \A id \in Leases, gen \in Nat : Removed(id, gen) => Removed(id, gen)'
BY RemovedStays DEF LeaseStep

\* An entry is registered, or the incarnation it last had is a removed one.
LEMMA UnregisterIsLeaseStep ==
  ASSUME TypeOK, NEW S \in SUBSET Leases, Unregister(S)
  PROVE  /\ LeaseStep
         /\ \A id \in S : leases[id].gen > 0 => Removed(id, leases[id].gen)'
<1>1. \A id \in Leases : leases[id].gen \in Nat
  BY DEF TypeOK, Entry
<1> QED
  BY <1>1, UnregisterEffect DEF LeaseStep, Removed

-----------------------------------------------------------------------------
(* Each operation keeps the invariant *)

LEMMA TickKeeps == LeaseInv /\ Tick => LeaseInv'
<1> SUFFICES ASSUME LeaseInv, Tick PROVE LeaseInv'
  OBVIOUS
<1>1. TypeOK'
  BY LeaseAssumption DEF LeaseInv, TypeOK, Tick, Removed
<1>2. ThreadInv'
  BY DEF LeaseInv, ThreadInv, Tick, Removed
<1>3. DeadlineInv'
  BY DEF LeaseInv, DeadlineInv, Tick
<1> QED
  BY <1>1, <1>2, <1>3 DEF LeaseInv

LEMMA CreateKeeps ==
  ASSUME LeaseInv, NEW id \in Leases, Create(id)
  PROVE  LeaseInv'
<1>0. /\ leases \in [Leases -> Entry]
      /\ now \in Nat
      /\ TTL \in Nat \ {0}
      /\ Lag \in Nat
  BY LeaseAssumption DEF LeaseInv, TypeOK
<1>1. LeaseStep
  BY <1>0 DEF LeaseStep, Create, Entry
<1>2. \A j \in Leases, gen \in Nat : Removed(j, gen) => Removed(j, gen)'
  BY <1>1, ReportsStay DEF LeaseInv
<1>3. TypeOK'
  <2>1. \A p \in (scan \cup notified)' : Removed(p[1], p[2])'
    BY <1>2 DEF Create, LeaseInv, TypeOK, Incarnation
  <2>2. bindings' \in [Leases -> (SUBSET Keys) \cup {NoMap}]
    BY DEF Create, LeaseInv, TypeOK
  <2>3. acked' \in [Leases -> 0..now']
    BY <1>0 DEF Create, LeaseInv, TypeOK
  <2> QED
    BY <1>1, <2>1, <2>2, <2>3 DEF Create, LeaseInv, TypeOK, LeaseStep
<1>4. ThreadInv'
  BY <1>2 DEF Create, LeaseInv, ThreadInv, TypeOK, Thread
<1>5. DeadlineInv'
  <2>1. ASSUME NEW j \in Leases, j # id
        PROVE  leases'[j] = leases[j] /\ acked'[j] = acked[j]
    BY <2>1 DEF Create, LeaseInv, TypeOK
  <2>2. /\ leases'[id] = [here |-> TRUE, exp |-> now + TTL, gen |-> leases[id].gen + 1]
        /\ acked'[id] = now
    BY DEF Create, LeaseInv, TypeOK
  <2>3. leases[id].gen \in Nat
    BY <1>0 DEF Entry
  <2> QED
    BY <1>0, <2>1, <2>2, <2>3 DEF DeadlineInv, LeaseInv
<1> QED
  BY <1>3, <1>4, <1>5 DEF LeaseInv

LEMMA RenewOkKeeps ==
  ASSUME LeaseInv, NEW t \in Handlers, NEW id \in Leases, NEW at \in Times,
         Renew(t, id, at), RenewOk(id, at)
  PROVE  LeaseInv'
<1>0. /\ leases \in [Leases -> Entry]
      /\ now \in Nat
      /\ at \in Nat
      /\ at <= now
      /\ at + Lag >= now
      /\ TTL \in Nat \ {0}
      /\ Lag \in Nat
  BY LeaseAssumption DEF LeaseInv, TypeOK, Times
<1>1. LeaseStep
  BY <1>0 DEF LeaseStep, RenewOk, Entry
<1>2. \A j \in Leases, gen \in Nat : Removed(j, gen) => Removed(j, gen)'
  BY <1>1, ReportsStay DEF LeaseInv
<1>3. TypeOK'
  <2>1. \A p \in (scan \cup notified)' : Removed(p[1], p[2])'
    BY <1>2 DEF Renew, LeaseInv, TypeOK, Incarnation
  <2>2. acked' \in [Leases -> 0..now']
    BY <1>0 DEF Renew, RenewOk, LeaseInv, TypeOK
  <2> QED
    BY <1>1, <2>1, <2>2 DEF Renew, RenewOk, LeaseInv, TypeOK, LeaseStep
<1>4. ThreadInv'
  BY <1>2 DEF RenewOk, LeaseInv, ThreadInv, TypeOK, Thread
<1>5. DeadlineInv'
  <2>1. ASSUME NEW j \in Leases, j # id
        PROVE  leases'[j] = leases[j] /\ acked'[j] = acked[j]
    BY <2>1 DEF RenewOk, LeaseInv, TypeOK
  <2>2. /\ leases'[id].exp = at + TTL
        /\ leases'[id].here = leases[id].here
        /\ leases'[id].gen = leases[id].gen
        /\ acked'[id] = now
    BY <1>0 DEF RenewOk, LeaseInv, TypeOK, Entry
  <2> QED
    BY <1>0, <2>1, <2>2 DEF DeadlineInv, LeaseInv
<1> QED
  BY <1>3, <1>4, <1>5 DEF LeaseInv

\* A goroutine that removes a lease goes on to report it: a late renewal and
\* a revocation.
LEMMA RemoveAndNotifyKeeps ==
  ASSUME LeaseInv, NEW t \in Handlers, NEW id \in Leases, leases[id].here,
         Unregister({id}), StartNotify(t, id),
         UNCHANGED <<now, bindings, scan, notified, acked, overrun>>
  PROVE  LeaseInv'
<1>0. /\ LeaseStep
      /\ leases[id].gen > 0
      /\ leases[id].gen \in Nat
      /\ Removed(id, leases[id].gen)'
  BY UnregisterIsLeaseStep DEF LeaseInv, DeadlineInv, TypeOK, Entry
<1>2. \A j \in Leases, gen \in Nat : Removed(j, gen) => Removed(j, gen)'
  BY <1>0, ReportsStay DEF LeaseInv
<1>t. t \in Threads
  BY DEF Threads
<1>3. TypeOK'
  <2>1. \A p \in (scan \cup notified)' : Removed(p[1], p[2])'
    BY <1>2 DEF LeaseInv, TypeOK, Incarnation
  <2>2. threads' \in [Threads -> Thread]
    BY <1>0 DEF StartNotify, LeaseInv, TypeOK, Thread
  <2> QED
    BY <1>0, <2>1, <2>2 DEF LeaseInv, TypeOK, LeaseStep
<1>4. ThreadInv'
  <2>1. ASSUME NEW u \in Threads, u # t PROVE threads'[u] = threads[u]
    BY <2>1 DEF StartNotify, LeaseInv, TypeOK
  <2>2. threads'[t] = [stage |-> "notify", id |-> id, gen |-> leases[id].gen, keys |-> {}]
    BY <1>t DEF StartNotify, LeaseInv, TypeOK
  <2>3. \A u \in Threads : threads[u].id \in Leases /\ threads[u].gen \in Nat
    BY DEF LeaseInv, TypeOK, Thread
  <2>4. ASSUME NEW u \in Threads, threads'[u].stage # "idle", u # t
        PROVE  Removed(threads[u].id, threads[u].gen)'
    <3>1. Removed(threads[u].id, threads[u].gen)
      BY <2>1, <2>4 DEF LeaseInv, ThreadInv
    <3> QED
      BY <1>2, <2>1, <2>3, <2>4, <3>1 DEF Removed
  <2>5. Removed(threads[t].id, threads[t].gen)'
    BY <1>0, <2>2, UnregisterEffect DEF Removed, LeaseInv
  <2> QED
    BY <2>4, <2>5 DEF ThreadInv
<1>5. DeadlineInv'
  BY UnregisterEffect DEF LeaseInv, DeadlineInv
<1> QED
  BY <1>3, <1>4, <1>5 DEF LeaseInv

LEMMA BindKeyKeeps ==
  ASSUME LeaseInv, NEW id \in Leases, NEW k \in Keys, BindKey(id, k)
  PROVE  LeaseInv'
<1>1. bindings' \in [Leases -> (SUBSET Keys) \cup {NoMap}]
  BY DEF BindKey, LeaseInv, TypeOK
<1>2. TypeOK'
  BY <1>1 DEF BindKey, LeaseInv, TypeOK, Removed
<1> QED
  BY <1>2 DEF BindKey, LeaseInv, ThreadInv, DeadlineInv, Removed

LEMMA ExpireOnceKeeps ==
  ASSUME LeaseInv, NEW at \in Times, ExpireOnce(at)
  PROVE  LeaseInv'
<1>0. Overdue(at) \in SUBSET Leases /\ \A id \in Overdue(at) : leases[id].here
  BY DEF Overdue
<1>1. /\ LeaseStep
      /\ \A id \in Overdue(at) : Removed(id, leases[id].gen)'
  BY <1>0, UnregisterIsLeaseStep DEF ExpireOnce, LeaseInv, DeadlineInv
<1>2. \A j \in Leases, gen \in Nat : Removed(j, gen) => Removed(j, gen)'
  BY <1>1, ReportsStay DEF LeaseInv
<1>3. TypeOK'
  <2>1. \A id \in Leases : leases[id].gen \in Nat /\ leases'[id].gen = leases[id].gen
    BY <1>0, UnregisterEffect DEF ExpireOnce, LeaseInv, TypeOK, Entry
  <2>2. scan' \subseteq Incarnation
    BY <1>0, <2>1 DEF ExpireOnce, Incarnation
  <2>3. \A p \in scan' : Removed(p[1], p[2])'
    BY <1>0, <1>1, <2>1 DEF ExpireOnce, Removed
  <2>4. \A p \in notified' : Removed(p[1], p[2])'
    BY <1>2 DEF ExpireOnce, LeaseInv, TypeOK, Incarnation
  <2> QED
    BY <1>1, <2>2, <2>3, <2>4 DEF ExpireOnce, LeaseInv, TypeOK, LeaseStep
<1>4. ThreadInv'
  BY <1>2 DEF ExpireOnce, LeaseInv, ThreadInv, TypeOK, Thread
<1>5. DeadlineInv'
  BY <1>0, UnregisterEffect DEF ExpireOnce, LeaseInv, DeadlineInv
<1> QED
  BY <1>3, <1>4, <1>5 DEF LeaseInv

\* The scanner reports an incarnation it removed, whoever holds the id now.
LEMMA ScanReportKeeps ==
  ASSUME LeaseInv, NEW p \in scan, ScanReport(p[1], p[2])
  PROVE  LeaseInv'
<1>1. Removed(p[1], p[2]) /\ p[1] \in Leases /\ p[2] \in Nat
  BY DEF LeaseInv, TypeOK, Incarnation
<1>s. Scanner \in Threads
  BY DEF Threads
<1>2. TypeOK'
  <2>1. threads' \in [Threads -> Thread]
    BY <1>1 DEF ScanReport, LeaseInv, TypeOK, Thread
  <2> QED
    BY <2>1 DEF ScanReport, LeaseInv, TypeOK, Removed
<1>3. ThreadInv'
  BY <1>1, <1>s DEF ScanReport, LeaseInv, ThreadInv, TypeOK, Removed
<1> QED
  BY <1>2, <1>3 DEF ScanReport, LeaseInv, DeadlineInv

LEMMA CallbackKeeps ==
  ASSUME LeaseInv, NEW t \in Threads, CallbackStep(t)
  PROVE  LeaseInv'
<1>0. /\ threads[t] \in Thread
      /\ threads[t].id \in Leases
      /\ threads[t].gen \in Nat
      /\ leases[threads[t].id].gen \in Nat
      /\ threads[t].stage # "idle" => Removed(threads[t].id, threads[t].gen)
  BY DEF LeaseInv, TypeOK, Thread, Entry, ThreadInv
<1>1. UNCHANGED <<now, leases, scan, acked>>
  BY DEF CallbackStep, Notify, ConsumeKeys, CleanKey, CallbackDone
<1>2. threads' \in [Threads -> Thread]
  <2>1. CASE Notify(t)
    BY <1>0, <2>1 DEF Notify, LeaseInv, TypeOK, Thread
  <2>2. CASE ConsumeKeys(t)
    <3>1. PICK K \in SUBSET Keys :
            threads' = [threads EXCEPT ![t].stage = "clean", ![t].keys = K]
      BY <1>0, <2>2 DEF ConsumeKeys, LeaseInv, TypeOK
    <3> QED
      BY <1>0, <3>1 DEF LeaseInv, TypeOK, Thread
  <2>3. CASE \E k \in Keys : CleanKey(t, k)
    BY <1>0, <2>3 DEF CleanKey, LeaseInv, TypeOK, Thread
  <2>4. CASE CallbackDone(t)
    BY <1>0, <2>4 DEF CallbackDone, LeaseInv, TypeOK, Thread
  <2> QED
    BY <2>1, <2>2, <2>3, <2>4 DEF CallbackStep
<1>3. /\ threads'[t].id = threads[t].id
      /\ threads'[t].gen = threads[t].gen
      /\ threads[t].stage # "idle"
      /\ \A u \in Threads : u # t => threads'[u] = threads[u]
  BY <1>0 DEF CallbackStep, Notify, ConsumeKeys, CleanKey, CallbackDone, LeaseInv,
              TypeOK, Thread
<1>4. ThreadInv'
  BY <1>0, <1>1, <1>3 DEF LeaseInv, ThreadInv, Removed
<1>5. /\ overrun' \subseteq Incarnation
      /\ notified' \subseteq Incarnation
      /\ \A p \in notified' : Removed(p[1], p[2])
  <2>1. CASE Notify(t)
    BY <1>0, <2>1 DEF Notify, Overrun, LeaseInv, TypeOK, Incarnation
  <2>2. CASE ConsumeKeys(t)
    BY <1>0, <2>2 DEF ConsumeKeys, Overrun, LeaseInv, TypeOK, Incarnation
  <2>3. CASE (\E k \in Keys : CleanKey(t, k)) \/ CallbackDone(t)
    BY <2>3 DEF CleanKey, CallbackDone, LeaseInv, TypeOK
  <2> QED
    BY <2>1, <2>2, <2>3 DEF CallbackStep
<1>6. bindings' \in [Leases -> (SUBSET Keys) \cup {NoMap}]
  <2>1. CASE ConsumeKeys(t)
    BY <1>0, <2>1 DEF ConsumeKeys, LeaseInv, TypeOK
  <2>2. CASE UNCHANGED bindings
    BY <2>2 DEF LeaseInv, TypeOK
  <2> QED
    BY <2>1, <2>2 DEF CallbackStep, Notify, CleanKey, CallbackDone
<1>7. TypeOK'
  BY <1>1, <1>2, <1>5, <1>6 DEF LeaseInv, TypeOK, Removed
<1> QED
  BY <1>1, <1>4, <1>7 DEF LeaseInv, DeadlineInv

-----------------------------------------------------------------------------
(* The invariant holds, and what follows from it *)

LEMMA LeaseInvInit == Init => LeaseInv
<1> SUFFICES ASSUME Init PROVE LeaseInv
  OBVIOUS
<1>1. (CHOOSE id \in Leases : TRUE) \in Leases
  BY LeaseAssumption
<1>2. TypeOK
  <2>1. threads \in [Threads -> Thread]
    <3> DEFINE first == CHOOSE id \in Leases : TRUE
    <3>1. first \in Leases
      BY <1>1
    <3>2. threads = [t \in Threads |-> [stage |-> "idle", id |-> first, gen |-> 0, keys |-> {}]]
      BY DEF Init
    <3> HIDE DEF first
    <3> QED
      BY <3>1, <3>2 DEF Thread
  <2>2. leases \in [Leases -> Entry]
    BY DEF Init, Entry
  <2> QED
    BY <2>1, <2>2, LeaseAssumption DEF Init, TypeOK
<1> QED
  BY <1>2 DEF Init, LeaseInv, ThreadInv, DeadlineInv

\* The operations of Next, with the two outcomes of Renew apart.
LEMMA StepCases ==
  ASSUME [Next]_vars
  PROVE  \/ UNCHANGED vars
         \/ Tick
         \/ \E id \in Leases : Create(id)
         \/ \E t \in Handlers, id \in Leases, at \in Times :
              Renew(t, id, at) /\ RenewOk(id, at)
         \/ \E t \in Handlers, id \in Leases, at \in Times :
              Renew(t, id, at) /\ RenewLate(t, id, at)
         \/ \E t \in Handlers, id \in Leases : Revoke(t, id)
         \/ \E id \in Leases, k \in Keys : BindKey(id, k)
         \/ \E at \in Times : ExpireOnce(at)
         \/ \E p \in scan : ScanReport(p[1], p[2])
         \/ \E t \in Threads : CallbackStep(t)
BY DEF Next, ScannerStep, Threads, Renew

LEMMA LeaseInvStep == LeaseInv /\ [Next]_vars => LeaseInv'
<1> SUFFICES ASSUME LeaseInv, [Next]_vars PROVE LeaseInv'
  OBVIOUS
<1>1. CASE UNCHANGED vars
  BY <1>1 DEF vars, LeaseInv, TypeOK, ThreadInv, DeadlineInv, Removed
<1>2. CASE Tick
  BY <1>2, TickKeeps
<1>3. CASE \E id \in Leases : Create(id)
  BY <1>3, CreateKeeps
<1>4. CASE \E t \in Handlers, id \in Leases, at \in Times :
             Renew(t, id, at) /\ RenewOk(id, at)
  BY <1>4, RenewOkKeeps
<1>5. CASE \E t \in Handlers, id \in Leases, at \in Times :
             Renew(t, id, at) /\ RenewLate(t, id, at)
  BY <1>5, RemoveAndNotifyKeeps DEF Renew, RenewLate
<1>6. CASE \E t \in Handlers, id \in Leases : Revoke(t, id)
  BY <1>6, RemoveAndNotifyKeeps DEF Revoke
<1>7. CASE \E id \in Leases, k \in Keys : BindKey(id, k)
  BY <1>7, BindKeyKeeps
<1>8. CASE \E at \in Times : ExpireOnce(at)
  BY <1>8, ExpireOnceKeeps
<1>9. CASE \E p \in scan : ScanReport(p[1], p[2])
  BY <1>9, ScanReportKeeps
<1>10. CASE \E t \in Threads : CallbackStep(t)
  BY <1>10, CallbackKeeps
<1> QED
  BY <1>1, <1>2, <1>3, <1>4, <1>5, <1>6, <1>7, <1>8, <1>9, <1>10, StepCases

LEMMA LeaseInvariant == Spec => []LeaseInv
BY LeaseInvInit, LeaseInvStep, PTL DEF Spec

\* Every variable has its type, and neither a scan nor a callback reports an
\* incarnation that is still registered, for every number of handlers that
\* create the id again meanwhile (lease.go:56-127, expire.go:12-24).
THEOREM TypeCorrect == Spec => []TypeOK
<1>1. LeaseInv => TypeOK
  BY DEF LeaseInv
<1> QED
  BY <1>1, LeaseInvariant, PTL

\* Only ConsumeLeaseKeys takes a binding map away, and when it takes the map
\* of a registered lease it is the callback of an earlier incarnation.
LEMMA MapLostStep ==
  LeaseInv /\ MapLostToLateCallback /\ [Next]_vars => MapLostToLateCallback'
<1> SUFFICES ASSUME LeaseInv, MapLostToLateCallback, [Next]_vars
             PROVE  MapLostToLateCallback'
  OBVIOUS
<1>0. leases \in [Leases -> Entry] /\ DOMAIN bindings = Leases
  BY DEF LeaseInv, TypeOK
<1> DEFINE Same(id) == /\ leases'[id].here => leases[id].here
                       /\ leases'[id].gen = leases[id].gen
                       /\ bindings'[id] = NoMap => bindings[id] = NoMap
<1>1. ASSUME overrun' = overrun, \A id \in Leases : Same(id)
      PROVE  MapLostToLateCallback'
  BY <1>1 DEF MapLostToLateCallback
<1>2. CASE UNCHANGED <<leases, bindings, overrun>>
  BY <1>1, <1>2
<1>3. ASSUME NEW id \in Leases, Create(id) PROVE MapLostToLateCallback'
  <2>1. bindings'[id] # NoMap
    BY <1>0, <1>3, LeaseAssumption DEF Create
  <2>2. \A j \in Leases : j # id => leases'[j] = leases[j] /\ bindings'[j] = bindings[j]
    BY <1>0, <1>3 DEF Create
  <2> QED
    BY <1>3, <2>1, <2>2 DEF MapLostToLateCallback, Create
<1>4. ASSUME NEW t \in Handlers, NEW id \in Leases, NEW at \in Times, Renew(t, id, at),
             RenewOk(id, at)
      PROVE  MapLostToLateCallback'
  <2>1. \A j \in Leases : Same(j)
    BY <1>0, <1>4 DEF Renew, RenewOk, Entry
  <2> QED
    BY <1>1, <1>4, <2>1 DEF Renew
<1>5. ASSUME NEW S \in SUBSET Leases, Unregister(S), UNCHANGED <<bindings, overrun>>
      PROVE  MapLostToLateCallback'
  <2>1. \A j \in Leases : Same(j)
    BY <1>5, UnregisterEffect DEF LeaseInv
  <2> QED
    BY <1>1, <1>5, <2>1
<1>6. ASSUME NEW id \in Leases, NEW k \in Keys, BindKey(id, k)
      PROVE  MapLostToLateCallback'
  <2>1. \A j \in Leases : Same(j)
    <3>1. bindings[id] \cup {k} \in SUBSET Keys
      BY <1>6 DEF BindKey, LeaseInv, TypeOK
    <3>2. bindings[id] \cup {k} # NoMap
      BY <3>1, LeaseAssumption
    <3> QED
      BY <1>0, <1>6, <3>2 DEF BindKey
  <2> QED
    BY <1>1, <1>6, <2>1 DEF BindKey
<1>7. ASSUME NEW t \in Threads, Notify(t) PROVE MapLostToLateCallback'
  BY <1>7 DEF Notify, Overrun, MapLostToLateCallback
<1>8. ASSUME NEW t \in Threads, ConsumeKeys(t) PROVE MapLostToLateCallback'
  <2>1. \A j \in Leases : j # threads[t].id => bindings'[j] = bindings[j]
    BY <1>0, <1>8 DEF ConsumeKeys
  <2>2. leases[threads[t].id].here =>
          <<threads[t].id, leases[threads[t].id].gen>> \in overrun'
    BY <1>8 DEF ConsumeKeys, Overrun
  <2>3. leases' = leases /\ overrun \subseteq overrun'
    BY <1>8 DEF ConsumeKeys, Overrun
  <2> QED
    BY <2>1, <2>2, <2>3 DEF MapLostToLateCallback
<1>9. ASSUME NEW t \in Threads, CallbackStep(t) PROVE MapLostToLateCallback'
  BY <1>2, <1>7, <1>8, <1>9 DEF CallbackStep, CleanKey, CallbackDone
<1>10. CASE \E t \in Handlers, id \in Leases, at \in Times :
             Renew(t, id, at) /\ RenewLate(t, id, at)
  BY <1>5, <1>10 DEF Renew, RenewLate
<1>11. CASE \E t \in Handlers, id \in Leases : Revoke(t, id)
  BY <1>5, <1>11 DEF Revoke
<1>12. CASE \E at \in Times : ExpireOnce(at)
  BY <1>5, <1>12 DEF ExpireOnce, Overdue
<1>13. CASE (\E p \in scan : ScanReport(p[1], p[2])) \/ Tick \/ UNCHANGED vars
  BY <1>2, <1>13 DEF ScanReport, Tick, vars
<1> QED
  BY <1>3, <1>4, <1>6, <1>9, <1>10, <1>11, <1>12, <1>13, StepCases

\* BindKey finds a map to write to in a registered lease, whatever handlers,
\* scans and callbacks do, unless the callback of an earlier incarnation of
\* the id has acted on this one (lease.go:70, 137, 155-165).
THEOREM MapLostCorrect == Spec => []MapLostToLateCallback
<1>1. Init => MapLostToLateCallback
  BY DEF Init, MapLostToLateCallback
<1> QED
  BY <1>1, MapLostStep, LeaseInvariant, PTL DEF Spec

\* A lease that is not revoked lives for TTL - Lag after the last Create or
\* Renew that was acknowledged: its remover read a time that had reached the
\* deadline, and no stale renewal sets a deadline more than Lag too early
\* (lease.go:96-113, expire.go:12-24).
THEOREM NoEarlyRemovalCorrect == Spec => NoEarlyRemoval
<1> DEFINE Kept(id) == leases[id].here /\ ~leases'[id].here
                          /\ ~(\E t \in Handlers : Revoke(t, id))
                            => now + Lag >= acked[id] + TTL
<1>1. LeaseInv /\ [Next]_vars => \A id \in Leases : Kept(id)
  <2> SUFFICES ASSUME LeaseInv, [Next]_vars, NEW id \in Leases PROVE Kept(id)
    OBVIOUS
  <2>0. /\ leases \in [Leases -> Entry]
        /\ now \in Nat /\ Lag \in Nat /\ TTL \in Nat
        /\ acked[id] \in Nat
        /\ leases[id].exp \in Nat
    BY LeaseAssumption DEF LeaseInv, TypeOK, Entry
  <2>1. ASSUME leases[id].here, NEW at \in Times, leases[id].exp <= at PROVE Kept(id)
    BY <2>0, <2>1 DEF LeaseInv, DeadlineInv, Times
  <2>2. CASE leases' = leases
    BY <2>2
  <2>3. CASE \E j \in Leases : Create(j)
    BY <2>0, <2>3 DEF Create
  <2>4. CASE \E t \in Handlers, j \in Leases, at \in Times :
               Renew(t, j, at) /\ RenewOk(j, at)
    BY <2>0, <2>4 DEF RenewOk, Entry
  <2>5. CASE \E t \in Handlers, j \in Leases, at \in Times :
               Renew(t, j, at) /\ RenewLate(t, j, at)
    <3>1. PICK t \in Handlers, j \in Leases, at \in Times :
            Renew(t, j, at) /\ RenewLate(t, j, at)
      BY <2>5
    <3>2. leases'[id].here = (leases[id].here /\ id \notin {j})
      BY <3>1, UnregisterEffect DEF RenewLate, LeaseInv
    <3>3. leases[j].here /\ leases[j].exp <= at
      BY <3>1 DEF Renew, RenewLate
    <3> QED
      BY <2>1, <3>2, <3>3
  <2>6. CASE \E t \in Handlers, j \in Leases : Revoke(t, j)
    <3>1. PICK t \in Handlers, j \in Leases : Revoke(t, j)
      BY <2>6
    <3>2. leases'[id].here = (leases[id].here /\ id \notin {j})
      BY <3>1, UnregisterEffect DEF Revoke, LeaseInv
    <3> QED
      BY <3>1, <3>2
  <2>7. CASE \E at \in Times : ExpireOnce(at)
    <3>1. PICK at \in Times : ExpireOnce(at)
      BY <2>7
    <3>2. Overdue(at) \in SUBSET Leases
      BY DEF Overdue
    <3> QED
      BY <2>1, <3>1, <3>2, UnregisterEffect DEF ExpireOnce, Overdue, LeaseInv
  <2> QED
    BY <2>2, <2>3, <2>4, <2>5, <2>6, <2>7, StepCases
    DEF vars, Tick, BindKey, ScanReport, CallbackStep, Notify, ConsumeKeys, CleanKey,
        CallbackDone
<1> QED
  BY <1>1, LeaseInvariant, PTL DEF Spec, NoEarlyRemoval

-----------------------------------------------------------------------------
(* Refinement of LeaseSpec *)

LEMMA UnregisterRefines ==
  ASSUME LeaseInv, NEW S \in SUBSET Leases, Unregister(S)
  PROVE  table' = [id \in Leases |-> IF id \in S THEN 0 ELSE table[id]]
BY UnregisterEffect DEF table, LeaseInv

LEMMA TableEntry ==
  ASSUME LeaseInv, NEW id \in Leases
  PROVE  /\ LeaseTable!Registered(id) <=> leases[id].here
         /\ table[id] = IF leases[id].here THEN leases[id].exp ELSE 0
<1>1. leases[id].exp \in Nat /\ leases[id].here \in BOOLEAN
  BY DEF LeaseInv, TypeOK, Entry
<1> QED
  BY <1>1 DEF LeaseTable!Registered, table, LeaseInv, DeadlineInv

LEMMA LeaseStepRefines ==
  LeaseInv /\ [Next]_vars => [LeaseTable!Next]_LeaseTable!leaseVars
<1> SUFFICES ASSUME LeaseInv, [Next]_vars
             PROVE  [LeaseTable!Next]_LeaseTable!leaseVars
  OBVIOUS
<1>0. leases \in [Leases -> Entry] /\ table = [id \in Leases |-> table[id]]
  BY DEF LeaseInv, TypeOK, table
<1>t. LeaseTable!Times = Times
  BY DEF LeaseTable!Times, Times
<1>1. CASE UNCHANGED <<now, leases>>
  BY <1>1 DEF LeaseTable!leaseVars, table
<1>2. CASE Tick
  BY <1>2 DEF Tick, LeaseTable!Next, LeaseTable!Tick, table
<1>3. ASSUME NEW id \in Leases, Create(id) PROVE LeaseTable!Next
  <2>1. table' = [table EXCEPT ![id] = now + TTL]
    BY <1>0, <1>3 DEF Create, table
  <2> QED
    BY <1>3, <2>1, TableEntry DEF Create, LeaseTable!Next, LeaseTable!Create
<1>4. ASSUME NEW t \in Handlers, NEW id \in Leases, NEW at \in Times, Renew(t, id, at),
             RenewOk(id, at)
      PROVE  LeaseTable!Next
  <2>1. table' = [table EXCEPT ![id] = at + TTL]
    BY <1>0, <1>4 DEF Renew, RenewOk, table, Entry
  <2>2. table[id] > at
    BY <1>4, TableEntry DEF Renew, RenewOk
  <2> QED
    BY <1>4, <1>t, <2>1, <2>2 DEF Renew, LeaseTable!Next, LeaseTable!Renew
<1>5. ASSUME NEW S \in SUBSET Leases, NEW at \in Times, Unregister(S), now' = now,
             \A id \in S : leases[id].here /\ leases[id].exp <= at
      PROVE  LeaseTable!Next
  <2>1. LeaseTable!Expire(S, at)
    BY <1>5, TableEntry, UnregisterRefines DEF LeaseTable!Expire
  <2> QED
    BY <1>t, <2>1 DEF LeaseTable!Next
<1>6. CASE \E t \in Handlers, id \in Leases, at \in Times :
             Renew(t, id, at) /\ RenewLate(t, id, at)
  BY <1>5, <1>6 DEF Renew, RenewLate
<1>7. CASE \E at \in Times : ExpireOnce(at)
  BY <1>5, <1>7 DEF ExpireOnce, Overdue
<1>8. ASSUME NEW t \in Handlers, NEW id \in Leases, Revoke(t, id) PROVE LeaseTable!Next
  <2>1. table' = [table EXCEPT ![id] = 0]
    <3>1. table' = [j \in Leases |-> IF j \in {id} THEN 0 ELSE table[j]]
      BY <1>8, UnregisterRefines DEF Revoke
    <3> QED
      BY <1>0, <3>1
  <2> QED
    BY <1>8, <2>1, TableEntry DEF Revoke, LeaseTable!Next, LeaseTable!Revoke
<1> QED
  BY <1>1, <1>2, <1>3, <1>4, <1>6, <1>7, <1>8, StepCases
  DEF vars, BindKey, ScanReport, CallbackStep, Notify, ConsumeKeys, CleanKey,
      CallbackDone

\* The lease manager implements the table of deadlines of LeaseSpec, on which
\* Election and Session are built: a lease leaves it only when revoked or
\* overdue at a time its remover has just read, and only a renewal in time
\* moves a deadline (lease.go:56-127, expire.go:12-24).
THEOREM LeaseRefinesSpec == Spec => RefinesLeaseSpec
<1>1. Init => LeaseTable!Init
  BY DEF Init, LeaseTable!Init, table
<1> QED
  BY <1>1, LeaseStepRefines, LeaseInvariant, PTL DEF Spec, RefinesLeaseSpec, LeaseTable!Spec
=============================================================================
