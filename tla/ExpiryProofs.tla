---------------------------- MODULE ExpiryProofs ----------------------------
(***************************************************************************)
(* Proofs about Expiry, the composition of the lease manager and the lock  *)
(* manager by expiryHandler.  What a step of one manager preserves is      *)
(* taken from LeaseProofs and LockProofs; what is new here relates the two *)
(* through the incarnations of a lease id.                                 *)
(***************************************************************************)
EXTENDS Expiry, TLAPS

LSP == INSTANCE LeaseProofs
LKP == INSTANCE LockProofs WITH alive <- {id \in Leases : leases[id].here}

-----------------------------------------------------------------------------
(* The invariants *)

PutRecord == [stage : {"idle", "bound", "done"}, id : Leases \cup {NoLease}, gen : Nat,
              late : BOOLEAN, key : Keys]

PutType ==
  /\ puts \in [Puts -> PutRecord]
  /\ kv \in [Keys -> Puts \cup {NoPut}]

\* Requests and puts know no incarnation that is yet to come.
UnderInv ==
  \A r \in Requests : LeaseOf[r] # NoLease => under[r] <= leases[LeaseOf[r]].gen

PutGenInv ==
  \A p \in Puts : puts[p].stage # "idle" /\ puts[p].id # NoLease =>
    puts[p].gen > 0 /\ puts[p].gen <= leases[puts[p].id].gen

\* The incarnation a request asked under is the last one of its lease, and no
\* callback of an earlier one has run into it.
Current(r) ==
  LeaseOf[r] # NoLease =>
    under[r] = leases[LeaseOf[r]].gen /\ <<LeaseOf[r], under[r]>> \notin overrun

\* Such a request holds the lock it was granted.
CurrentInv == \A r \in Requests : Current(r) => LKP!GrantedTo(r)

\* Put p bound key k under lease id.
Bound(p, id, k) == puts[p].stage # "idle" /\ puts[p].id = id /\ puts[p].key = k

\* A bound key was bound by a put.
BindingInv ==
  \A id \in Leases :
    bindings[id] # NoMap => \A k \in bindings[id] : \E q \in Puts : Bound(q, id, k)

\* So was every key a callback is to delete, under an incarnation that has
\* ended or that the callback ran into.
CleaningInv ==
  \A t \in LS!Threads :
    threads[t].stage = "clean" =>
      \A k \in threads[t].keys : \E q \in Puts :
        /\ Bound(q, threads[t].id, k)
        /\ LS!Removed(puts[q].id, puts[q].gen) \/ <<puts[q].id, puts[q].gen>> \in overrun

\* A value is in the store under the key of a put that has finished.
StoredInv ==
  \A k \in Keys : kv[k] # NoPut => puts[kv[k]].stage = "done" /\ puts[kv[k]].key = k

\* Put p was under the last incarnation of its lease, and no callback of an
\* earlier one has run into that.
PutCurrent(p) ==
  /\ puts[p].stage # "idle"
  /\ puts[p].id # NoLease
  /\ puts[p].gen = leases[puts[p].id].gen
  /\ <<puts[p].id, puts[p].gen>> \notin overrun

InMap(p) == bindings[puts[p].id] # NoMap /\ puts[p].key \in bindings[puts[p].id]

InCallback(p) ==
  \E t \in LS!Threads : /\ threads[t].id = puts[p].id
                        /\ threads[t].stage = "clean"
                        /\ puts[p].key \in threads[t].keys

\* While that incarnation lives its map has the key; when it has ended and the
\* value is still there, the key is in the map or on the list of a callback.
KeptInv ==
  \A p \in Puts : PutCurrent(p) =>
    /\ leases[puts[p].id].here => InMap(p)
    /\ kv[puts[p].key] = p /\ ~puts[p].late => InMap(p) \/ InCallback(p)

\* After the callback was invoked for the last incarnation of a lease, its map
\* is gone or a callback is about to take it.
TakenInv ==
  \A id \in Leases :
    <<id, leases[id].gen>> \in notified /\ bindings[id] # NoMap =>
      \E t \in LS!Threads : threads[t].id = id /\ threads[t].stage = "consume"

PutSide ==
  PutType /\ PutGenInv /\ BindingInv /\ CleaningInv /\ StoredInv /\ KeptInv /\ TakenInv

-----------------------------------------------------------------------------
(* Lease and Lock as their proofs see them *)

LEMMA Assumptions == LSP!LeaseAssumption /\ LKP!RequestAssumption
BY ExpiryAssumption DEF LSP!LeaseAssumption, LKP!RequestAssumption

LEMMA LeaseOperators ==
  /\ LS!Threads = LSP!Threads
  /\ LS!Times = LSP!Times
  /\ \A id, gen : LS!Removed(id, gen) <=> LSP!Removed(id, gen)
  /\ \A id, gen : LS!Removed(id, gen)' <=> LSP!Removed(id, gen)'
BY DEF LS!Threads, LSP!Threads, LS!Times, LSP!Times, LS!Removed, LSP!Removed

LEMMA LeaseOperations ==
  /\ LS!Init => LSP!Init
  /\ LS!Tick => LSP!Tick
  /\ \A id : LS!Create(id) => LSP!Create(id)
  /\ \A t, id, at : LS!RenewOk(id, at) => LSP!RenewOk(id, at)
  /\ \A t, id, at : LS!RenewLate(t, id, at) => LSP!RenewLate(t, id, at)
  /\ \A t, id, at : LS!Renew(t, id, at) => LSP!Renew(t, id, at)
  /\ \A t, id : LS!Revoke(t, id) => LSP!Revoke(t, id)
  /\ \A id, k : LS!BindKey(id, k) => LSP!BindKey(id, k)
  /\ \A at : LS!ExpireOnce(at) => LSP!ExpireOnce(at)
  /\ \A id, gen : LS!ScanReport(id, gen) => LSP!ScanReport(id, gen)
<1>1. LS!Init => LSP!Init
  BY DEF LS!Init, LSP!Init, LS!Threads, LSP!Threads
<1>2. (LS!Tick => LSP!Tick) /\ \A id : LS!Create(id) => LSP!Create(id)
  BY DEF LS!Tick, LSP!Tick, LS!Create, LSP!Create
<1>3. ASSUME NEW t, NEW id, NEW at
      PROVE  /\ LS!RenewOk(id, at) => LSP!RenewOk(id, at)
             /\ LS!RenewLate(t, id, at) => LSP!RenewLate(t, id, at)
             /\ LS!Renew(t, id, at) => LSP!Renew(t, id, at)
             /\ LS!Revoke(t, id) => LSP!Revoke(t, id)
  BY DEF LS!RenewOk, LSP!RenewOk, LS!RenewLate, LSP!RenewLate, LS!Renew, LSP!Renew,
         LS!Revoke, LSP!Revoke, LS!Unregister, LSP!Unregister, LS!StartNotify, LSP!StartNotify
<1>4. \A id, k : LS!BindKey(id, k) => LSP!BindKey(id, k)
  BY DEF LS!BindKey, LSP!BindKey
<1>5. \A at : LS!ExpireOnce(at) => LSP!ExpireOnce(at)
  BY DEF LS!ExpireOnce, LSP!ExpireOnce, LS!Overdue, LSP!Overdue, LS!Unregister,
         LSP!Unregister
<1>6. \A id, gen : LS!ScanReport(id, gen) => LSP!ScanReport(id, gen)
  BY DEF LS!ScanReport, LSP!ScanReport
<1> QED
  BY <1>1, <1>2, <1>3, <1>4, <1>5, <1>6

LEMMA CallbackOperations ==
  ASSUME NEW t
  PROVE  /\ LS!Notify(t) => LSP!Notify(t)
         /\ LS!ConsumeKeys(t) => LSP!ConsumeKeys(t)
         /\ \A k : LS!CleanKey(t, k) => LSP!CleanKey(t, k)
         /\ LS!CallbackDone(t) => LSP!CallbackDone(t)
BY DEF LS!Notify, LSP!Notify, LS!ConsumeKeys, LSP!ConsumeKeys, LS!Overrun, LSP!Overrun,
       LS!CleanKey, LSP!CleanKey, LS!CallbackDone, LSP!CallbackDone

\* A step of the composition is one of the lease manager or leaves it alone.
LEMMA LeaseSide ==
  ASSUME [Next]_vars
  PROVE  [LSP!Next]_(LSP!vars)
<1>1. ASSUME UNCHANGED leaseVars PROVE UNCHANGED LSP!vars
  BY <1>1 DEF leaseVars, LSP!vars
<1>2. ASSUME NEW p \in Puts, NEW id \in Leases \cup {NoLease}, NEW k \in Keys,
             PutBegin(p, id, k)
      PROVE  [LSP!Next]_(LSP!vars)
  BY <1>1, <1>2, LeaseOperations DEF PutBegin, LSP!Next
<1>3. ASSUME (\E p \in Puts : PutStore(p)) \/ (\E r \in Requests : LockStep(r))
      PROVE  UNCHANGED LSP!vars
  BY <1>1, <1>3 DEF PutStore, LockStep
<1>4. ASSUME LeaseStep PROVE LSP!Next
  BY <1>4, LeaseOperators, LeaseOperations DEF LeaseStep, LSP!Next, LSP!ScannerStep
<1>5. ASSUME NEW t \in LS!Threads, HandlerStep(t) PROVE LSP!Next
  <2>1. LSP!CallbackStep(t)
    BY <1>5, CallbackOperations
    DEF HandlerStep, HandlerReleases, HandlerConsumes, HandlerDeletes, HandlerReturns,
        LSP!CallbackStep
  <2> QED
    BY <2>1 DEF LS!Threads, LSP!Next, LSP!ScannerStep
<1> QED
  BY <1>1, <1>2, <1>3, <1>4, <1>5 DEF Next, vars

LEMMA LeaseInvStep ==
  ASSUME LSP!LeaseInv, [Next]_vars
  PROVE  LSP!LeaseInv'
BY Assumptions, LeaseSide, LSP!LeaseInvStep

LEMMA LockOperators ==
  /\ \A l : LK!First(l) = LKP!First(l)
  /\ \A l : LK!Grantee(l) = LKP!Grantee(l)
  /\ \A l : LK!Remaining(l) = LKP!Remaining(l)
  /\ \A l : LK!Handover(l) = LKP!Handover(l)
<1>1. \A l : LK!First(l) = LKP!First(l)
  BY DEF LK!First, LKP!First, LK!LeaseLives, LKP!LeaseLives
<1>2. ASSUME NEW l PROVE LK!Grantee(l) = LKP!Grantee(l)
  <2> DEFINE pick(S) == IF S = {} THEN NoRequest ELSE CHOOSE r \in S : TRUE
  <2>1. LK!Grantee(l) = pick(LK!First(l)) /\ LKP!Grantee(l) = pick(LKP!First(l))
    BY DEF LK!Grantee, LKP!Grantee
  <2> HIDE DEF pick
  <2> QED
    BY <1>1, <2>1
<1>3. \A l : LK!Remaining(l) = LKP!Remaining(l)
  BY <1>1 DEF LK!Remaining, LKP!Remaining, LK!LeaseLives, LKP!LeaseLives
<1> QED
  BY <1>1, <1>2, <1>3 DEF LK!Handover, LKP!Handover, LK!Persisted, LKP!Persisted

LEMMA LockOperations ==
  /\ \A S : LK!ReleaseLocked(S) => LKP!ReleaseLocked(S)
  /\ \A r : LK!RequestStep(r) => LKP!RequestStep(r)
<1>1. ASSUME NEW S, LK!ReleaseLocked(S) PROVE LKP!ReleaseLocked(S)
  BY <1>1, LockOperators DEF LK!ReleaseLocked, LKP!ReleaseLocked
<1>2. ASSUME NEW r
      PROVE  /\ LK!TryAcquire(r) => LKP!TryAcquire(r)
             /\ LK!Enqueue(r) => LKP!Enqueue(r)
             /\ LK!Woken(r) => LKP!Woken(r)
             /\ LK!ContextDone(r) => LKP!ContextDone(r)
             /\ LK!Cancel(r) => LKP!Cancel(r)
  BY DEF LK!TryAcquire, LKP!TryAcquire, LK!Enqueue, LKP!Enqueue, LK!Woken, LKP!Woken,
         LK!ContextDone, LKP!ContextDone, LK!Cancel, LKP!Cancel, LK!Cancelled, LKP!Cancelled,
         LK!Persisted, LKP!Persisted, LK!managerVars, LKP!managerVars
<1>3. ASSUME NEW r PROVE LK!Release(r) => LKP!Release(r)
  BY <1>1 DEF LK!Release, LKP!Release, LK!MayRelease, LKP!MayRelease,
              LK!managerVars, LKP!managerVars
<1> QED
  BY <1>1, <1>2, <1>3 DEF LK!RequestStep, LKP!RequestStep

-----------------------------------------------------------------------------
(* Locks *)

LockInv == LKP!TypeOK /\ LKP!ManagerInv /\ LKP!JournalFollows

\* What the lock manager promises whatever leases live.
LEMMA LockVarsStay ==
  ASSUME LockInv, UNCHANGED lockVars
  PROVE  /\ LockInv'
         /\ \A q \in Requests : LKP!GrantedTo(q) => LKP!GrantedTo(q)'
<1>1. UNCHANGED <<LKP!requestVars, LKP!managerVars>>
  BY DEF lockVars, LKP!requestVars, LKP!managerVars
<1>2. LKP!ManagerInv' /\ \A q \in Requests : LKP!GrantedTo(q) => LKP!GrantedTo(q)'
  BY <1>1, LKP!LeasesDoNotMatter, Assumptions DEF LockInv
<1>3. LKP!TypeOK'
  BY DEF lockVars, LockInv, LKP!TypeOK
<1>4. LKP!JournalFollows'
  BY DEF lockVars, LockInv, LKP!JournalFollows
<1> QED
  BY <1>2, <1>3, <1>4 DEF LockInv

\* A step of a request.
LEMMA RequestKeeps ==
  ASSUME LKP!DistinctNames, LockInv, NEW r \in Requests, LockStep(r)
  PROVE  /\ LockInv'
         /\ \A q \in Requests : LKP!GrantedTo(q) => LKP!GrantedTo(q)'
<1>1. LKP!RequestStep(r)
  BY LockOperations DEF LockStep
<1>2. LKP!Keeps
  BY <1>1, LKP!RequestStepKeeps, Assumptions DEF LockInv
<1>3. LKP!TypeOK'
  BY <1>1, LKP!TypeStep, Assumptions DEF LockInv, LKP!Next
<1>4. LKP!JournalFollows'
  BY <1>1, LKP!JournalRequest, Assumptions DEF LockInv
<1> QED
  BY <1>2, <1>3, <1>4 DEF LockInv, LKP!Keeps

\* The callback's ReleaseByLease: it takes locks only from requests under the
\* lease, and none when the lease is not registered.
LEMMA CallbackTakes ==
  ASSUME LockInv, LSP!LeaseInv, NEW t \in LS!Threads, HandlerReleases(t)
  PROVE  /\ LockInv'
         /\ \A q \in Requests :
              LKP!GrantedTo(q) =>
                \/ LKP!GrantedTo(q)'
                \/ LeaseOf[q] = threads[t].id /\ leases[threads[t].id].here
<1> DEFINE id == threads[t].id
           S == LK!HeldUnder(id)
<1>1. LK!ReleaseByLease(id) /\ leases' = leases
  BY DEF HandlerReleases, LS!Notify
<1>2. /\ pc' = pc /\ late' = late
      /\ {i \in Leases : leases'[i].here} = {i \in Leases : leases[i].here}
  BY <1>1 DEF LK!ReleaseByLease, LK!requestVars
<1>3. id \in Leases
  BY LeaseOperators DEF LSP!LeaseInv, LSP!TypeOK, LSP!Thread
<1>4. CASE ~leases[id].here
  <2>1. UNCHANGED LK!managerVars
    BY <1>1, <1>4 DEF LK!ReleaseByLease
  <2>2. UNCHANGED lockVars
    BY <1>2, <2>1 DEF lockVars, LK!managerVars, HandlerReleases
  <2> QED
    BY <2>2, LockVarsStay
<1>5. CASE leases[id].here
  <2>1. LKP!ReleaseLocked(S)
    BY <1>1, <1>3, <1>5, LockOperations DEF LK!ReleaseByLease
  <2>2. S \in SUBSET Locks /\ (\A l \in S : holder[l] # NoRequest)
        /\ \A l \in S : LeaseOf[holder[l]] = id
    BY DEF LK!HeldUnder
  <2> HIDE DEF S
  <2>3. /\ LKP!ManagerInv'
        /\ \A q \in Requests :
             LKP!GrantedTo(q) =>
               \/ LKP!GrantedTo(q)'
               \/ LockOf[q] \in S /\ holder[LockOf[q]] = q /\ pc'[q] = pc[q]
    BY <1>2, <2>1, <2>2, LKP!ReleaseLockedStep, Assumptions DEF LockInv
  <2>4. LKP!JournalFollows'
    BY <2>1, <2>2, LKP!JournalRelease, Assumptions DEF LockInv
  <2>5. LKP!TypeOK'
    BY <1>2, <2>1, <2>2, LKP!ReleaseType, Assumptions DEF LockInv, LKP!TypeOK
  <2>6. \A q \in Requests :
          LockOf[q] \in S /\ holder[LockOf[q]] = q => LeaseOf[q] = id
    BY <2>2
  <2> QED
    BY <1>5, <2>3, <2>4, <2>5, <2>6 DEF LockInv
<1> QED
  BY <1>4, <1>5

-----------------------------------------------------------------------------
(* Holders *)

\* Incarnations only follow each other, and what was overrun stays so.
LEMMA LeaseEffect ==
  ASSUME LSP!LeaseInv, [Next]_vars
  PROVE  /\ overrun \subseteq overrun'
         /\ \A id \in Leases :
              /\ leases[id].gen \in Nat /\ leases'[id].gen \in Nat
              /\ \/ leases'[id].gen = leases[id].gen
                 \/ leases'[id].gen = leases[id].gen + 1
<1> USE DEF LSP!LeaseInv
<1>1. \A id \in Leases : leases[id].gen \in Nat /\ leases'[id].gen \in Nat
  BY LeaseInvStep DEF LSP!TypeOK, LSP!Entry
<1>2. ASSUME UNCHANGED <<leases, overrun>>
      PROVE  overrun \subseteq overrun' /\ \A id \in Leases : leases'[id].gen = leases[id].gen
  BY <1>2
<1>3. ASSUME NEW S \in SUBSET Leases, LSP!Unregister(S), overrun' = overrun
      PROVE  overrun \subseteq overrun' /\ \A id \in Leases : leases'[id].gen = leases[id].gen
  BY <1>3, LSP!UnregisterEffect, Assumptions
<1>4. ASSUME NEW id \in Leases, LSP!Create(id)
      PROVE  /\ overrun \subseteq overrun'
             /\ \A i \in Leases : leases'[i].gen \in {leases[i].gen, leases[i].gen + 1}
  BY <1>4 DEF LSP!Create, LSP!TypeOK, LSP!Entry
<1>5. ASSUME NEW t \in Handlers, NEW id \in Leases, NEW at \in LSP!Times,
             LSP!Renew(t, id, at), LSP!RenewOk(id, at)
      PROVE  overrun \subseteq overrun' /\ \A i \in Leases : leases'[i].gen = leases[i].gen
  BY <1>5 DEF LSP!Renew, LSP!RenewOk, LSP!TypeOK, LSP!Entry
<1>6. ASSUME NEW t \in LSP!Threads, LSP!CallbackStep(t)
      PROVE  overrun \subseteq overrun' /\ leases' = leases
  BY <1>6 DEF LSP!CallbackStep, LSP!Notify, LSP!ConsumeKeys, LSP!CleanKey, LSP!CallbackDone,
              LSP!Overrun
<1>7. /\ overrun \subseteq overrun'
      /\ \A id \in Leases :
           leases'[id].gen = leases[id].gen \/ leases'[id].gen = leases[id].gen + 1
  <2>1. CASE UNCHANGED LSP!vars \/ LSP!Tick
    BY <1>2, <2>1 DEF LSP!vars, LSP!Tick
  <2>2. CASE \E id \in Leases : LSP!Create(id)
    BY <1>4, <2>2
  <2>3. CASE \E t \in Handlers, id \in Leases, at \in LSP!Times :
               LSP!Renew(t, id, at) /\ LSP!RenewOk(id, at)
    BY <1>5, <2>3
  <2>4. CASE \E t \in Handlers, id \in Leases, at \in LSP!Times :
               LSP!Renew(t, id, at) /\ LSP!RenewLate(t, id, at)
    <3>1. PICK id \in Leases : LSP!Unregister({id}) /\ overrun' = overrun
      BY <2>4 DEF LSP!Renew, LSP!RenewLate
    <3>2. {id} \in SUBSET Leases
      OBVIOUS
    <3> QED
      BY <1>3, <3>1, <3>2
  <2>5. CASE \E t \in Handlers, id \in Leases : LSP!Revoke(t, id)
    <3>1. PICK id \in Leases : LSP!Unregister({id}) /\ overrun' = overrun
      BY <2>5 DEF LSP!Revoke
    <3>2. {id} \in SUBSET Leases
      OBVIOUS
    <3> QED
      BY <1>3, <3>1, <3>2
  <2>6. CASE \E id \in Leases, k \in Keys : LSP!BindKey(id, k)
    BY <1>2, <2>6 DEF LSP!BindKey
  <2>7. CASE \E at \in LSP!Times : LSP!ExpireOnce(at)
    <3>1. PICK at \in LSP!Times : LSP!Unregister(LSP!Overdue(at)) /\ overrun' = overrun
      BY <2>7 DEF LSP!ExpireOnce
    <3>2. LSP!Overdue(at) \in SUBSET Leases
      BY DEF LSP!Overdue
    <3> QED
      BY <1>3, <3>1, <3>2
  <2>8. CASE \E p \in scan : LSP!ScanReport(p[1], p[2])
    BY <1>2, <2>8 DEF LSP!ScanReport
  <2>9. CASE \E t \in LSP!Threads : LSP!CallbackStep(t)
    BY <1>6, <2>9
  <2> QED
    BY <2>1, <2>2, <2>3, <2>4, <2>5, <2>6, <2>7, <2>8, <2>9, LeaseSide, LSP!StepCases,
       Assumptions
<1> QED
  BY <1>1, <1>7

HolderInv ==
  LSP!LeaseInv /\ LockInv /\ under \in [Requests -> Nat] /\ UnderInv /\ CurrentInv

LEMMA HolderInit == Init => HolderInv
<1> SUFFICES ASSUME Init PROVE HolderInv
  OBVIOUS
<1>1. LSP!LeaseInv
  BY LeaseOperations, LSP!LeaseInvInit, Assumptions DEF Init
<1>2. LKP!TypeOK
  BY ExpiryAssumption DEF Init, LKP!TypeOK, LKP!Record
<1>3. LKP!ManagerInv
  BY ExpiryAssumption
  DEF Init, LKP!ManagerInv, LKP!HolderInv, LKP!QueueInv, LKP!TicketInv, LKP!Fresh
<1>4. LKP!JournalFollows
  BY DEF Init, LKP!JournalFollows
<1>5. under \in [Requests -> Nat] /\ UnderInv
  BY ExpiryAssumption DEF Init, UnderInv, LS!Init
<1>6. CurrentInv
  BY DEF Init, CurrentInv, LKP!GrantedTo, LKP!Told
<1> QED
  BY <1>1, <1>2, <1>3, <1>4, <1>5, <1>6 DEF HolderInv, LockInv

\* A request that is current after a step that leaves it alone was so before.
LEMMA CurrentBefore ==
  ASSUME HolderInv, [Next]_vars, NEW q \in Requests, under'[q] = under[q], Current(q)'
  PROVE  Current(q)
<1>1. CASE LeaseOf[q] = NoLease
  BY <1>1 DEF Current
<1>2. CASE LeaseOf[q] # NoLease
  <2>1. LeaseOf[q] \in Leases /\ under[q] \in Nat /\ under[q] <= leases[LeaseOf[q]].gen
    BY <1>2, ExpiryAssumption DEF HolderInv, UnderInv
  <2>2. under[q] = leases'[LeaseOf[q]].gen /\ <<LeaseOf[q], under[q]>> \notin overrun'
    BY <1>2 DEF Current
  <2> QED
    BY <1>2, <2>1, <2>2, LeaseEffect DEF Current, HolderInv
<1> QED
  BY <1>1, <1>2

LEMMA UnderStep ==
  ASSUME HolderInv, [Next]_vars
  PROVE  under' \in [Requests -> Nat] /\ UnderInv'
<1>1. ASSUME under' = under PROVE under' \in [Requests -> Nat] /\ UnderInv'
  <2> SUFFICES ASSUME NEW q \in Requests, LeaseOf[q] # NoLease
               PROVE  under'[q] <= leases'[LeaseOf[q]].gen
    BY <1>1 DEF HolderInv, UnderInv
  <2>1. LeaseOf[q] \in Leases /\ under[q] \in Nat /\ under[q] <= leases[LeaseOf[q]].gen
    BY ExpiryAssumption DEF HolderInv, UnderInv
  <2> QED
    BY <1>1, <2>1, LeaseEffect DEF HolderInv
<1>2. ASSUME NEW r \in Requests, LockStep(r) PROVE under' \in [Requests -> Nat] /\ UnderInv'
  <2>1. leases' = leases
    BY <1>2 DEF LockStep, leaseVars
  <2>2. CASE pc[r] = "idle" /\ LeaseOf[r] # NoLease
    <3>1. under' = [under EXCEPT ![r] = leases[LeaseOf[r]].gen] /\ LeaseOf[r] \in Leases
      BY <1>2, <2>2, ExpiryAssumption DEF LockStep
    <3>2. leases[LeaseOf[r]].gen \in Nat
      BY <3>1 DEF HolderInv, LSP!LeaseInv, LSP!TypeOK, LSP!Entry
    <3> QED
      BY <2>1, <3>1, <3>2 DEF HolderInv, UnderInv
  <2>3. CASE ~(pc[r] = "idle" /\ LeaseOf[r] # NoLease)
    BY <1>1, <1>2, <2>3 DEF LockStep
  <2> QED
    BY <2>2, <2>3
<1>3. CASE \E r \in Requests : LockStep(r)
  BY <1>2, <1>3
<1>4. CASE ~\E r \in Requests : LockStep(r)
  <2>1. under' = under
    BY <1>4 DEF Next, vars, lockVars, PutBegin, PutStore, LeaseStep, HandlerStep,
                HandlerReleases, HandlerConsumes, HandlerDeletes, HandlerReturns
  <2> QED
    BY <1>1, <2>1
<1> QED
  BY <1>3, <1>4

LEMMA HolderStep ==
  ASSUME LKP!DistinctNames, HolderInv, [Next]_vars
  PROVE  HolderInv'
<1>1. LSP!LeaseInv' /\ under' \in [Requests -> Nat] /\ UnderInv'
  BY LeaseInvStep, UnderStep DEF HolderInv
<1>2. ASSUME NEW r \in Requests, LockStep(r) PROVE LockInv' /\ CurrentInv'
  <2>1. LockInv' /\ \A q \in Requests : LKP!GrantedTo(q) => LKP!GrantedTo(q)'
    BY <1>2, RequestKeeps DEF HolderInv
  <2> SUFFICES ASSUME NEW q \in Requests, Current(q)' PROVE LKP!GrantedTo(q)
    BY <2>1 DEF CurrentInv
  <2>2. CASE under'[q] = under[q]
    BY <2>2, CurrentBefore DEF HolderInv, CurrentInv
  <2>3. CASE under'[q] # under[q]
    <3>1. q = r /\ pc[q] = "idle"
      BY <1>2, <2>3 DEF LockStep, HolderInv
    <3> QED
      BY <3>1 DEF LKP!GrantedTo, LKP!Told
  <2> QED
    BY <2>2, <2>3
<1>3. ASSUME UNCHANGED lockVars PROVE LockInv' /\ CurrentInv'
  <2>1. LockInv' /\ \A q \in Requests : LKP!GrantedTo(q) => LKP!GrantedTo(q)'
    BY <1>3, LockVarsStay DEF HolderInv
  <2>2. \A q \in Requests : Current(q)' => Current(q)
    BY <1>3, CurrentBefore DEF lockVars
  <2> QED
    BY <2>1, <2>2 DEF HolderInv, CurrentInv
<1>4. ASSUME NEW t \in LS!Threads, HandlerReleases(t) PROVE LockInv' /\ CurrentInv'
  <2> DEFINE id == threads[t].id
  <2>1. /\ LockInv'
        /\ \A q \in Requests :
             LKP!GrantedTo(q) => LKP!GrantedTo(q)' \/ (LeaseOf[q] = id /\ leases[id].here)
    BY <1>4, CallbackTakes DEF HolderInv
  <2>2. id \in Leases /\ leases' = leases /\ under' = under
        /\ (leases[id].here => <<id, leases[id].gen>> \in overrun')
    BY <1>4, LeaseOperators
    DEF HandlerReleases, LS!Notify, LS!Overrun, HolderInv, LSP!LeaseInv, LSP!TypeOK, LSP!Thread
  <2> HIDE DEF id
  <2> SUFFICES ASSUME NEW q \in Requests, Current(q)' PROVE LKP!GrantedTo(q)'
    BY <2>1 DEF CurrentInv
  <2>3. LKP!GrantedTo(q)
    BY <2>2, CurrentBefore DEF HolderInv, CurrentInv
  <2>4. LeaseOf[q] = id => ~leases[id].here
    BY <2>2, ExpiryAssumption DEF Current
  <2> QED
    BY <2>1, <2>3, <2>4
<1>5. LockInv' /\ CurrentInv'
  <2>1. CASE \E r \in Requests : LockStep(r)
    BY <1>2, <2>1
  <2>2. CASE \E t \in LS!Threads : HandlerReleases(t)
    BY <1>4, <2>2
  <2>3. CASE ~(\E r \in Requests : LockStep(r)) /\ ~\E t \in LS!Threads : HandlerReleases(t)
    <3>1. UNCHANGED lockVars
      BY <2>3 DEF Next, vars, PutBegin, PutStore, LeaseStep, HandlerStep,
                  HandlerConsumes, HandlerDeletes, HandlerReturns
    <3> QED
      BY <1>3, <3>1
  <2> QED
    BY <2>1, <2>2, <2>3
<1> QED
  BY <1>1, <1>5 DEF HolderInv

LEMMA HolderInvariant ==
  ASSUME LKP!DistinctNames
  PROVE  Spec => []HolderInv
<1>1. HolderInv /\ [Next]_vars => HolderInv'
  BY HolderStep
<1> QED
  BY <1>1, HolderInit, PTL DEF Spec

\* A request that was granted a lock without a lease keeps it until it releases
\* it, whatever callbacks of whatever incarnations release, for any number of
\* requests under distinct client names (lock.go:129-146).
THEOREM LeaselessCorrect ==
  ASSUME LKP!DistinctNames
  PROVE  Spec => []LeaselessHolderKeeps
<1>1. HolderInv => LeaselessHolderKeeps
  BY DEF HolderInv, CurrentInv, Current, LKP!GrantedTo, LKP!Told, LeaselessHolderKeeps
<1> QED
  BY <1>1, HolderInvariant, PTL

\* A request that may act as the holder is the one that the lock manager and the
\* persisted record name, as long as no callback of an earlier incarnation ran
\* into its lease, for any number of leases, requests under distinct client
\* names and goroutines in callbacks (lock.go:61-146, expiry.go:13-20).
THEOREM HolderRecordedCorrect ==
  ASSUME LKP!DistinctNames
  PROVE  Spec => []HolderIsRecorded
<1>1. ASSUME HolderInv PROVE HolderIsRecorded
  <2> SUFFICES ASSUME NEW r \in Requests, Undisturbed(r)
               PROVE  LET j == journal[LockOf[r]]
                      IN  /\ holder[LockOf[r]] = r
                          /\ j[Len(j)].state = "held" /\ j[Len(j)].req = r
    BY DEF HolderIsRecorded
  <2>1. holder[LockOf[r]] = r
    BY <1>1 DEF HolderInv, CurrentInv, Current, Undisturbed, Believes, LKP!GrantedTo, LKP!Told
  <2>2. LockOf[r] \in Locks /\ r # NoRequest
    BY ExpiryAssumption
  <2>3. journal[LockOf[r]][Len(journal[LockOf[r]])] = LKP!Persisted("held", r)
    BY <1>1, <2>1, <2>2 DEF HolderInv, LockInv, LKP!JournalFollows
  <2> QED
    BY <2>1, <2>3 DEF LKP!Persisted
<1> QED
  BY <1>1, HolderInvariant, PTL

-----------------------------------------------------------------------------
(* Keys under leases *)

PutInv == LSP!LeaseInv /\ PutSide

LEMMA PutInit == Init => PutInv
<1> SUFFICES ASSUME Init PROVE PutInv
  OBVIOUS
<1>1. LSP!LeaseInv
  BY LeaseOperations, LSP!LeaseInvInit, Assumptions DEF Init
<1>2. PutType
  <2>1. (CHOOSE k \in Keys : TRUE) \in Keys
    BY ExpiryAssumption
  <2> QED
    BY <2>1 DEF Init, PutType, PutRecord
<1>3. \A p \in Puts : puts[p].stage = "idle"
  BY DEF Init
<1>4. PutGenInv /\ KeptInv
  BY <1>3 DEF PutGenInv, KeptInv, PutCurrent
<1>5. BindingInv /\ TakenInv
  BY DEF Init, LS!Init, BindingInv, TakenInv
<1>6. CleaningInv
  BY DEF Init, LS!Init, CleaningInv
<1>7. StoredInv
  BY DEF Init, StoredInv
<1> QED
  BY <1>1, <1>2, <1>4, <1>5, <1>6, <1>7 DEF PutInv, PutSide

\* The ranges of what the steps below look at.
LEMMA Ranges ==
  ASSUME PutInv
  PROVE  /\ \A id \in Leases : leases[id].gen \in Nat /\ leases[id].here \in BOOLEAN
         /\ \A t \in LS!Threads : threads[t].id \in Leases /\ threads[t].gen \in Nat
                                  /\ threads[t].keys \in SUBSET Keys
         /\ \A p \in Puts : puts[p].gen \in Nat /\ puts[p].key \in Keys
                            /\ puts[p].id \in Leases \cup {NoLease}
         /\ \A p \in notified : LS!Removed(p[1], p[2])
<1>1. \A id \in Leases : leases[id].gen \in Nat /\ leases[id].here \in BOOLEAN
  BY DEF PutInv, LSP!LeaseInv, LSP!TypeOK, LSP!Entry
<1>2. \A t \in LS!Threads : threads[t].id \in Leases /\ threads[t].gen \in Nat
                            /\ threads[t].keys \in SUBSET Keys
  BY LeaseOperators DEF PutInv, LSP!LeaseInv, LSP!TypeOK, LSP!Thread
<1>3. \A p \in Puts : puts[p].gen \in Nat /\ puts[p].key \in Keys
                      /\ puts[p].id \in Leases \cup {NoLease}
  BY DEF PutInv, PutSide, PutType, PutRecord
<1>4. \A p \in notified : LS!Removed(p[1], p[2])
  BY LeaseOperators DEF PutInv, LSP!LeaseInv, LSP!TypeOK
<1> QED
  BY <1>1, <1>2, <1>3, <1>4

\* Steps that touch neither maps nor keys: leases may end, and goroutines enter
\* and leave the callback.
Quiet ==
  /\ UNCHANGED <<bindings, notified, overrun, puts, kv>>
  /\ \A id \in Leases :
       leases'[id].gen = leases[id].gen /\ (leases'[id].here => leases[id].here)
  /\ \A t \in LS!Threads :
       \/ threads'[t] = threads[t]
       \/ /\ \/ threads[t].stage = "idle"
             \/ threads[t].stage = "clean" /\ threads[t].keys = {}
          /\ threads'[t].stage \in {"idle", "notify"}

LEMMA QuietKeeps ==
  ASSUME PutInv, Quiet
  PROVE  PutSide'
<1> USE Ranges
<1>1. PutType'
  BY DEF Quiet, PutInv, PutSide, PutType
<1>2. PutGenInv'
  BY DEF Quiet, PutInv, PutSide, PutGenInv
<1>3. BindingInv' /\ StoredInv'
  BY DEF Quiet, PutInv, PutSide, BindingInv, Bound, StoredInv
<1>4. CleaningInv'
  <2> SUFFICES ASSUME NEW t \in LS!Threads, threads'[t].stage = "clean",
                      NEW k \in threads'[t].keys
               PROVE  \E q \in Puts :
                        /\ Bound(q, threads[t].id, k)'
                        /\ \/ LS!Removed(puts[q].id, puts[q].gen)'
                           \/ <<puts[q].id, puts[q].gen>> \in overrun
    BY DEF CleaningInv, Quiet
  <2>1. threads'[t] = threads[t]
    BY DEF Quiet
  <2>2. PICK q \in Puts :
          /\ Bound(q, threads[t].id, k)
          /\ \/ LS!Removed(puts[q].id, puts[q].gen)
             \/ <<puts[q].id, puts[q].gen>> \in overrun
    BY <2>1 DEF PutInv, PutSide, CleaningInv
  <2>3. puts[q].id \in Leases /\ puts' = puts
    BY <2>2 DEF Bound, Quiet
  <2>4. LS!Removed(puts[q].id, puts[q].gen) => LS!Removed(puts[q].id, puts[q].gen)'
    BY <2>3 DEF Quiet, LS!Removed
  <2> QED
    BY <2>1, <2>2, <2>3, <2>4 DEF Bound
<1>5. KeptInv'
  <2> SUFFICES ASSUME NEW p \in Puts, PutCurrent(p)'
               PROVE  /\ leases'[puts[p].id].here => InMap(p)'
                      /\ kv[puts[p].key] = p /\ ~puts[p].late => InMap(p)' \/ InCallback(p)'
    BY DEF KeptInv, Quiet
  <2>1. PutCurrent(p) /\ puts[p].id \in Leases
    BY DEF PutCurrent, Quiet
  <2>2. InMap(p) => InMap(p)'
    BY DEF InMap, Quiet
  <2>3. InCallback(p) => InCallback(p)'
    BY DEF InCallback, Quiet
  <2> QED
    BY <2>1, <2>2, <2>3 DEF PutInv, PutSide, KeptInv, Quiet
<1>6. TakenInv'
  <2> SUFFICES ASSUME NEW id \in Leases, <<id, leases[id].gen>> \in notified,
                      bindings[id] # NoMap
               PROVE  \E t \in LS!Threads : threads'[t].id = id /\ threads'[t].stage = "consume"
    BY DEF TakenInv, Quiet
  <2>1. PICK t \in LS!Threads : threads[t].id = id /\ threads[t].stage = "consume"
    BY DEF PutInv, PutSide, TakenInv
  <2> QED
    BY <2>1 DEF Quiet
<1> QED
  BY <1>1, <1>2, <1>3, <1>4, <1>5, <1>6 DEF PutSide

\* A new incarnation has an empty map; the puts know only earlier ones.
LEMMA CreateKeepsPuts ==
  ASSUME PutInv, NEW i \in Leases, LS!Create(i), UNCHANGED kvVars
  PROVE  PutSide'
<1> USE Ranges
<1>1. /\ leases'[i].gen = leases[i].gen + 1
      /\ bindings'[i] = {} /\ ~leases[i].here
      /\ \A id \in Leases \ {i} : leases'[id] = leases[id] /\ bindings'[id] = bindings[id]
      /\ threads' = threads /\ notified' = notified /\ overrun' = overrun
      /\ puts' = puts /\ kv' = kv
  BY DEF LS!Create, kvVars, PutInv, LSP!LeaseInv, LSP!TypeOK, LSP!Entry
<1>2. PutType' /\ StoredInv'
  BY <1>1 DEF PutInv, PutSide, PutType, StoredInv
<1>3. PutGenInv'
  BY <1>1 DEF PutInv, PutSide, PutGenInv
<1>4. BindingInv'
  BY <1>1 DEF PutInv, PutSide, BindingInv, Bound
<1>5. CleaningInv'
  <2>1. ASSUME NEW id \in Leases, NEW gen \in Nat, LS!Removed(id, gen)
        PROVE  LS!Removed(id, gen)'
    BY <1>1, <2>1 DEF LS!Removed
  <2> SUFFICES ASSUME NEW t \in LS!Threads, threads[t].stage = "clean",
                      NEW k \in threads[t].keys
               PROVE  \E q \in Puts :
                        /\ Bound(q, threads[t].id, k)
                        /\ \/ LS!Removed(puts[q].id, puts[q].gen)'
                           \/ <<puts[q].id, puts[q].gen>> \in overrun
    BY <1>1 DEF CleaningInv, Bound
  <2>2. PICK q \in Puts :
          /\ Bound(q, threads[t].id, k)
          /\ \/ LS!Removed(puts[q].id, puts[q].gen)
             \/ <<puts[q].id, puts[q].gen>> \in overrun
    BY DEF PutInv, PutSide, CleaningInv
  <2>3. puts[q].id \in Leases
    BY <2>2 DEF Bound
  <2>4. LS!Removed(puts[q].id, puts[q].gen) => LS!Removed(puts[q].id, puts[q].gen)'
    BY <1>1, <2>1, <2>3
  <2> QED
    BY <2>2, <2>4
<1>6. KeptInv'
  <2> SUFFICES ASSUME NEW p \in Puts, PutCurrent(p)'
               PROVE  /\ leases'[puts[p].id].here => InMap(p)'
                      /\ kv[puts[p].key] = p /\ ~puts[p].late => InMap(p)' \/ InCallback(p)'
    BY <1>1 DEF KeptInv
  <2>1. puts[p].id \in Leases /\ puts[p].id # i /\ PutCurrent(p)
    BY <1>1 DEF PutCurrent, PutInv, PutSide, PutGenInv
  <2>2. (InMap(p) => InMap(p)') /\ (InCallback(p) => InCallback(p)')
    BY <1>1, <2>1 DEF InMap, InCallback
  <2> QED
    BY <1>1, <2>1, <2>2 DEF PutInv, PutSide, KeptInv
<1>7. TakenInv'
  <2> SUFFICES ASSUME NEW id \in Leases, <<id, leases'[id].gen>> \in notified,
                      bindings'[id] # NoMap
               PROVE  \E t \in LS!Threads : threads[t].id = id /\ threads[t].stage = "consume"
    BY <1>1 DEF TakenInv
  <2>1. LS!Removed(id, leases'[id].gen)
    OBVIOUS
  <2>2. id # i
    BY <1>1, <2>1 DEF LS!Removed
  <2> QED
    BY <1>1, <2>2 DEF PutInv, PutSide, TakenInv
<1> QED
  BY <1>2, <1>3, <1>4, <1>5, <1>6, <1>7 DEF PutSide

\* The callback begins: until it takes the map, it is the one to take it.
LEMMA NotifyKeepsPuts ==
  ASSUME PutInv, NEW t \in LS!Threads, LS!Notify(t), UNCHANGED kvVars
  PROVE  PutSide'
<1> USE Ranges
<1>1. /\ threads[t].stage = "notify" /\ threads'[t].stage = "consume"
      /\ threads'[t].id = threads[t].id
      /\ \A u \in LS!Threads : u # t => threads'[u] = threads[u]
  BY LeaseOperators DEF LS!Notify, PutInv, LSP!LeaseInv, LSP!TypeOK, LSP!Thread
<1>2. /\ overrun \subseteq overrun' /\ bindings' = bindings /\ leases' = leases
      /\ notified' = notified \cup {<<threads[t].id, threads[t].gen>>}
      /\ puts' = puts /\ kv' = kv
  BY DEF LS!Notify, LS!Overrun, kvVars
<1>3. PutType' /\ StoredInv' /\ PutGenInv' /\ BindingInv'
  BY <1>2 DEF PutInv, PutSide, PutType, StoredInv, PutGenInv, BindingInv, Bound
<1>4. CleaningInv'
  <2> SUFFICES ASSUME NEW u \in LS!Threads, threads'[u].stage = "clean",
                      NEW k \in threads'[u].keys
               PROVE  \E q \in Puts :
                        /\ Bound(q, threads[u].id, k)
                        /\ \/ LS!Removed(puts[q].id, puts[q].gen)
                           \/ <<puts[q].id, puts[q].gen>> \in overrun
    BY <1>1, <1>2 DEF CleaningInv, Bound, LS!Removed
  <2>1. threads'[u] = threads[u]
    BY <1>1
  <2> QED
    BY <2>1 DEF PutInv, PutSide, CleaningInv
<1>5. KeptInv'
  <2> SUFFICES ASSUME NEW p \in Puts, PutCurrent(p)'
               PROVE  /\ leases[puts[p].id].here => InMap(p)'
                      /\ kv[puts[p].key] = p /\ ~puts[p].late => InMap(p)' \/ InCallback(p)'
    BY <1>2 DEF KeptInv
  <2>1. PutCurrent(p)
    BY <1>2 DEF PutCurrent
  <2>2. InMap(p) => InMap(p)'
    BY <1>2 DEF InMap
  <2>3. InCallback(p) => InCallback(p)'
    <3> SUFFICES ASSUME NEW u \in LS!Threads, threads[u].id = puts[p].id,
                        threads[u].stage = "clean", puts[p].key \in threads[u].keys
                 PROVE  InCallback(p)'
      BY DEF InCallback
    <3>1. threads'[u] = threads[u]
      BY <1>1
    <3> QED
      BY <1>2, <3>1 DEF InCallback
  <2> QED
    BY <2>1, <2>2, <2>3 DEF PutInv, PutSide, KeptInv
<1>6. TakenInv'
  <2> SUFFICES ASSUME NEW id \in Leases, <<id, leases[id].gen>> \in notified',
                      bindings[id] # NoMap
               PROVE  \E u \in LS!Threads : threads'[u].id = id /\ threads'[u].stage = "consume"
    BY <1>2 DEF TakenInv
  <2>1. CASE <<id, leases[id].gen>> \in notified
    <3>1. PICK u \in LS!Threads : threads[u].id = id /\ threads[u].stage = "consume"
      BY <2>1 DEF PutInv, PutSide, TakenInv
    <3> QED
      BY <1>1, <3>1
  <2>2. CASE <<id, leases[id].gen>> = <<threads[t].id, threads[t].gen>>
    BY <1>1, <2>2
  <2> QED
    BY <1>2, <2>1, <2>2
<1> QED
  BY <1>3, <1>4, <1>5, <1>6 DEF PutSide

\* The callback takes the map: its keys are now on the list of goroutine t.
LEMMA ConsumeKeepsPuts ==
  ASSUME PutInv, NEW t \in LS!Threads, LS!ConsumeKeys(t), UNCHANGED kvVars
  PROVE  PutSide'
<1> USE Ranges
<1> DEFINE i == threads[t].id
<1>1. /\ threads[t].stage = "consume" /\ threads'[t].stage = "clean"
      /\ threads'[t].id = i
      /\ threads'[t].keys = IF bindings[i] = NoMap THEN {} ELSE bindings[i]
      /\ \A u \in LS!Threads : u # t => threads'[u] = threads[u]
  BY LeaseOperators DEF LS!ConsumeKeys, PutInv, LSP!LeaseInv, LSP!TypeOK, LSP!Thread
<1>2. /\ i \in Leases /\ bindings'[i] = NoMap
      /\ \A id \in Leases : id # i => bindings'[id] = bindings[id]
  BY DEF LS!ConsumeKeys, PutInv, LSP!LeaseInv, LSP!TypeOK
<1>3. /\ overrun \subseteq overrun' /\ leases' = leases /\ notified' = notified
      /\ leases[i].here => <<i, leases[i].gen>> \in overrun'
      /\ puts' = puts /\ kv' = kv
  BY DEF LS!ConsumeKeys, LS!Overrun, kvVars
<1> HIDE DEF i
<1>4. PutType' /\ StoredInv' /\ PutGenInv'
  BY <1>3 DEF PutInv, PutSide, PutType, StoredInv, PutGenInv
<1>5. BindingInv'
  BY <1>2, <1>3 DEF PutInv, PutSide, BindingInv, Bound
<1>6. CleaningInv'
  <2> SUFFICES ASSUME NEW u \in LS!Threads, threads'[u].stage = "clean",
                      NEW k \in threads'[u].keys
               PROVE  \E q \in Puts :
                        /\ Bound(q, threads'[u].id, k)
                        /\ \/ LS!Removed(puts[q].id, puts[q].gen)
                           \/ <<puts[q].id, puts[q].gen>> \in overrun'
    BY <1>3 DEF CleaningInv, Bound, LS!Removed
  <2>1. CASE u = t
    <3>1. bindings[i] # NoMap /\ k \in bindings[i]
      BY <1>1, <2>1
    <3>2. PICK q \in Puts : Bound(q, i, k)
      BY <1>2, <3>1 DEF PutInv, PutSide, BindingInv
    <3>3. /\ puts[q].id = i /\ puts[q].gen \in Nat /\ leases[i].gen \in Nat
          /\ puts[q].gen > 0 /\ puts[q].gen <= leases[i].gen
      BY <1>2, <3>2, ExpiryAssumption DEF Bound, PutInv, PutSide, PutGenInv
    <3>4. LS!Removed(i, puts[q].gen) \/ <<i, puts[q].gen>> \in overrun'
      BY <1>3, <3>3 DEF LS!Removed
    <3> QED
      BY <1>1, <2>1, <3>2, <3>3, <3>4
  <2>2. CASE u # t
    <3>1. threads'[u] = threads[u]
      BY <1>1, <2>2
    <3> QED
      BY <1>3, <3>1 DEF PutInv, PutSide, CleaningInv
  <2> QED
    BY <2>1, <2>2
<1>7. KeptInv'
  <2> SUFFICES ASSUME NEW p \in Puts, PutCurrent(p)'
               PROVE  /\ leases[puts[p].id].here => InMap(p)'
                      /\ kv[puts[p].key] = p /\ ~puts[p].late => InMap(p)' \/ InCallback(p)'
    BY <1>3 DEF KeptInv
  <2>1. PutCurrent(p) /\ puts[p].id \in Leases
    BY <1>3 DEF PutCurrent
  <2>2. puts[p].id = i => ~leases[i].here
    BY <1>3 DEF PutCurrent
  <2>3. InCallback(p) => InCallback(p)'
    <3> SUFFICES ASSUME NEW u \in LS!Threads, threads[u].id = puts[p].id,
                        threads[u].stage = "clean", puts[p].key \in threads[u].keys
                 PROVE  InCallback(p)'
      BY DEF InCallback
    <3>1. threads'[u] = threads[u]
      BY <1>1
    <3> QED
      BY <1>3, <3>1 DEF InCallback
  <2>4. InMap(p) => InMap(p)' \/ (puts[p].id = i /\ InCallback(p)')
    <3>1. CASE puts[p].id # i
      BY <1>2, <1>3, <2>1, <3>1 DEF InMap
    <3>2. CASE puts[p].id = i
      BY <1>1, <1>3, <3>2 DEF InMap, InCallback
    <3> QED
      BY <3>1, <3>2
  <2> QED
    BY <2>1, <2>2, <2>3, <2>4 DEF PutInv, PutSide, KeptInv
<1>8. TakenInv'
  <2> SUFFICES ASSUME NEW id \in Leases, <<id, leases[id].gen>> \in notified,
                      bindings'[id] # NoMap
               PROVE  \E u \in LS!Threads : threads'[u].id = id /\ threads'[u].stage = "consume"
    BY <1>3 DEF TakenInv
  <2>1. id # i /\ bindings[id] # NoMap
    BY <1>2
  <2>2. PICK u \in LS!Threads : threads[u].id = id /\ threads[u].stage = "consume"
    BY <2>1 DEF PutInv, PutSide, TakenInv
  <2>3. u # t
    BY <2>1, <2>2 DEF i
  <2> QED
    BY <1>1, <2>2, <2>3
<1> QED
  BY <1>4, <1>5, <1>6, <1>7, <1>8 DEF PutSide

\* The callback deletes one of its keys.
LEMMA DeleteKeepsPuts ==
  ASSUME PutInv, NEW t \in LS!Threads, NEW k \in Keys, HandlerDeletes(t, k)
  PROVE  PutSide'
<1> USE Ranges
<1>1. /\ threads[t].stage = "clean" /\ threads'[t].stage = "clean"
      /\ threads'[t].id = threads[t].id
      /\ threads'[t].keys = threads[t].keys \ {k}
      /\ \A u \in LS!Threads : u # t => threads'[u] = threads[u]
  BY LeaseOperators
  DEF HandlerDeletes, LS!CleanKey, PutInv, LSP!LeaseInv, LSP!TypeOK, LSP!Thread
<1>2. /\ bindings' = bindings /\ leases' = leases /\ notified' = notified
      /\ overrun' = overrun /\ puts' = puts
  BY DEF HandlerDeletes, LS!CleanKey
<1>3. /\ kv' \in [Keys -> Puts \cup {NoPut}]
      /\ \A j \in Keys : kv'[j] = IF j = k THEN NoPut ELSE kv[j]
  BY DEF HandlerDeletes, PutInv, PutSide, PutType
<1>4. PutType' /\ StoredInv' /\ PutGenInv' /\ BindingInv'
  BY <1>2, <1>3 DEF PutInv, PutSide, PutType, StoredInv, PutGenInv, BindingInv, Bound
<1>5. CleaningInv'
  <2> SUFFICES ASSUME NEW u \in LS!Threads, threads'[u].stage = "clean",
                      NEW j \in threads'[u].keys
               PROVE  \E q \in Puts :
                        /\ Bound(q, threads'[u].id, j)
                        /\ \/ LS!Removed(puts[q].id, puts[q].gen)
                           \/ <<puts[q].id, puts[q].gen>> \in overrun
    BY <1>2 DEF CleaningInv, Bound, LS!Removed
  <2>1. threads[u].stage = "clean" /\ j \in threads[u].keys /\ threads'[u].id = threads[u].id
    BY <1>1
  <2> QED
    BY <2>1 DEF PutInv, PutSide, CleaningInv
<1>6. KeptInv'
  <2> SUFFICES ASSUME NEW p \in Puts, PutCurrent(p)'
               PROVE  /\ leases[puts[p].id].here => InMap(p)'
                      /\ kv'[puts[p].key] = p /\ ~puts[p].late => InMap(p)' \/ InCallback(p)'
    BY <1>2 DEF KeptInv
  <2>1. PutCurrent(p) /\ (InMap(p) => InMap(p)')
    BY <1>2 DEF PutCurrent, InMap
  <2>2. kv'[puts[p].key] = p => kv[puts[p].key] = p /\ puts[p].key # k
    BY <1>3, ExpiryAssumption
  <2>3. ASSUME InCallback(p), puts[p].key # k PROVE InCallback(p)'
    <3>1. PICK u \in LS!Threads : /\ threads[u].id = puts[p].id
                                  /\ threads[u].stage = "clean"
                                  /\ puts[p].key \in threads[u].keys
      BY <2>3 DEF InCallback
    <3>2. /\ threads'[u].id = puts[p].id /\ threads'[u].stage = "clean"
          /\ puts[p].key \in threads'[u].keys
      BY <1>1, <2>3, <3>1
    <3> QED
      BY <1>2, <3>2 DEF InCallback
  <2> QED
    BY <2>1, <2>2, <2>3 DEF PutInv, PutSide, KeptInv
<1>7. TakenInv'
  <2> SUFFICES ASSUME NEW id \in Leases, <<id, leases[id].gen>> \in notified,
                      bindings[id] # NoMap
               PROVE  \E u \in LS!Threads : threads'[u].id = id /\ threads'[u].stage = "consume"
    BY <1>2 DEF TakenInv
  <2>1. PICK u \in LS!Threads : threads[u].id = id /\ threads[u].stage = "consume"
    BY DEF PutInv, PutSide, TakenInv
  <2> QED
    BY <1>1, <2>1
<1> QED
  BY <1>4, <1>5, <1>6, <1>7 DEF PutSide

\* A put binds its key: from now on the map has it.
LEMMA BeginKeepsPuts ==
  ASSUME PutInv, NEW p \in Puts, NEW i \in Leases \cup {NoLease}, NEW k \in Keys,
         PutBegin(p, i, k)
  PROVE  PutSide'
<1> USE Ranges
<1> DEFINE c == [stage |-> "bound", id |-> i, key |-> k,
                 gen |-> IF i = NoLease THEN 0 ELSE leases[i].gen, late |-> FALSE]
<1>1. puts[p].stage = "idle" /\ puts' = [puts EXCEPT ![p] = c] /\ kv' = kv
  BY DEF PutBegin
<1>2. c \in PutRecord /\ c.stage = "bound" /\ c.id = i /\ c.key = k /\ ~c.late
      /\ (i # NoLease => c.gen = leases[i].gen)
  BY DEF PutRecord
<1> HIDE DEF c
<1>3. /\ puts' \in [Puts -> PutRecord] /\ puts'[p] = c
      /\ \A q \in Puts : q # p => puts'[q] = puts[q]
  BY <1>1, <1>2 DEF PutInv, PutSide, PutType
<1>4. /\ leases' = leases /\ threads' = threads /\ notified' = notified /\ overrun' = overrun
      /\ \A id \in Leases :
           /\ id # i => bindings'[id] = bindings[id]
           /\ id = i => /\ leases[id].here /\ leases[id].gen > 0
                        /\ bindings[id] # NoMap /\ bindings'[id] # NoMap
                        /\ bindings'[id] = bindings[id] \cup {k}
  <2>1. CASE i = NoLease
    BY <2>1, ExpiryAssumption DEF PutBegin, leaseVars
  <2>2. CASE i # NoLease
    <3>1. i \in Leases /\ LS!BindKey(i, k)
      BY <2>2 DEF PutBegin
    <3>2. bindings[i] # NoMap /\ bindings \in [Leases -> (SUBSET Keys) \cup {NoMap}]
          /\ bindings' = [bindings EXCEPT ![i] = bindings[i] \cup {k}] /\ leases[i].here
          /\ UNCHANGED <<leases, threads, notified, overrun>>
      BY <3>1 DEF LS!BindKey, PutInv, LSP!LeaseInv, LSP!TypeOK
    <3>3. bindings[i] \cup {k} \in SUBSET Keys
      BY <3>1, <3>2
    <3>4. bindings[i] \cup {k} # NoMap
      BY <3>3, ExpiryAssumption
    <3>5. leases[i].gen > 0
      BY <3>1, <3>2 DEF PutInv, LSP!LeaseInv, LSP!DeadlineInv
    <3> QED
      BY <3>1, <3>2, <3>4, <3>5
  <2> QED
    BY <2>1, <2>2
<1>5. PutType'
  BY <1>1, <1>3 DEF PutInv, PutSide, PutType
<1>6. PutGenInv'
  BY <1>2, <1>3, <1>4 DEF PutInv, PutSide, PutGenInv
<1>7. \A q \in Puts : \A id, j : Bound(q, id, j) => Bound(q, id, j)' /\ puts'[q] = puts[q]
  BY <1>1, <1>3 DEF Bound
<1>8. BindingInv'
  <2> SUFFICES ASSUME NEW id \in Leases, bindings'[id] # NoMap, NEW j \in bindings'[id]
               PROVE  \E q \in Puts : Bound(q, id, j)'
    BY DEF BindingInv
  <2>1. CASE id = i /\ j = k
    BY <1>2, <1>3, <2>1 DEF Bound
  <2>2. CASE ~(id = i /\ j = k)
    <3>1. bindings[id] # NoMap /\ j \in bindings[id]
      BY <1>4, <2>2
    <3> QED
      BY <1>7, <3>1 DEF PutInv, PutSide, BindingInv
  <2> QED
    BY <2>1, <2>2
<1>9. CleaningInv'
  <2> SUFFICES ASSUME NEW t \in LS!Threads, threads[t].stage = "clean",
                      NEW j \in threads[t].keys
               PROVE  \E q \in Puts :
                        /\ Bound(q, threads[t].id, j)'
                        /\ \/ LS!Removed(puts[q].id, puts[q].gen)'
                           \/ <<puts'[q].id, puts'[q].gen>> \in overrun
    BY <1>4 DEF CleaningInv
  <2>1. PICK q \in Puts :
          /\ Bound(q, threads[t].id, j)
          /\ \/ LS!Removed(puts[q].id, puts[q].gen)
             \/ <<puts[q].id, puts[q].gen>> \in overrun
    BY DEF PutInv, PutSide, CleaningInv
  <2>2. Bound(q, threads[t].id, j)' /\ puts'[q] = puts[q]
    BY <1>1, <1>3, <1>4, <2>1 DEF Bound
  <2> QED
    BY <1>4, <2>1, <2>2 DEF LS!Removed
<1>10. StoredInv'
  BY <1>1, <1>3 DEF PutInv, PutSide, StoredInv, PutType
<1>11. KeptInv'
  <2> SUFFICES ASSUME NEW q \in Puts, PutCurrent(q)'
               PROVE  /\ leases[puts'[q].id].here => InMap(q)'
                      /\ kv[puts'[q].key] = q /\ ~puts'[q].late => InMap(q)' \/ InCallback(q)'
    BY <1>1, <1>4 DEF KeptInv
  <2>1. CASE q = p
    <3>1. puts'[q].id = i /\ puts'[q].key = k /\ i \in Leases
      BY <1>2, <1>3, <2>1 DEF PutCurrent
    <3>2. InMap(q)'
      BY <1>4, <3>1 DEF InMap
    <3> QED
      BY <3>2
  <2>2. CASE q # p
    <3>1. puts'[q] = puts[q] /\ PutCurrent(q) /\ puts[q].id \in Leases
      BY <1>3, <1>4, <2>2 DEF PutCurrent
    <3>2. (InMap(q) => InMap(q)') /\ (InCallback(q) => InCallback(q)')
      BY <1>4, <3>1 DEF InMap, InCallback
    <3> QED
      BY <3>1, <3>2 DEF PutInv, PutSide, KeptInv
  <2> QED
    BY <2>1, <2>2
<1>12. TakenInv'
  BY <1>4 DEF PutInv, PutSide, TakenInv
<1> QED
  BY <1>5, <1>6, <1>8, <1>9, <1>10, <1>11, <1>12 DEF PutSide

\* A put writes: late, unless its lease still has the key in its map.
LEMMA StoreKeepsPuts ==
  ASSUME PutInv, NEW p \in Puts, PutStore(p)
  PROVE  PutSide'
<1> USE Ranges
<1> DEFINE gone == puts[p].id # NoLease /\ LS!Removed(puts[p].id, puts[p].gen)
           c == [puts[p] EXCEPT !.stage = "done", !.late = gone]
<1>1. /\ puts[p].stage = "bound" /\ puts[p] \in PutRecord
      /\ puts' = [puts EXCEPT ![p] = c]
      /\ kv' = [kv EXCEPT ![puts[p].key] = p]
      /\ UNCHANGED leaseVars
  BY DEF PutStore, PutInv, PutSide, PutType
<1>2. gone \in BOOLEAN
  OBVIOUS
<1>3. puts[p].id # NoLease /\ LS!Removed(puts[p].id, puts[p].gen) => gone
  OBVIOUS
<1> HIDE DEF gone
<1>4. c \in PutRecord /\ c.stage = "done" /\ c.late = gone /\ c.id = puts[p].id
      /\ c.gen = puts[p].gen /\ c.key = puts[p].key
  BY <1>1, <1>2 DEF PutRecord
<1> HIDE DEF c
<1>5. /\ puts' \in [Puts -> PutRecord] /\ puts'[p] = c
      /\ \A q \in Puts : q # p => puts'[q] = puts[q]
  BY <1>1, <1>4 DEF PutInv, PutSide, PutType
<1>6. /\ kv' \in [Keys -> Puts \cup {NoPut}] /\ kv'[puts[p].key] = p
      /\ \A k \in Keys : k # puts[p].key => kv'[k] = kv[k]
  BY <1>1 DEF PutInv, PutSide, PutType
<1>7. /\ leases' = leases /\ threads' = threads /\ notified' = notified
      /\ overrun' = overrun /\ bindings' = bindings
  BY <1>1 DEF leaseVars
<1>8. \A q \in Puts : /\ puts'[q].id = puts[q].id /\ puts'[q].gen = puts[q].gen
                      /\ puts'[q].key = puts[q].key
                      /\ (puts'[q].stage = "idle") <=> (puts[q].stage = "idle")
  BY <1>1, <1>4, <1>5
<1>9. PutType' /\ PutGenInv'
  BY <1>5, <1>6, <1>7, <1>8 DEF PutInv, PutSide, PutType, PutGenInv
<1>10. BindingInv'
  BY <1>7, <1>8 DEF PutInv, PutSide, BindingInv, Bound
<1>11. CleaningInv'
  <2> SUFFICES ASSUME NEW t \in LS!Threads, threads[t].stage = "clean",
                      NEW k \in threads[t].keys
               PROVE  \E q \in Puts :
                        /\ Bound(q, threads[t].id, k)'
                        /\ \/ LS!Removed(puts[q].id, puts[q].gen)'
                           \/ <<puts'[q].id, puts'[q].gen>> \in overrun
    BY <1>7 DEF CleaningInv
  <2>1. PICK q \in Puts :
          /\ Bound(q, threads[t].id, k)
          /\ \/ LS!Removed(puts[q].id, puts[q].gen)
             \/ <<puts[q].id, puts[q].gen>> \in overrun
    BY DEF PutInv, PutSide, CleaningInv
  <2>2. Bound(q, threads[t].id, k)'
    BY <1>7, <1>8, <2>1 DEF Bound
  <2> QED
    BY <1>7, <1>8, <2>1, <2>2 DEF LS!Removed
<1>12. StoredInv'
  <2> SUFFICES ASSUME NEW k \in Keys, kv'[k] # NoPut
               PROVE  puts'[kv'[k]].stage = "done" /\ puts'[kv'[k]].key = k
    BY DEF StoredInv
  <2>1. CASE k = puts[p].key
    BY <1>4, <1>5, <1>6, <2>1
  <2>2. CASE k # puts[p].key
    <3>1. kv'[k] = kv[k] /\ kv[k] \in Puts
      BY <1>6, <2>2 DEF PutInv, PutSide, PutType
    <3>2. puts[kv[k]].stage = "done" /\ puts[kv[k]].key = k
      BY <3>1 DEF PutInv, PutSide, StoredInv, PutType
    <3> QED
      BY <1>5, <2>2, <3>1, <3>2
  <2> QED
    BY <2>1, <2>2
<1>13. KeptInv'
  <2> SUFFICES ASSUME NEW q \in Puts, PutCurrent(q)'
               PROVE  /\ leases[puts[q].id].here => InMap(q)
                      /\ kv'[puts[q].key] = q /\ ~puts'[q].late => InMap(q) \/ InCallback(q)
    BY <1>7, <1>8 DEF KeptInv, InMap, InCallback
  <2>1. PutCurrent(q) /\ puts[q].id \in Leases
    BY <1>7, <1>8 DEF PutCurrent
  <2>2. CASE q = p
    <3>1. ~leases[puts[q].id].here => puts'[q].late
      BY <1>3, <1>4, <1>5, <2>1, <2>2 DEF PutCurrent, LS!Removed, PutInv, PutSide, PutGenInv
    <3> QED
      BY <2>1, <3>1 DEF PutInv, PutSide, KeptInv
  <2>3. CASE q # p
    <3>1. puts'[q] = puts[q] /\ (kv'[puts[q].key] = q => kv[puts[q].key] = q)
      BY <1>5, <1>6, <2>3
    <3> QED
      BY <2>1, <3>1 DEF PutInv, PutSide, KeptInv
  <2> QED
    BY <2>2, <2>3
<1>14. TakenInv'
  BY <1>7 DEF PutInv, PutSide, TakenInv
<1> QED
  BY <1>9, <1>10, <1>11, <1>12, <1>13, <1>14 DEF PutSide

\* The remaining operations of the lease manager touch neither maps nor keys.
LEMMA LeaseStepsQuiet ==
  ASSUME PutInv, LeaseStep, ~\E id \in Leases : LS!Create(id)
  PROVE  Quiet
<1> USE DEF PutInv, LSP!LeaseInv, LSP!TypeOK
<1>1. puts' = puts /\ kv' = kv
  BY DEF LeaseStep, kvVars
<1>2. ASSUME NEW S \in SUBSET Leases, LS!Unregister(S)
      PROVE  \A id \in Leases : /\ leases'[id].gen = leases[id].gen
                                /\ leases'[id].here => leases[id].here
  <2>1. LSP!Unregister(S)
    BY <1>2 DEF LS!Unregister, LSP!Unregister
  <2> QED
    BY <2>1, LSP!UnregisterEffect, Assumptions
<1>3. ASSUME NEW t \in Handlers, NEW id \in Leases,
             threads[t].stage = "idle", LS!Unregister({id}), LS!StartNotify(t, id),
             UNCHANGED <<bindings, notified, overrun>>
      PROVE  Quiet
  <2>1. {id} \in SUBSET Leases
    OBVIOUS
  <2>2. \A u \in LS!Threads :
          threads'[u] = threads[u] \/ (threads[u].stage = "idle" /\ threads'[u].stage = "notify")
    BY <1>3, LeaseOperators DEF LS!StartNotify
  <2> QED
    BY <1>1, <1>2, <1>3, <2>1, <2>2 DEF Quiet
<1>4. CASE LS!Tick
  BY <1>1, <1>4 DEF LS!Tick, Quiet
<1>5. ASSUME NEW t \in Handlers, NEW id \in Leases, NEW at \in LS!Times, LS!Renew(t, id, at)
      PROVE  Quiet
  <2>1. CASE LS!RenewOk(id, at)
    BY <1>1, <1>5, <2>1 DEF LS!Renew, LS!RenewOk, LSP!Entry, Quiet
  <2>2. CASE LS!RenewLate(t, id, at)
    BY <1>3, <1>5, <2>2 DEF LS!Renew, LS!RenewLate
  <2> QED
    BY <1>5, <2>1, <2>2 DEF LS!Renew
<1>6. ASSUME NEW t \in Handlers, NEW id \in Leases, LS!Revoke(t, id) PROVE Quiet
  BY <1>3, <1>6 DEF LS!Revoke
<1>7. ASSUME NEW at \in LS!Times, LS!ExpireOnce(at) PROVE Quiet
  <2>1. LS!Overdue(at) \in SUBSET Leases
    BY DEF LS!Overdue
  <2>2. LS!Unregister(LS!Overdue(at)) /\ UNCHANGED <<bindings, threads, notified, overrun>>
    BY <1>7 DEF LS!ExpireOnce
  <2> QED
    BY <1>1, <1>2, <2>1, <2>2 DEF Quiet
<1>8. ASSUME NEW p \in scan, LS!ScanReport(p[1], p[2]) PROVE Quiet
  <2>1. UNCHANGED <<bindings, leases, notified, overrun>> /\ threads[Scanner].stage = "idle"
    BY <1>8 DEF LS!ScanReport
  <2>2. \A u \in LS!Threads :
          threads'[u] = threads[u] \/ (threads[u].stage = "idle" /\ threads'[u].stage = "notify")
    BY <1>8, <2>1, LeaseOperators DEF LS!ScanReport
  <2> QED
    BY <1>1, <2>1, <2>2 DEF Quiet
<1> QED
  BY <1>4, <1>5, <1>6, <1>7, <1>8 DEF LeaseStep

LEMMA PutStep ==
  ASSUME PutInv, [Next]_vars
  PROVE  PutInv'
<1>1. LSP!LeaseInv'
  BY LeaseInvStep DEF PutInv
<1> SUFFICES PutSide'
  BY <1>1 DEF PutInv
<1>2. ASSUME UNCHANGED <<leaseVars, kvVars>> PROVE PutSide'
  <2>1. Quiet
    BY <1>2 DEF leaseVars, kvVars, Quiet
  <2> QED
    BY <2>1, QuietKeeps
<1>3. CASE UNCHANGED vars \/ \E r \in Requests : LockStep(r)
  BY <1>2, <1>3 DEF vars, LockStep
<1>4. CASE \E p \in Puts, id \in Leases \cup {NoLease}, k \in Keys : PutBegin(p, id, k)
  BY <1>4, BeginKeepsPuts
<1>5. CASE \E p \in Puts : PutStore(p)
  BY <1>5, StoreKeepsPuts
<1>6. CASE LeaseStep
  <2>1. CASE \E id \in Leases : LS!Create(id)
    BY <1>6, <2>1, CreateKeepsPuts DEF LeaseStep
  <2>2. CASE ~\E id \in Leases : LS!Create(id)
    BY <1>6, <2>2, LeaseStepsQuiet, QuietKeeps
  <2> QED
    BY <2>1, <2>2
<1>7. ASSUME NEW t \in LS!Threads, HandlerStep(t) PROVE PutSide'
  <2>1. CASE HandlerReleases(t)
    BY <2>1, NotifyKeepsPuts DEF HandlerReleases
  <2>2. CASE HandlerConsumes(t)
    BY <2>2, ConsumeKeepsPuts DEF HandlerConsumes
  <2>3. CASE \E k \in Keys : HandlerDeletes(t, k)
    BY <2>3, DeleteKeepsPuts
  <2>4. CASE HandlerReturns(t)
    <3>1. Quiet
      BY <2>4, LeaseOperators
      DEF HandlerReturns, LS!CallbackDone, kvVars, Quiet, PutInv, LSP!LeaseInv, LSP!TypeOK,
          LSP!Thread
    <3> QED
      BY <3>1, QuietKeeps
  <2> QED
    BY <1>7, <2>1, <2>2, <2>3, <2>4 DEF HandlerStep
<1> QED
  BY <1>3, <1>4, <1>5, <1>6, <1>7 DEF Next

LEMMA PutInvariant == Spec => []PutInv
<1>1. PutInv /\ [Next]_vars => PutInv'
  BY PutStep
<1> QED
  BY <1>1, PutInit, PTL DEF Spec

\* When the callback for the last incarnation of a lease is done, no key that
\* was put under it while it lived remains, unless a callback of an earlier
\* incarnation ran into it, for any number of puts, keys, leases and goroutines
\* in callbacks (expiry.go:13-20, lease.go:153-165).
THEOREM CallbackCleansCorrect == Spec => []CallbackCleans
<1>1. ASSUME PutInv PROVE CallbackCleans
  <2> SUFFICES ASSUME NEW p \in Puts, NEW k \in Keys, kv[k] = p, ~puts[p].late,
                      <<puts[p].id, puts[p].gen>> \in notified,
                      leases[puts[p].id].gen = puts[p].gen,
                      <<puts[p].id, puts[p].gen>> \notin overrun
               PROVE  \E t \in LS!Threads :
                        threads[t].id = puts[p].id /\ threads[t].stage # "idle"
    BY DEF CallbackCleans
  <2>1. puts[p].stage = "done" /\ puts[p].key = k
    BY <1>1, ExpiryAssumption DEF PutInv, PutSide, StoredInv
  <2>2. puts[p].id \in Leases /\ puts[p].id # NoLease
    BY <1>1, ExpiryAssumption DEF PutInv, LSP!LeaseInv, LSP!TypeOK, LSP!Incarnation
  <2>3. PutCurrent(p)
    BY <2>1, <2>2 DEF PutCurrent
  <2>4. InMap(p) \/ InCallback(p)
    BY <1>1, <2>1, <2>3 DEF PutInv, PutSide, KeptInv
  <2>5. CASE InMap(p)
    BY <1>1, <2>2, <2>5 DEF InMap, PutInv, PutSide, TakenInv
  <2>6. CASE InCallback(p)
    BY <2>6 DEF InCallback
  <2> QED
    BY <2>4, <2>5, <2>6
<1> QED
  BY <1>1, PutInvariant, PTL

LEMMA DeletesStep ==
  ASSUME PutInv, [Next]_vars, NEW k \in Keys, kv[k] # NoPut, kv'[k] = NoPut
  PROVE  \E t \in LS!Threads, q \in Puts :
           /\ threads[t].stage = "clean" /\ k \in threads[t].keys
           /\ puts[q].key = k /\ puts[q].id = threads[t].id
           /\ \/ LS!Removed(puts[q].id, puts[q].gen)
              \/ <<puts[q].id, puts[q].gen>> \in overrun
<1>1. PICK t \in LS!Threads, j \in Keys : HandlerDeletes(t, j)
  <2>1. ASSUME NEW p \in Puts, PutStore(p) PROVE FALSE
    BY <2>1, ExpiryAssumption DEF PutStore, PutInv, PutSide, PutType
  <2>2. ASSUME kv' = kv PROVE FALSE
    BY <2>2
  <2> QED
    BY <2>1, <2>2 DEF Next, vars, kvVars, PutBegin, LockStep, LeaseStep, HandlerStep,
                      HandlerReleases, HandlerConsumes, HandlerReturns
<1>2. j = k
  BY <1>1 DEF HandlerDeletes, PutInv, PutSide, PutType
<1>3. threads[t].stage = "clean" /\ k \in threads[t].keys
  BY <1>1, <1>2 DEF HandlerDeletes, LS!CleanKey
<1> QED
  BY <1>3 DEF PutInv, PutSide, CleaningInv, Bound

\* A value disappears only in a callback whose lease its key was put under, by
\* this request or another, for any number of puts and goroutines in callbacks
\* (api.go:94-106, expiry.go:13-20).
THEOREM DeletesOnlyBoundCorrect == Spec => DeletesOnlyBound
<1> DEFINE Step == \A k \in Keys :
        kv[k] # NoPut /\ kv'[k] = NoPut =>
          \E t \in LS!Threads, q \in Puts :
            /\ threads[t].stage = "clean" /\ k \in threads[t].keys
            /\ puts[q].key = k /\ puts[q].id = threads[t].id
            /\ LS!Removed(puts[q].id, puts[q].gen)
               \/ <<puts[q].id, puts[q].gen>> \in overrun
<1>1. PutInv /\ [Next]_vars => [Step]_vars
  BY DeletesStep
<1> HIDE DEF Step
<1>2. Spec => [][Step]_vars
  BY <1>1, PutInvariant, PTL DEF Spec
<1> QED
  BY <1>2 DEF DeletesOnlyBound, Step

=============================================================================
