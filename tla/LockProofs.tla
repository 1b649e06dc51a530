----------------------------- MODULE LockProofs -----------------------------
(***************************************************************************)
(* Proofs about Lock for every set of locks, requests, clients and leases. *)
(***************************************************************************)
EXTENDS Lock, OrderLemmas, TLAPS

-----------------------------------------------------------------------------
(* The inductive invariant *)

\* Requests that have not been given a waiter yet.
Fresh(r) == pc[r] \in {"idle", "retry", "enqueue"}

\* Told or about to be told that it holds the lock.
Told(r) == pc[r] = "holding" \/ (pc[r] = "waiting" /\ signal[r] = "granted")

\* A request that is told so does hold it.
GrantedTo(r) == Told(r) => holder[LockOf[r]] = r
GrantedInv == \A r \in Requests : GrantedTo(r)

\* The holder asked for this lock and has not released it.  It may have timed
\* out: that grant is lost, but it is nobody else's.
HolderInv ==
  \A l \in Locks :
    holder[l] # NoRequest =>
      /\ LockOf[holder[l]] = l
      /\ pc[holder[l]] \in {"holding", "waiting", "cancel", "timedout"}

\* A queued request waits on an entry that another request holds, with an open
\* channel and a ticket of its own.
QueueInv ==
  \A l \in Locks : \A q \in queue[l] :
    /\ LockOf[q] = l
    /\ pc[q] \in {"waiting", "cancel"}
    /\ signal[q] = "open"
    /\ q \in waiters
    /\ holder[l] # NoRequest
    /\ holder[l] # q
    /\ ticket[q] > 0

\* No two requests have the same ticket, and one without a waiter has none.
TicketInv ==
  /\ \A r, q \in Requests : ticket[r] = ticket[q] /\ ticket[r] > 0 => r = q
  /\ \A r \in Requests : Fresh(r) => signal[r] = "open" /\ ticket[r] = 0

\* What holds also when leases come back to life and their callbacks take locks
\* from them, as in Expiry.
ManagerInv == HolderInv /\ QueueInv /\ TicketInv

LockInv == ManagerInv /\ GrantedInv /\ NoLostWakeup

\* What a step that takes a lock from nobody else preserves.
Keeps ==
  /\ ManagerInv'
  /\ \A q \in Requests : GrantedTo(q) => GrantedTo(q)'
  /\ NoLostWakeup => NoLostWakeup'

\* The requests for one lock come from different clients.
DistinctNames ==
  \A r, q \in Requests : LockOf[r] = LockOf[q] /\ ClientOf[r] = ClientOf[q] => r = q

-----------------------------------------------------------------------------
(* Facts about wakeNext *)

\* Without a waiter whose lease lives there is nobody to grant to; with one,
\* exactly one request is granted.
LEMMA FirstExists ==
  ASSUME TypeOK, NEW l \in Locks, NEW q \in queue[l], LeaseLives(q)
  PROVE  First(l) # {}
<1> DEFINE Live == {r \in queue[l] : LeaseLives(r)}
           T == {ticket[r] : r \in Live}
<1>1. queue[l] \subseteq Requests /\ ticket \in [Requests -> Nat]
  BY DEF TypeOK
<1>2. T \in SUBSET Nat /\ T # {}
  BY <1>1
<1>3. Min(T) \in T /\ \A n \in T : Min(T) <= n
  BY <1>2, SmallestExists
<1>4. PICK r \in Live : ticket[r] = Min(T)
  BY <1>3
<1>5. \A p \in queue[l] : LeaseLives(p) => ticket[r] <= ticket[p]
  BY <1>3, <1>4
<1> QED
  BY <1>4, <1>5 DEF First

LEMMA FirstUnique ==
  ASSUME TypeOK, QueueInv, TicketInv, NEW l \in Locks,
         NEW r \in First(l), NEW q \in First(l)
  PROVE  r = q
<1>1. r \in Requests /\ q \in Requests /\ ticket[r] \in Nat /\ ticket[q] \in Nat
      /\ ticket[r] > 0
  BY DEF First, TypeOK, QueueInv
<1>2. ticket[r] <= ticket[q] /\ ticket[q] <= ticket[r]
  BY DEF First
<1>3. ticket[r] = ticket[q]
  BY <1>1, <1>2
<1> QED
  BY <1>1, <1>3 DEF TicketInv

LEMMA GranteeIs ==
  ASSUME TypeOK, QueueInv, TicketInv, NEW l \in Locks
  PROVE  /\ First(l) = {} => Grantee(l) = NoRequest
         /\ First(l) # {} => First(l) = {Grantee(l)} /\ Grantee(l) \in queue[l]
<1>1. First(l) \subseteq queue[l]
  BY DEF First
<1>2. ASSUME First(l) # {} PROVE Grantee(l) \in First(l)
  BY <1>2 DEF Grantee
<1> QED
  BY <1>1, <1>2, FirstUnique DEF Grantee

-----------------------------------------------------------------------------
(* Type correctness *)

LEMMA TypeInit == Init => TypeOK
BY RequestAssumption DEF Init, TypeOK, Record

LEMMA HandoverType ==
  ASSUME TypeOK, NEW l \in Locks
  PROVE  Handover(l) \in Seq(Record) /\ Grantee(l) \in Requests \cup {NoRequest}
<1>1. First(l) \subseteq Requests
  BY DEF First, TypeOK
<1>2. Grantee(l) \in Requests \cup {NoRequest}
  BY <1>1 DEF Grantee
<1>3. \A s \in {"held", "releasing", "waiting", "deleted"},
         r \in Requests \cup {NoRequest} : Persisted(s, r) \in Record
  BY DEF Persisted, Record
<1> QED
  BY <1>2, <1>3 DEF Handover

LEMMA ReleaseType ==
  ASSUME TypeOK, NEW S \in SUBSET Locks, ReleaseLocked(S)
  PROVE  /\ holder' \in [Locks -> Requests \cup {NoRequest}]
         /\ queue' \in [Locks -> SUBSET Requests]
         /\ seq' \in Nat
         /\ ticket' \in [Requests -> 0..seq']
         /\ waiters' \subseteq Requests
         /\ signal' \in [Requests -> {"open", "granted", "cancelled"}]
         /\ journal' \in [Locks -> Seq(Record)]
<1>1. \A l \in Locks : Remaining(l) \subseteq Requests
  BY DEF Remaining, TypeOK
<1>2. \A l \in Locks : journal[l] \o Handover(l) \in Seq(Record)
  BY HandoverType DEF TypeOK
<1>3. holder' \in [Locks -> Requests \cup {NoRequest}]
  BY HandoverType DEF ReleaseLocked, TypeOK
<1>4. queue' \in [Locks -> SUBSET Requests]
  BY <1>1 DEF ReleaseLocked, TypeOK
<1>5. journal' \in [Locks -> Seq(Record)]
  BY <1>2 DEF ReleaseLocked, TypeOK
<1>6. signal' \in [Requests -> {"open", "granted", "cancelled"}]
  BY DEF ReleaseLocked, TypeOK
<1> QED
  BY <1>3, <1>4, <1>5, <1>6 DEF ReleaseLocked, TypeOK

LEMMA TypeStep == TypeOK /\ [Next]_vars => TypeOK'
<1> SUFFICES ASSUME TypeOK, [Next]_vars PROVE TypeOK'
  OBVIOUS
<1> USE RequestAssumption
<1>1. ASSUME NEW r \in Requests, TryAcquire(r) PROVE TypeOK'
  <2>1. Persisted("held", r) \in Record /\ LockOf[r] \in Locks
    BY DEF Persisted, Record
  <2>2. CASE holder[LockOf[r]] = NoRequest
    <3>1. Append(journal[LockOf[r]], Persisted("held", r)) \in Seq(Record)
      BY <2>1 DEF TypeOK
    <3>2. journal' = [journal EXCEPT
                        ![LockOf[r]] = Append(journal[LockOf[r]], Persisted("held", r))]
      BY <1>1, <2>2 DEF TryAcquire
    <3>3. journal' \in [Locks -> Seq(Record)]
      BY <3>1, <3>2 DEF TypeOK
    <3>4. pc' = [pc EXCEPT ![r] = "holding"] /\ holder' = [holder EXCEPT ![LockOf[r]] = r]
          /\ UNCHANGED <<late, queue, ticket, seq, waiters, signal, alive>>
      BY <1>1, <2>2 DEF TryAcquire
    <3> QED
      BY <2>1, <3>3, <3>4 DEF TypeOK
  <2>3. CASE holder[LockOf[r]] # NoRequest
    <3>1. pc' = [pc EXCEPT ![r] = "enqueue"]
          /\ UNCHANGED <<late, holder, queue, ticket, seq, waiters, signal, journal, alive>>
      BY <1>1, <2>3 DEF TryAcquire
    <3> QED
      BY <3>1 DEF TypeOK
  <2> QED
    BY <2>2, <2>3
<1>2. ASSUME NEW r \in Requests, Enqueue(r) PROVE TypeOK'
  <2>1. CASE holder[LockOf[r]] = NoRequest
    <3>1. pc' = [pc EXCEPT ![r] = "retry"]
          /\ UNCHANGED <<late, holder, queue, ticket, seq, waiters, signal, journal, alive>>
      BY <1>2, <2>1 DEF Enqueue
    <3> QED
      BY <3>1 DEF TypeOK
  <2>2. CASE holder[LockOf[r]] # NoRequest
    <3>1. /\ pc' = [pc EXCEPT ![r] = "waiting"]
          /\ queue' = [queue EXCEPT ![LockOf[r]] = @ \cup {r}]
          /\ seq' = seq + 1
          /\ ticket' = [ticket EXCEPT ![r] = seq + 1]
          /\ waiters' = waiters \cup {r}
          /\ UNCHANGED <<late, holder, signal, journal, alive>>
      BY <1>2, <2>2 DEF Enqueue
    <3>2. seq' \in Nat /\ 0..seq \subseteq 0..seq' /\ seq + 1 \in 0..seq'
      BY <3>1 DEF TypeOK
    <3>3. ticket' \in [Requests -> 0..seq']
      BY <3>1, <3>2 DEF TypeOK
    <3> QED
      BY <3>1, <3>2, <3>3 DEF TypeOK
  <2> QED
    BY <2>1, <2>2
<1>3. ASSUME NEW r \in Requests, Woken(r) \/ ContextDone(r) PROVE TypeOK'
  BY <1>3 DEF Woken, ContextDone, managerVars, TypeOK
<1>4. ASSUME NEW r \in Requests, Cancel(r) PROVE TypeOK'
  BY <1>4 DEF Cancel, TypeOK
<1>5. ASSUME NEW r \in Requests, Release(r) PROVE TypeOK'
  <2>1. pc' \in [Requests -> {"idle", "retry", "enqueue", "waiting", "cancel",
                              "holding", "timedout", "released", "gone"}]
        /\ UNCHANGED <<late, alive>>
    BY <1>5 DEF Release, TypeOK
  <2>2. CASE ReleaseLocked({LockOf[r]})
    BY <2>1, <2>2, ReleaseType DEF TypeOK
  <2>3. CASE UNCHANGED managerVars
    BY <2>1, <2>3 DEF managerVars, TypeOK
  <2> QED
    BY <1>5, <2>2, <2>3 DEF Release
<1>6. ASSUME NEW id \in Leases, LeaseDies(id) PROVE TypeOK'
  BY <1>6 DEF LeaseDies, requestVars, managerVars, TypeOK
<1>7. ASSUME NEW id \in Leases \ alive, ReleaseByLease(id) PROVE TypeOK'
  BY <1>7 DEF ReleaseByLease, requestVars, managerVars, TypeOK
<1>8. CASE UNCHANGED vars
  BY <1>8 DEF vars, requestVars, managerVars, TypeOK
<1> QED
  BY <1>1, <1>2, <1>3, <1>4, <1>5, <1>6, <1>7, <1>8
  DEF Next, RequestStep, TypeOK

\* Every variable keeps its type, for every number of requests.
THEOREM TypeCorrect == Spec => []TypeOK
BY TypeInit, TypeStep, PTL DEF Spec

-----------------------------------------------------------------------------
(* Safety *)

\* What the release of a set of locks does to every variable.
LEMMA ReleaseEffect ==
  ASSUME TypeOK, ManagerInv, NEW S \in SUBSET Locks, ReleaseLocked(S)
  PROVE  /\ \A m \in Locks \ S : holder'[m] = holder[m] /\ queue'[m] = queue[m]
         /\ \A l \in S : holder'[l] = Grantee(l) /\ queue'[l] = Remaining(l)
         /\ \A q \in Requests :
              signal'[q] = IF \E l \in S : q \in First(l) THEN "granted" ELSE signal[q]
         /\ \A q : q \in waiters' <=> q \in waiters /\ ~\E l \in S : q \in First(l)
         /\ ticket' = ticket
<1> DEFINE woken == UNION {First(m) : m \in S}
<1>1. \A q : q \in woken <=> \E l \in S : q \in First(l)
  OBVIOUS
<1>2. woken \subseteq waiters
  BY <1>1 DEF First, ManagerInv, QueueInv
<1>3. /\ holder' = [m \in Locks |-> IF m \in S THEN Grantee(m) ELSE holder[m]]
      /\ queue' = [m \in Locks |-> IF m \in S THEN Remaining(m) ELSE queue[m]]
      /\ waiters' = waiters \ woken
      /\ signal' = [q \in Requests |->
           IF q \in woken \cap waiters THEN "granted" ELSE signal[q]]
      /\ ticket' = ticket
  BY DEF ReleaseLocked
<1> HIDE DEF woken
<1> QED
  BY <1>1, <1>2, <1>3

LEMMA InvInit == Init => LockInv
BY RequestAssumption
DEF Init, LockInv, ManagerInv, GrantedInv, GrantedTo, Told, HolderInv, QueueInv, TicketInv,
    NoLostWakeup, Fresh

\* The client that releases is the one that was granted the lock.
LEMMA ReleaserIsHolder ==
  ASSUME DistinctNames, TypeOK, ManagerInv, NEW r \in Requests, Release(r), MayRelease(r)
  PROVE  /\ holder[LockOf[r]] = r
         /\ pc[r] = "holding"
         /\ pc' = [pc EXCEPT ![r] = "released"]
         /\ ReleaseLocked({LockOf[r]})
         /\ alive' = alive
<1>1. LockOf[r] \in Locks
  BY RequestAssumption
<1>2. holder[LockOf[r]] \in Requests /\ LockOf[holder[LockOf[r]]] = LockOf[r]
  BY <1>1 DEF MayRelease, TypeOK, ManagerInv, HolderInv
<1>3. holder[LockOf[r]] = r
  BY <1>2 DEF MayRelease, DistinctNames
<1>4. pc[r] # "released"
  BY <1>1, <1>2, <1>3 DEF ManagerInv, HolderInv, MayRelease
<1> QED
  BY <1>3, <1>4 DEF Release

\* releaseLocked for a set of entries, whose holders are released from their
\* locks or, in a callback, not told: only these lose a grant.
LEMMA ReleaseLockedStep ==
  ASSUME TypeOK, ManagerInv, NEW S \in SUBSET Locks, ReleaseLocked(S), alive' = alive,
         \A l \in S : holder[l] # NoRequest,
         \A q \in Requests :
           pc'[q] # pc[q] => /\ LockOf[q] \in S /\ holder[LockOf[q]] = q
                             /\ pc[q] = "holding" /\ pc'[q] = "released"
  PROVE  /\ ManagerInv'
         /\ \A q \in Requests :
              GrantedTo(q) => \/ GrantedTo(q)'
                              \/ LockOf[q] \in S /\ holder[LockOf[q]] = q /\ pc'[q] = pc[q]
         /\ NoLostWakeup => NoLostWakeup'
<1>1. /\ \A m \in Locks \ S : holder'[m] = holder[m] /\ queue'[m] = queue[m]
      /\ \A l \in S : holder'[l] = Grantee(l) /\ queue'[l] = Remaining(l)
      /\ \A q \in Requests :
           signal'[q] = IF \E l \in S : q \in First(l) THEN "granted" ELSE signal[q]
      /\ \A q : q \in waiters' <=> q \in waiters /\ ~\E l \in S : q \in First(l)
      /\ ticket' = ticket
  BY ReleaseEffect
<1>2. ASSUME NEW l \in S
      PROVE  /\ First(l) = {} => Grantee(l) = NoRequest
             /\ First(l) # {} => First(l) = {Grantee(l)} /\ Grantee(l) \in queue[l]
  BY GranteeIs DEF ManagerInv
<1>3. ASSUME NEW l \in S
      PROVE  First(l) \subseteq queue[l] /\ Remaining(l) \subseteq queue[l]
             /\ queue[l] \subseteq Requests
  BY DEF First, Remaining, TypeOK
<1>4. ASSUME NEW l \in S, NEW q \in First(l)
      PROVE  q \in Requests /\ LockOf[q] = l /\ pc[q] \in {"waiting", "cancel"}
             /\ signal[q] = "open" /\ pc'[q] = pc[q] /\ holder'[l] = q
  <2>1. q \in Requests /\ LockOf[q] = l /\ pc[q] \in {"waiting", "cancel"}
        /\ signal[q] = "open"
    BY <1>3 DEF ManagerInv, QueueInv
  <2> QED
    BY <1>1, <1>2, <2>1
<1>5. ASSUME NEW q \in Requests, GrantedTo(q), Told(q)',
             pc'[q] # pc[q] \/ ~(LockOf[q] \in S /\ holder[LockOf[q]] = q)
      PROVE  holder'[LockOf[q]] = q
  <2>1. pc'[q] = pc[q] /\ LockOf[q] \in Locks
    BY <1>5, RequestAssumption DEF Told
  <2>2. CASE \E l \in S : q \in First(l)
    BY <1>4, <2>2
  <2>3. CASE ~\E l \in S : q \in First(l)
    <3>1. holder[LockOf[q]] = q
      BY <1>1, <1>5, <2>1, <2>3 DEF GrantedTo, Told
    <3> QED
      BY <1>1, <1>5, <2>1, <3>1
  <2> QED
    BY <2>2, <2>3
<1>6. ASSUME NEW q \in Requests, GrantedTo(q)
      PROVE  \/ GrantedTo(q)'
             \/ LockOf[q] \in S /\ holder[LockOf[q]] = q /\ pc'[q] = pc[q]
  BY <1>5, <1>6 DEF GrantedTo
<1>7. HolderInv'
  <2> SUFFICES ASSUME NEW m \in Locks, holder'[m] # NoRequest
               PROVE  /\ LockOf[holder'[m]] = m
                      /\ pc'[holder'[m]] \in {"holding", "waiting", "cancel", "timedout"}
    BY DEF HolderInv
  <2>1. CASE m \in S
    <3>1. holder'[m] \in First(m)
      BY <1>1, <1>2, <2>1
    <3> QED
      BY <1>4, <2>1, <3>1
  <2>2. CASE m \notin S
    <3>1. holder'[m] = holder[m] /\ holder[m] \in Requests
      BY <1>1, <2>2 DEF TypeOK
    <3>2. LockOf[holder[m]] = m
          /\ pc[holder[m]] \in {"holding", "waiting", "cancel", "timedout"}
      BY <3>1 DEF ManagerInv, HolderInv
    <3> QED
      BY <2>2, <3>1, <3>2
  <2> QED
    BY <2>1, <2>2
<1>8. QueueInv'
  <2> SUFFICES ASSUME NEW m \in Locks, NEW q \in queue'[m]
               PROVE  /\ LockOf[q] = m
                      /\ pc'[q] \in {"waiting", "cancel"}
                      /\ signal'[q] = "open"
                      /\ q \in waiters'
                      /\ holder'[m] # NoRequest
                      /\ holder'[m] # q
                      /\ ticket'[q] > 0
    BY DEF QueueInv
  <2>1. q \in queue[m] /\ q \in Requests
    BY <1>1, <1>3 DEF TypeOK
  <2>2. /\ LockOf[q] = m /\ pc[q] \in {"waiting", "cancel"} /\ signal[q] = "open"
        /\ q \in waiters /\ holder[m] # NoRequest /\ holder[m] # q /\ ticket[q] > 0
    BY <2>1 DEF ManagerInv, QueueInv
  <2>3. pc'[q] = pc[q]
    BY <2>1, <2>2
  <2>4. (~\E l \in S : q \in First(l)) /\ holder'[m] # NoRequest /\ holder'[m] # q
    <3>1. CASE m \in S
      <4>1. PICK f \in First(m) : q # f
        BY <1>1, <3>1 DEF Remaining
      <4>2. First(m) = {Grantee(m)} /\ Grantee(m) \in Requests /\ holder'[m] = Grantee(m)
        BY <1>1, <1>2, <1>3, <3>1, <4>1
      <4> QED
        BY <1>4, <2>2, <4>1, <4>2, RequestAssumption
    <3>2. CASE m \notin S
      BY <1>1, <1>4, <2>2, <3>2
    <3> QED
      BY <3>1, <3>2
  <2> QED
    BY <1>1, <2>1, <2>2, <2>3, <2>4
<1>9. TicketInv'
  <2>1. \A q \in Requests : Fresh(q)' => Fresh(q) /\ ~\E l \in S : q \in First(l)
    BY <1>4 DEF Fresh
  <2> QED
    BY <1>1, <2>1 DEF ManagerInv, TicketInv
<1>10. ASSUME NoLostWakeup PROVE NoLostWakeup'
  <2> SUFFICES ASSUME NEW q \in Requests, pc'[q] = "waiting", signal'[q] = "open",
                      LeaseLives(q)'
               PROVE  /\ holder'[LockOf[q]] # NoRequest
                      /\ q \in queue'[LockOf[q]]
                      /\ q \in waiters'
    BY DEF NoLostWakeup
  <2>1. LeaseLives(q) /\ pc[q] = "waiting" /\ (~\E l \in S : q \in First(l))
        /\ signal[q] = "open" /\ LockOf[q] \in Locks
    BY <1>1, RequestAssumption DEF LeaseLives
  <2>2. /\ holder[LockOf[q]] # NoRequest /\ q \in queue[LockOf[q]] /\ q \in waiters
    BY <1>10, <2>1 DEF NoLostWakeup
  <2>3. CASE LockOf[q] \in S
    <3>1. First(LockOf[q]) # {}
      BY <2>1, <2>2, FirstExists
    <3>2. q \in Remaining(LockOf[q])
      BY <2>1, <2>2, <2>3, <3>1 DEF Remaining
    <3>3. Grantee(LockOf[q]) \in Requests
      BY <1>2, <1>3, <2>3, <3>1
    <3> QED
      BY <1>1, <2>1, <2>2, <2>3, <3>2, <3>3, RequestAssumption
  <2>4. CASE LockOf[q] \notin S
    BY <1>1, <2>1, <2>2, <2>4
  <2> QED
    BY <2>3, <2>4
<1> QED
  BY <1>6, <1>7, <1>8, <1>9, <1>10 DEF ManagerInv

LEMMA ReleaseStep ==
  ASSUME DistinctNames, TypeOK, ManagerInv, NEW r \in Requests, Release(r), MayRelease(r)
  PROVE  Keeps
<1>1. /\ LockOf[r] \in Locks /\ holder[LockOf[r]] = r /\ pc[r] = "holding"
      /\ pc' = [pc EXCEPT ![r] = "released"] /\ alive' = alive
      /\ ReleaseLocked({LockOf[r]}) /\ holder[LockOf[r]] # NoRequest
  BY ReleaserIsHolder, RequestAssumption
<1>2. \A q \in Requests : pc'[q] = IF q = r THEN "released" ELSE pc[q]
  BY <1>1 DEF TypeOK
<1> DEFINE S == {LockOf[r]}
<1>3. S \in SUBSET Locks /\ ReleaseLocked(S) /\ alive' = alive
      /\ (\A l \in S : holder[l] # NoRequest)
      /\ \A q \in Requests :
           pc'[q] # pc[q] => /\ LockOf[q] \in S /\ holder[LockOf[q]] = q
                             /\ pc[q] = "holding" /\ pc'[q] = "released"
  BY <1>1, <1>2
<1>4. \A q \in Requests :
        ~(LockOf[q] \in S /\ holder[LockOf[q]] = q /\ pc'[q] = pc[q])
  BY <1>1, <1>2
<1> HIDE DEF S
<1>5. /\ ManagerInv'
      /\ \A q \in Requests :
           GrantedTo(q) => \/ GrantedTo(q)'
                           \/ LockOf[q] \in S /\ holder[LockOf[q]] = q /\ pc'[q] = pc[q]
      /\ NoLostWakeup => NoLostWakeup'
  BY <1>3, ReleaseLockedStep
<1> QED
  BY <1>4, <1>5 DEF Keeps

\* TryAcquire by a request that finds no entry: it becomes the holder.
LEMMA TryAcquireStep ==
  ASSUME TypeOK, ManagerInv, NEW r \in Requests, TryAcquire(r)
  PROVE  Keeps
<1>1. LockOf[r] \in Locks /\ Fresh(r) /\ r # NoRequest
  BY RequestAssumption DEF TryAcquire, Fresh
<1>2. queue' = queue /\ ticket' = ticket /\ waiters' = waiters /\ signal' = signal
      /\ alive' = alive
  BY DEF TryAcquire
<1>3. \A q \in Requests : q # r => pc'[q] = pc[q]
  BY DEF TryAcquire, TypeOK
<1>4. pc'[r] \in {"holding", "enqueue"}
  BY DEF TryAcquire, TypeOK
<1>5. \A m \in Locks : holder'[m] # holder[m] =>
        m = LockOf[r] /\ holder[m] = NoRequest /\ holder'[m] = r
  BY <1>1 DEF TryAcquire, TypeOK
<1>6. pc'[r] = "holding" => holder'[LockOf[r]] = r
  BY <1>1 DEF TryAcquire, TypeOK
<1>7. \A m \in Locks : r \notin queue[m] /\ holder[m] # r
  BY <1>1 DEF Fresh, ManagerInv, QueueInv, HolderInv
<1>8. ASSUME NEW q \in Requests, GrantedTo(q) PROVE GrantedTo(q)'
  <2> SUFFICES ASSUME Told(q)' PROVE holder'[LockOf[q]] = q
    BY DEF GrantedTo
  <2>1. CASE q = r
    BY <1>4, <1>6, <2>1 DEF Told
  <2>2. CASE q # r
    <3>1. holder[LockOf[q]] = q /\ LockOf[q] \in Locks /\ q # NoRequest
      BY <1>2, <1>3, <1>8, <2>2, RequestAssumption DEF GrantedTo, Told
    <3> QED
      BY <1>5, <3>1
  <2> QED
    BY <2>1, <2>2
<1>9. HolderInv'
  <2> SUFFICES ASSUME NEW m \in Locks, holder'[m] # NoRequest
               PROVE  /\ LockOf[holder'[m]] = m
                      /\ pc'[holder'[m]] \in {"holding", "waiting", "cancel", "timedout"}
    BY DEF HolderInv
  <2>1. CASE holder'[m] = holder[m]
    <3>1. holder[m] \in Requests
      BY <2>1 DEF TypeOK
    <3> QED
      BY <1>3, <1>7, <2>1, <3>1 DEF ManagerInv, HolderInv
  <2>2. CASE holder'[m] # holder[m]
    <3>1. pc'[r] = "holding"
      BY <2>2 DEF TryAcquire, TypeOK
    <3> QED
      BY <1>5, <2>2, <3>1
  <2> QED
    BY <2>1, <2>2
<1>10. QueueInv'
  <2> SUFFICES ASSUME NEW m \in Locks, NEW q \in queue[m]
               PROVE  /\ LockOf[q] = m /\ pc'[q] \in {"waiting", "cancel"}
                      /\ signal[q] = "open" /\ q \in waiters
                      /\ holder'[m] # NoRequest /\ holder'[m] # q /\ ticket[q] > 0
    BY <1>2 DEF QueueInv
  <2>1. q \in Requests /\ q # r
    BY <1>7 DEF TypeOK
  <2>2. /\ LockOf[q] = m /\ pc[q] \in {"waiting", "cancel"} /\ signal[q] = "open"
        /\ q \in waiters /\ holder[m] # NoRequest /\ holder[m] # q /\ ticket[q] > 0
    BY DEF ManagerInv, QueueInv
  <2> QED
    BY <1>3, <1>5, <2>1, <2>2
<1>11. TicketInv'
  <2>1. \A q \in Requests : Fresh(q)' => Fresh(q)
    BY <1>1, <1>3 DEF Fresh
  <2> QED
    BY <1>2, <2>1 DEF ManagerInv, TicketInv
<1>12. ASSUME NoLostWakeup PROVE NoLostWakeup'
  <2> SUFFICES ASSUME NEW q \in Requests, pc'[q] = "waiting", signal'[q] = "open",
                      LeaseLives(q)'
               PROVE  holder'[LockOf[q]] # NoRequest /\ q \in queue'[LockOf[q]]
                      /\ q \in waiters'
    BY DEF NoLostWakeup
  <2>1. q # r /\ LeaseLives(q) /\ LockOf[q] \in Locks
    BY <1>2, <1>4, RequestAssumption DEF LeaseLives
  <2>2. holder[LockOf[q]] # NoRequest /\ q \in queue[LockOf[q]] /\ q \in waiters
    BY <1>2, <1>3, <1>12, <2>1 DEF NoLostWakeup
  <2> QED
    BY <1>1, <1>2, <1>5, <2>1, <2>2
<1> QED
  BY <1>8, <1>9, <1>10, <1>11, <1>12 DEF Keeps, ManagerInv

\* enqueue: the waiter joins an entry that somebody else holds, or goes back.
LEMMA EnqueueStep ==
  ASSUME TypeOK, ManagerInv, NEW r \in Requests, Enqueue(r)
  PROVE  Keeps
<1>1. LockOf[r] \in Locks /\ Fresh(r) /\ pc[r] = "enqueue" /\ r # NoRequest
  BY RequestAssumption DEF Enqueue, Fresh
<1>2. holder' = holder /\ signal' = signal /\ alive' = alive
  BY DEF Enqueue
<1>3. signal[r] = "open" /\ ticket[r] = 0
      /\ \A m \in Locks : r \notin queue[m] /\ holder[m] # r
  BY <1>1 DEF Fresh, ManagerInv, QueueInv, HolderInv, TicketInv
<1>4. \A q \in Requests : q # r => pc'[q] = pc[q] /\ ticket'[q] = ticket[q]
  BY DEF Enqueue, TypeOK
<1>5. CASE holder[LockOf[r]] = NoRequest
  <2>1. queue' = queue /\ ticket' = ticket /\ waiters' = waiters /\ pc'[r] = "retry"
    BY <1>5 DEF Enqueue, TypeOK
  <2>2. \A q \in Requests : pc'[q] # pc[q] => q = r
    BY <1>4
  <2>3. HolderInv' /\ \A q \in Requests : GrantedTo(q) => GrantedTo(q)'
    BY <1>2, <1>3, <2>1, <2>2 DEF ManagerInv, GrantedTo, Told, HolderInv, TypeOK
  <2>4. QueueInv'
    <3> SUFFICES ASSUME NEW m \in Locks, NEW q \in queue[m]
                 PROVE  pc'[q] \in {"waiting", "cancel"}
      BY <1>2, <2>1 DEF ManagerInv, QueueInv
    <3>1. q \in Requests /\ pc[q] \in {"waiting", "cancel"} /\ signal[q] = "open"
      BY DEF ManagerInv, QueueInv, TypeOK
    <3> QED
      BY <1>1, <2>2, <3>1
  <2>5. TicketInv'
    BY <1>1, <1>2, <2>1, <2>2 DEF ManagerInv, TicketInv, Fresh
  <2>6. ASSUME NoLostWakeup PROVE NoLostWakeup'
    BY <1>2, <2>1, <2>2, <2>6 DEF NoLostWakeup, LeaseLives
  <2> QED
    BY <2>3, <2>4, <2>5, <2>6 DEF Keeps, ManagerInv
<1>6. CASE holder[LockOf[r]] # NoRequest
  <2>1. /\ pc'[r] = "waiting" /\ waiters' = waiters \cup {r} /\ ticket'[r] = seq + 1
        /\ \A m \in Locks : queue'[m] = IF m = LockOf[r] THEN queue[m] \cup {r} ELSE queue[m]
    BY <1>1, <1>6 DEF Enqueue, TypeOK
  <2>2. \A q \in Requests : ticket[q] \in 0..seq
    BY DEF TypeOK
  <2>3. seq \in Nat
    BY DEF TypeOK
  <2>4. \A q \in Requests : GrantedTo(q) => GrantedTo(q)'
    BY <1>2, <1>3, <1>4, <2>1 DEF GrantedTo, Told
  <2>5. HolderInv'
    BY <1>2, <1>3, <1>4 DEF ManagerInv, HolderInv, TypeOK
  <2>6. QueueInv'
    <3> SUFFICES ASSUME NEW m \in Locks, NEW q \in queue'[m]
                 PROVE  /\ LockOf[q] = m /\ pc'[q] \in {"waiting", "cancel"}
                        /\ signal[q] = "open" /\ q \in waiters'
                        /\ holder[m] # NoRequest /\ holder[m] # q /\ ticket'[q] > 0
      BY <1>2 DEF QueueInv
    <3>1. CASE q = r
      <4>1. m = LockOf[r]
        BY <1>3, <2>1, <3>1
      <4> QED
        BY <1>3, <1>6, <2>1, <2>3, <3>1, <4>1
    <3>2. CASE q # r
      <4>1. q \in queue[m] /\ q \in Requests
        BY <2>1, <3>2 DEF TypeOK
      <4> QED
        BY <1>4, <2>1, <3>2, <4>1 DEF ManagerInv, QueueInv
    <3> QED
      BY <3>1, <3>2
  <2>7. TicketInv'
    <3>1. \A q \in Requests : Fresh(q)' => Fresh(q) /\ q # r
      BY <1>4, <2>1 DEF Fresh
    <3>2. \A q \in Requests \ {r} : ticket'[q] # ticket'[r]
      BY <1>4, <2>1, <2>2, <2>3
    <3>3. \A p, q \in Requests : ticket'[p] = ticket'[q] /\ ticket'[p] > 0 => p = q
      BY <1>4, <3>2 DEF ManagerInv, TicketInv
    <3> QED
      BY <1>2, <1>4, <3>1, <3>3 DEF ManagerInv, TicketInv
  <2>8. ASSUME NoLostWakeup PROVE NoLostWakeup'
    <3> SUFFICES ASSUME NEW q \in Requests, pc'[q] = "waiting", signal'[q] = "open",
                        LeaseLives(q)'
                 PROVE  holder'[LockOf[q]] # NoRequest /\ q \in queue'[LockOf[q]]
                        /\ q \in waiters'
      BY DEF NoLostWakeup
    <3>1. LockOf[q] \in Locks /\ LeaseLives(q)
      BY <1>2, RequestAssumption DEF LeaseLives
    <3> QED
      BY <1>2, <1>4, <1>6, <2>1, <2>8, <3>1 DEF NoLostWakeup
  <2> QED
    BY <2>4, <2>5, <2>6, <2>7, <2>8 DEF Keeps, ManagerInv
<1> QED
  BY <1>5, <1>6

\* Acquire leaves its select: by the closed channel or by its context.
LEMMA SelectStep ==
  ASSUME TypeOK, ManagerInv, NEW r \in Requests, Woken(r) \/ ContextDone(r)
  PROVE  Keeps
<1>1. /\ holder' = holder /\ queue' = queue /\ ticket' = ticket /\ waiters' = waiters
      /\ signal' = signal /\ alive' = alive
  BY DEF Woken, ContextDone, managerVars
<1>2. pc[r] = "waiting" /\ \A q \in Requests : q # r => pc'[q] = pc[q]
  BY DEF Woken, ContextDone, TypeOK
<1>3. \/ pc'[r] = "holding" /\ signal[r] = "granted"
      \/ pc'[r] = "timedout" /\ signal[r] = "cancelled"
      \/ pc'[r] = "cancel"
  BY DEF Woken, ContextDone, TypeOK
<1>4. \A q \in Requests : GrantedTo(q) => GrantedTo(q)'
  BY <1>1, <1>2, <1>3 DEF GrantedTo, Told
<1>5. HolderInv'
  BY <1>1, <1>2, <1>3 DEF ManagerInv, HolderInv, TypeOK
<1>6. QueueInv'
  <2> SUFFICES ASSUME NEW m \in Locks, NEW q \in queue[m]
               PROVE  pc'[q] \in {"waiting", "cancel"}
    BY <1>1 DEF ManagerInv, QueueInv
  <2>1. q \in Requests /\ pc[q] \in {"waiting", "cancel"} /\ signal[q] = "open"
    BY DEF ManagerInv, QueueInv, TypeOK
  <2> QED
    BY <1>2, <1>3, <2>1
<1>7. TicketInv'
  <2>1. \A q \in Requests : Fresh(q)' => Fresh(q)
    BY <1>2, <1>3 DEF Fresh
  <2> QED
    BY <1>1, <2>1 DEF ManagerInv, TicketInv
<1>8. ASSUME NoLostWakeup PROVE NoLostWakeup'
  BY <1>1, <1>2, <1>3, <1>8 DEF NoLostWakeup, LeaseLives
<1> QED
  BY <1>4, <1>5, <1>6, <1>7, <1>8 DEF Keeps, ManagerInv

\* Cancel: the requests it removes are signalled, so none of them is lost.
LEMMA CancelStep ==
  ASSUME TypeOK, ManagerInv, NEW r \in Requests, Cancel(r)
  PROVE  Keeps
<1> DEFINE C == Cancelled(r)
<1>1. /\ holder' = holder /\ ticket' = ticket /\ alive' = alive
      /\ waiters' = waiters \ C
      /\ LockOf[r] \in Locks /\ pc[r] = "cancel" /\ pc'[r] = "timedout"
      /\ \A q \in Requests : q # r => pc'[q] = pc[q]
      /\ \A m \in Locks : queue'[m] = IF m = LockOf[r] THEN queue[m] \ C ELSE queue[m]
  BY RequestAssumption DEF Cancel, TypeOK
<1>2. C \subseteq queue[LockOf[r]] /\ C \subseteq waiters /\ C \subseteq Requests
  BY <1>1 DEF Cancelled, ManagerInv, QueueInv, TypeOK
<1>3. \A q \in Requests : signal'[q] = IF q \in C THEN "cancelled" ELSE signal[q]
  BY <1>2 DEF Cancel
<1>4. \A m \in Locks : r \in queue[m] => r \in C /\ m = LockOf[r]
  BY DEF ManagerInv, QueueInv, Cancelled
<1>5. \A m \in Locks : m # LockOf[r] => \A q \in queue[m] : q \notin C
  BY <1>1, <1>2 DEF ManagerInv, QueueInv
<1> HIDE DEF C
<1>6. \A q \in Requests : GrantedTo(q) => GrantedTo(q)'
  BY <1>1, <1>3 DEF GrantedTo, Told
<1>7. HolderInv'
  <2> SUFFICES ASSUME NEW m \in Locks, holder[m] # NoRequest
               PROVE  pc'[holder[m]] \in {"holding", "waiting", "cancel", "timedout"}
    BY <1>1 DEF ManagerInv, HolderInv
  <2>1. holder[m] \in Requests
        /\ pc[holder[m]] \in {"holding", "waiting", "cancel", "timedout"}
    BY DEF ManagerInv, HolderInv, TypeOK
  <2> QED
    BY <1>1, <2>1
<1>8. QueueInv'
  <2> SUFFICES ASSUME NEW m \in Locks, NEW q \in queue'[m]
               PROVE  /\ LockOf[q] = m /\ pc'[q] \in {"waiting", "cancel"}
                      /\ signal'[q] = "open" /\ q \in waiters'
                      /\ holder[m] # NoRequest /\ holder[m] # q /\ ticket[q] > 0
    BY <1>1 DEF QueueInv
  <2>1. q \in queue[m] /\ q \in Requests /\ q \notin C
    BY <1>1, <1>5 DEF TypeOK
  <2>2. q # r
    BY <1>4, <2>1
  <2> QED
    BY <1>1, <1>3, <2>1, <2>2 DEF ManagerInv, QueueInv
<1>9. TicketInv'
  <2>1. \A q \in C : ~Fresh(q)
    BY <1>1, <1>2 DEF ManagerInv, QueueInv, Fresh
  <2>2. \A q \in Requests : Fresh(q)' => Fresh(q)
    BY <1>1 DEF Fresh
  <2> QED
    BY <1>1, <1>3, <2>1, <2>2 DEF ManagerInv, TicketInv
<1>10. ASSUME NoLostWakeup PROVE NoLostWakeup'
  <2> SUFFICES ASSUME NEW q \in Requests, pc'[q] = "waiting", signal'[q] = "open",
                      LeaseLives(q)'
               PROVE  holder'[LockOf[q]] # NoRequest /\ q \in queue'[LockOf[q]]
                      /\ q \in waiters'
    BY DEF NoLostWakeup
  <2>1. q # r /\ q \notin C /\ LeaseLives(q) /\ LockOf[q] \in Locks
    BY <1>1, <1>3, RequestAssumption DEF LeaseLives
  <2>2. holder[LockOf[q]] # NoRequest /\ q \in queue[LockOf[q]] /\ q \in waiters
    BY <1>1, <1>3, <1>10, <2>1 DEF NoLostWakeup
  <2> QED
    BY <1>1, <2>1, <2>2
<1> QED
  BY <1>6, <1>7, <1>8, <1>9, <1>10 DEF Keeps, ManagerInv

\* A release that is refused: the caller was not the holder any more.
LEMMA RefusedReleaseStep ==
  ASSUME TypeOK, ManagerInv, NEW r \in Requests, Release(r), ~MayRelease(r)
  PROVE  Keeps
<1>1. /\ holder' = holder /\ queue' = queue /\ ticket' = ticket /\ waiters' = waiters
      /\ signal' = signal /\ alive' = alive
  BY DEF Release, managerVars
<1>2. \A m \in Locks : holder[m] # r
  <2>1. holder[LockOf[r]] # r
    BY RequestAssumption DEF MayRelease
  <2> QED
    BY <2>1, RequestAssumption DEF ManagerInv, HolderInv
<1>3. pc[r] \in {"holding", "released"} /\ pc'[r] \in {"released", "gone"}
      /\ \A q \in Requests : q # r => pc'[q] = pc[q]
  BY DEF Release, TypeOK
<1>4. \A q \in Requests : GrantedTo(q) => GrantedTo(q)'
  BY <1>1, <1>3 DEF GrantedTo, Told
<1>5. HolderInv'
  <2> SUFFICES ASSUME NEW m \in Locks, holder[m] # NoRequest
               PROVE  pc'[holder[m]] \in {"holding", "waiting", "cancel", "timedout"}
    BY <1>1 DEF ManagerInv, HolderInv
  <2>1. holder[m] \in Requests
        /\ pc[holder[m]] \in {"holding", "waiting", "cancel", "timedout"}
    BY DEF ManagerInv, HolderInv, TypeOK
  <2> QED
    BY <1>2, <1>3, <2>1
<1>6. QueueInv'
  <2> SUFFICES ASSUME NEW m \in Locks, NEW q \in queue[m]
               PROVE  pc'[q] \in {"waiting", "cancel"}
    BY <1>1 DEF ManagerInv, QueueInv
  <2>1. q \in Requests /\ pc[q] \in {"waiting", "cancel"} /\ signal[q] = "open"
    BY DEF ManagerInv, QueueInv, TypeOK
  <2> QED
    BY <1>3, <2>1
<1>7. TicketInv'
  <2>1. \A q \in Requests : Fresh(q)' => Fresh(q)
    BY <1>3 DEF Fresh
  <2> QED
    BY <1>1, <2>1 DEF ManagerInv, TicketInv
<1>8. ASSUME NoLostWakeup PROVE NoLostWakeup'
  BY <1>1, <1>3, <1>8 DEF NoLostWakeup, LeaseLives
<1> QED
  BY <1>4, <1>5, <1>6, <1>7, <1>8 DEF Keeps, ManagerInv

\* A step of one request, whatever leases live.
LEMMA RequestStepKeeps ==
  ASSUME DistinctNames, TypeOK, ManagerInv, NEW r \in Requests, RequestStep(r)
  PROVE  Keeps
BY TryAcquireStep, EnqueueStep, SelectStep, CancelStep, ReleaseStep, RefusedReleaseStep
DEF RequestStep

\* ManagerInv does not depend on which leases live.
LEMMA LeasesDoNotMatter ==
  ASSUME ManagerInv, UNCHANGED <<requestVars, managerVars>>
  PROVE  ManagerInv' /\ \A q \in Requests : GrantedTo(q) => GrantedTo(q)'
<1>1. /\ pc' = pc /\ holder' = holder /\ queue' = queue /\ ticket' = ticket
      /\ waiters' = waiters /\ signal' = signal
  BY DEF requestVars, managerVars
<1>2. HolderInv' /\ QueueInv'
  BY <1>1 DEF ManagerInv, HolderInv, QueueInv
<1>3. TicketInv'
  BY <1>1 DEF ManagerInv, TicketInv, Fresh
<1> QED
  BY <1>1, <1>2, <1>3 DEF ManagerInv, GrantedTo, Told

\* Steps after which at most fewer leases live.
LEMMA LeaseStepKeeps ==
  ASSUME LockInv, alive' \subseteq alive, UNCHANGED <<requestVars, managerVars>>
  PROVE  LockInv'
<1>1. ManagerInv' /\ GrantedInv'
  BY LeasesDoNotMatter DEF LockInv, GrantedInv
<1>2. NoLostWakeup'
  BY DEF LockInv, NoLostWakeup, LeaseLives, requestVars, managerVars
<1> QED
  BY <1>1, <1>2 DEF LockInv

LEMMA InvStep ==
  ASSUME DistinctNames
  PROVE  TypeOK /\ LockInv /\ [Next]_vars => LockInv'
<1> SUFFICES ASSUME TypeOK, LockInv, [Next]_vars PROVE LockInv'
  OBVIOUS
<1>1. ASSUME NEW r \in Requests, RequestStep(r) PROVE LockInv'
  BY <1>1, RequestStepKeeps DEF LockInv, GrantedInv, Keeps
<1>2. ASSUME NEW id \in alive, LeaseDies(id) PROVE LockInv'
  <2>1. alive' \subseteq alive /\ UNCHANGED <<requestVars, managerVars>>
    BY <1>2 DEF LeaseDies
  <2> QED
    BY <2>1, LeaseStepKeeps
<1>3. ASSUME NEW id \in Leases \ alive, ReleaseByLease(id) PROVE LockInv'
  <2>1. alive' \subseteq alive /\ UNCHANGED <<requestVars, managerVars>>
    BY <1>3 DEF ReleaseByLease
  <2> QED
    BY <2>1, LeaseStepKeeps
<1>4. CASE UNCHANGED vars
  <2>1. alive' \subseteq alive /\ UNCHANGED <<requestVars, managerVars>>
    BY <1>4 DEF vars
  <2> QED
    BY <2>1, LeaseStepKeeps
<1> QED
  BY <1>1, <1>2, <1>3, <1>4 DEF Next

\* The inductive invariant holds throughout every behaviour.
LEMMA LockInvariant ==
  ASSUME DistinctNames
  PROVE  Spec => [](TypeOK /\ LockInv)
<1>1. Init => TypeOK /\ LockInv
  BY TypeInit, InvInit
<1>2. (TypeOK /\ LockInv) /\ [Next]_vars => (TypeOK /\ LockInv)'
  BY TypeStep, InvStep
<1> QED
  BY <1>1, <1>2, PTL DEF Spec

\* Requests under distinct client names never both hold a lock, however many
\* of them race through grants, deadlines, cancellations and repeated calls of
\* Release.
THEOREM MutualExclusionCorrect ==
  ASSUME DistinctNames
  PROVE  Spec => []MutualExclusion
<1>1. LockInv => MutualExclusion
  BY DEF LockInv, GrantedInv, GrantedTo, Told, MutualExclusion
<1> QED
  BY <1>1, LockInvariant, PTL

\* Under distinct client names no waiter with a living lease is left behind on
\* an entry nobody holds.
THEOREM NoLostWakeupCorrect ==
  ASSUME DistinctNames
  PROVE  Spec => []NoLostWakeup
<1>1. LockInv => NoLostWakeup
  BY DEF LockInv
<1> QED
  BY <1>1, LockInvariant, PTL

LEMMA GrantStep ==
  ASSUME TypeOK, LockInv, [Next]_vars, NEW l \in Locks, NEW r \in queue[l],
         holder[l] # r, holder'[l] = r, NEW q \in queue[l] \ {r}, LeaseLives(q)
  PROVE  ticket[q] > ticket[r]
<1>1. r \in Requests /\ q \in Requests /\ holder[l] # NoRequest
  BY DEF TypeOK, LockInv, ManagerInv, QueueInv
<1>2. PICK p \in Requests : Release(p) /\ ReleaseLocked({LockOf[p]}) /\ LockOf[p] = l
  <2>1. ASSUME NEW p \in Requests, TryAcquire(p) PROVE FALSE
    BY <1>1, <2>1, RequestAssumption DEF TryAcquire, TypeOK
  <2>2. ASSUME holder' = holder PROVE FALSE
    BY <2>2
  <2>3. ASSUME NEW p \in Requests, Release(p)
        PROVE  ReleaseLocked({LockOf[p]}) /\ LockOf[p] = l
    <3>1. ReleaseLocked({LockOf[p]})
      BY <2>2, <2>3 DEF Release, managerVars
    <3>2. holder' = [m \in Locks |-> IF m \in {LockOf[p]} THEN Grantee(m) ELSE holder[m]]
      BY <3>1 DEF ReleaseLocked
    <3> QED
      BY <3>1, <3>2
  <2>4. ASSUME NEW p \in Requests,
               Enqueue(p) \/ Woken(p) \/ ContextDone(p) \/ Cancel(p)
        PROVE  FALSE
    BY <2>2, <2>4 DEF Enqueue, Woken, ContextDone, Cancel, managerVars
  <2>5. ASSUME NEW id \in alive, LeaseDies(id) PROVE FALSE
    BY <2>2, <2>5 DEF LeaseDies, managerVars
  <2>6. ASSUME NEW id \in Leases \ alive, ReleaseByLease(id) PROVE FALSE
    BY <2>2, <2>6 DEF ReleaseByLease, managerVars
  <2>7. CASE UNCHANGED vars
    BY <2>2, <2>7 DEF vars, managerVars
  <2> QED
    BY <2>1, <2>3, <2>4, <2>5, <2>6, <2>7 DEF Next, RequestStep
<1>3. holder'[l] = Grantee(l)
  BY <1>2 DEF ReleaseLocked
<1>4. r \in First(l)
  BY <1>1, <1>3, GranteeIs, RequestAssumption DEF LockInv, ManagerInv
<1>5. ticket[r] <= ticket[q]
  BY <1>4 DEF First
<1>6. ticket[r] \in Nat /\ ticket[q] \in Nat /\ ticket[r] > 0
  BY <1>1 DEF TypeOK, LockInv, ManagerInv, QueueInv
<1>7. ticket[r] # ticket[q]
  BY <1>1, <1>6 DEF LockInv, ManagerInv, TicketInv
<1> QED
  BY <1>5, <1>6, <1>7

\* Waiters are granted in the order of their tickets, for every queue.
THEOREM GrantsInOrderCorrect ==
  ASSUME DistinctNames
  PROVE  Spec => GrantsInOrder
<1> DEFINE Ordered == \A l \in Locks : \A r \in queue[l] :
                        holder[l] # r /\ holder'[l] = r
                          => \A q \in queue[l] \ {r} :
                               LeaseLives(q) => ticket[q] > ticket[r]
<1>1. (TypeOK /\ LockInv) /\ [Next]_vars => [Ordered]_vars
  BY GrantStep
<1>2. (TypeOK /\ LockInv) /\ (TypeOK /\ LockInv)' /\ [Next]_vars => [Ordered]_vars
  BY <1>1
<1> HIDE DEF Ordered
<1>3. Spec => [][Ordered]_vars
  BY <1>2, LockInvariant, PTL DEF Spec
<1> QED
  BY <1>3 DEF GrantsInOrder, Ordered

-----------------------------------------------------------------------------
(* The persisted records *)

\* JournalFollows for the records of one lock held by h.
Follows(j, h) ==
  /\ h # NoRequest => j # << >> /\ j[Len(j)] = Persisted("held", h)
  /\ h = NoRequest => j = << >> \/ j[Len(j)] = Persisted("deleted", NoRequest)
  /\ \A i \in 1..(Len(j) - 1) : j[i].state = "held" => j[i+1].state = "releasing"

LEMMA AcquireFollows ==
  ASSUME NEW j \in Seq(Record), NEW r \in Requests, Follows(j, NoRequest)
  PROVE  Follows(Append(j, Persisted("held", r)), r)
<1> DEFINE n == Len(j)
           k == Append(j, Persisted("held", r))
<1>1. n \in Nat /\ Len(k) = n + 1 /\ k[n+1] = Persisted("held", r)
      /\ \A i \in 1..n : k[i] = j[i]
  BY DEF Persisted, Record
<1>2. n > 0 => j[n].state # "held"
  BY DEF Follows, Persisted
<1>3. \A i \in 1..n : k[i].state = "held" => k[i+1].state = "releasing"
  <2> SUFFICES ASSUME NEW i \in 1..n, k[i].state = "held"
               PROVE  k[i+1].state = "releasing"
    OBVIOUS
  <2>1. i # n
    BY <1>1, <1>2
  <2>2. i \in 1..(n-1) /\ i + 1 \in 1..n
    BY <1>1, <2>1
  <2> QED
    BY <1>1, <2>2 DEF Follows
<1>4. k # << >>
  BY <1>1
<1> QED
  BY <1>1, <1>3, <1>4, RequestAssumption DEF Follows

LEMMA HandoverFollows ==
  ASSUME TypeOK, NEW l \in Locks, holder[l] # NoRequest,
         Follows(journal[l], holder[l])
  PROVE  Follows(journal[l] \o Handover(l), Grantee(l))
<1> DEFINE j == journal[l]
           n == Len(j)
           h == Handover(l)
           k == j \o h
<1>1. j \in Seq(Record) /\ h \in Seq(Record) /\ n \in Nat
  BY HandoverType DEF TypeOK
<1>2. /\ Len(h) \in {2, 3} /\ h[1].state = "releasing" /\ h[2].state # "releasing"
      /\ Len(h) = 3 => h[2].state = "waiting"
  BY DEF Handover, Persisted
<1>3. Len(k) = n + Len(h) /\ (\A i \in 1..n : k[i] = j[i])
      /\ \A i \in 1..Len(h) : k[n + i] = h[i]
  BY <1>1
<1>4. \A i \in 1..(Len(k) - 1) : k[i].state = "held" => k[i+1].state = "releasing"
  <2> SUFFICES ASSUME NEW i \in 1..(Len(k) - 1), k[i].state = "held"
               PROVE  k[i+1].state = "releasing"
    OBVIOUS
  <2>1. i < n \/ i = n \/ i > n
    <3> HIDE DEF k, n
    <3>1. Len(k) \in Nat
      BY <1>1, <1>2, <1>3
    <3> QED
      BY <1>1, <3>1
  <2>2. CASE i < n
    <3>1. i \in 1..n /\ i + 1 \in 1..n /\ i \in 1..(n - 1)
      BY <1>1, <1>2, <1>3, <2>2
    <3> QED
      BY <1>3, <3>1 DEF Follows
  <2>3. CASE i = n
    BY <1>2, <1>3, <2>3
  <2>4. CASE i > n
    <3>1. i \in Int /\ i - n \in 1..(Len(h) - 1) /\ i = n + (i - n)
      BY <1>1, <1>2, <1>3, <2>4
    <3>2. k[i] = h[i - n]
      BY <1>2, <1>3, <3>1
    <3>3. i - n = 1 \/ (i - n = 2 /\ Len(h) = 3)
      <4>1. \A len \in {2, 3} : \A d \in 1..(len - 1) : d = 1 \/ (d = 2 /\ len = 3)
        OBVIOUS
      <4> HIDE DEF h, n
      <4> QED
        BY <1>2, <3>1, <4>1
    <3> QED
      BY <1>2, <3>2, <3>3
  <2> QED
    BY <2>1, <2>2, <2>3, <2>4
<1>5. k # << >> /\ k[Len(k)] = h[Len(h)]
  BY <1>1, <1>2, <1>3
<1>6. CASE First(l) = {}
  <2>1. Grantee(l) = NoRequest /\ h[Len(h)] = Persisted("deleted", NoRequest)
    BY <1>6 DEF Grantee, Handover
  <2> QED
    BY <1>4, <1>5, <2>1 DEF Follows
<1>7. CASE First(l) # {}
  <2>1. Grantee(l) \in First(l)
    BY <1>7 DEF Grantee
  <2>2. Grantee(l) # NoRequest
    BY <2>1, RequestAssumption DEF First, TypeOK
  <2>3. h[Len(h)] = Persisted("held", Grantee(l))
    BY <1>7 DEF Handover
  <2> QED
    BY <1>4, <1>5, <2>2, <2>3 DEF Follows
<1> QED
  BY <1>6, <1>7

LEMMA JournalIs ==
  /\ JournalFollows <=> \A l \in Locks : Follows(journal[l], holder[l])
  /\ JournalFollows' <=> \A l \in Locks : Follows(journal'[l], holder'[l])
BY DEF JournalFollows, Follows

\* releaseLocked appends to the records of every lock it releases.
LEMMA JournalRelease ==
  ASSUME TypeOK, JournalFollows, NEW S \in SUBSET Locks, ReleaseLocked(S),
         \A l \in S : holder[l] # NoRequest
  PROVE  JournalFollows'
<1> SUFFICES ASSUME NEW l \in Locks PROVE Follows(journal'[l], holder'[l])
  BY JournalIs
<1>1. Follows(journal[l], holder[l])
  BY JournalIs
<1>2. holder'[l] = (IF l \in S THEN Grantee(l) ELSE holder[l])
      /\ journal'[l] = IF l \in S THEN journal[l] \o Handover(l) ELSE journal[l]
  BY DEF ReleaseLocked
<1> QED
  BY <1>1, <1>2, HandoverFollows

LEMMA JournalRequest ==
  ASSUME TypeOK, JournalFollows, NEW r \in Requests, RequestStep(r)
  PROVE  JournalFollows'
<1>1. ASSUME journal' = journal, holder' = holder PROVE JournalFollows'
  BY <1>1, JournalIs
<1>2. CASE TryAcquire(r)
  <2>1. CASE holder[LockOf[r]] = NoRequest
    <3> SUFFICES ASSUME NEW l \in Locks PROVE Follows(journal'[l], holder'[l])
      BY JournalIs
    <3>1. Follows(journal[l], holder[l]) /\ journal[l] \in Seq(Record)
      BY JournalIs DEF TypeOK
    <3>2. CASE l = LockOf[r]
      <4>1. holder'[l] = r /\ journal'[l] = Append(journal[l], Persisted("held", r))
        BY <1>2, <2>1, <3>2, RequestAssumption DEF TryAcquire, TypeOK
      <4> QED
        BY <2>1, <3>1, <3>2, <4>1, AcquireFollows
    <3>3. CASE l # LockOf[r]
      BY <1>2, <2>1, <3>1, <3>3 DEF TryAcquire, TypeOK
    <3> QED
      BY <3>2, <3>3
  <2>2. CASE holder[LockOf[r]] # NoRequest
    BY <1>1, <1>2, <2>2 DEF TryAcquire
  <2> QED
    BY <2>1, <2>2
<1>3. CASE Release(r)
  <2>1. CASE MayRelease(r) /\ ReleaseLocked({LockOf[r]})
    BY <2>1, JournalRelease, RequestAssumption DEF MayRelease
  <2>2. CASE UNCHANGED managerVars
    BY <1>1, <2>2 DEF managerVars
  <2> QED
    BY <1>3, <2>1, <2>2 DEF Release
<1>4. CASE Enqueue(r) \/ Woken(r) \/ ContextDone(r) \/ Cancel(r)
  BY <1>1, <1>4 DEF Enqueue, Woken, ContextDone, Cancel, managerVars
<1> QED
  BY <1>2, <1>3, <1>4 DEF RequestStep

LEMMA JournalStep == TypeOK /\ JournalFollows /\ [Next]_vars => JournalFollows'
<1> SUFFICES ASSUME TypeOK, JournalFollows, [Next]_vars PROVE JournalFollows'
  OBVIOUS
<1>1. ASSUME journal' = journal, holder' = holder PROVE JournalFollows'
  BY <1>1, JournalIs
<1>2. ASSUME NEW id \in Leases, LeaseDies(id) \/ (id \notin alive /\ ReleaseByLease(id))
      PROVE  JournalFollows'
  BY <1>1, <1>2 DEF LeaseDies, ReleaseByLease, managerVars
<1>3. CASE UNCHANGED vars
  BY <1>1, <1>3 DEF vars, managerVars
<1> QED
  BY <1>2, <1>3, JournalRequest DEF Next, TypeOK

\* The record persisted under locks/ names the holder in every state, for
\* every number of requests and whatever their client names.
THEOREM JournalFollowsCorrect == Spec => []JournalFollows
<1>1. Init => JournalFollows
  BY DEF Init, JournalFollows
<1> QED
  BY <1>1, TypeInit, TypeStep, JournalStep, PTL DEF Spec

=============================================================================
