-------------------------------- MODULE Lock --------------------------------
(***************************************************************************)
(* The fair lock of internal/lock: Acquire with its waiters, deadlines and *)
(* cancellation, Release, and ReleaseByLease, which the lease manager's    *)
(* callback invokes.                                                       *)
(*                                                                         *)
(* A request is one call of Acquire by a client, under a lease or none.    *)
(* Every method of lock.Manager runs under m.mu, so each locked region is  *)
(* one action; between them a request is at one of its control points.     *)
(* An entry exists in m.locks only while it is LockHeld: TryAcquire and    *)
(* wakeNext set that state, and wakeNext removes an entry it cannot grant, *)
(* all before m.mu is released.  The holder is named by the request that   *)
(* was granted, whose client and lease are the entry's.                    *)
(***************************************************************************)
EXTENDS Naturals, Sequences, FiniteSets

CONSTANTS
  Locks,      \* lock ids
  Requests,   \* calls of Acquire
  Leases,     \* lease ids
  NoLease,    \* the empty lease id
  NoRequest,  \* "no entry in m.locks"
  LockOf,     \* the lock a request asks for
  ClientOf,   \* the client name it gives
  LeaseOf,    \* the lease id it gives, or NoLease
  Retrying    \* requests whose client sends Release a second time

ASSUME RequestAssumption ==
  /\ LockOf \in [Requests -> Locks]
  /\ LeaseOf \in [Requests -> Leases \cup {NoLease}]
  /\ DOMAIN ClientOf = Requests
  /\ NoRequest \notin Requests
  /\ NoLease \notin Leases
  /\ Retrying \subseteq Requests

VARIABLES
  pc,        \* pc[r]: where request r is
  late,      \* requests whose context is done
  holder,    \* holder[l]: the request the entry of l was granted to
  queue,     \* queue[l]: requests in entry.queue
  ticket,    \* ticket[r]: the Seq of r's LockRequest, 0 before enqueue
  seq,       \* m.seq
  waiters,   \* requests in m.waiters
  signal,    \* signal[r]: waiter.done is open, or closed with or without grant
  journal,   \* journal[l]: records persisted under locks/l, oldest first
  alive      \* leases the LeaseChecker reports alive

requestVars == <<pc, late>>
managerVars == <<holder, queue, ticket, seq, waiters, signal, journal>>
vars == <<requestVars, managerVars, alive>>

-----------------------------------------------------------------------------
(* Derived state *)

Record == [state : {"held", "releasing", "waiting", "deleted"},
           req : Requests \cup {NoRequest}]

Persisted(state, r) == [state |-> state, req |-> r]

\* wakeNext's test: a request without a lease is never skipped.
LeaseLives(r) == LeaseOf[r] = NoLease \/ LeaseOf[r] \in alive

\* Mutant of First: the newest waiter is woken.
FirstByLastIn(l) ==
  {r \in queue[l] : LeaseLives(r) /\ \A q \in queue[l] :
                                       LeaseLives(q) => ticket[q] <= ticket[r]}

\* The waiter of l that wakeNext grants to: the earliest one whose lease lives
\* (a set of one request, or empty).
First(l) ==
  {r \in queue[l] : LeaseLives(r) /\ \A q \in queue[l] :
                                       LeaseLives(q) => ticket[r] <= ticket[q]}

Grantee(l) == IF First(l) = {} THEN NoRequest ELSE CHOOSE r \in First(l) : TRUE

\* The queue after wakeNext: the grantee and the waiters before it, whose
\* leases are dead, are gone, and with nobody to grant to all of them.
Remaining(l) ==
  {q \in queue[l] : \E r \in First(l) : q # r /\ (LeaseLives(q) \/ ticket[q] > ticket[r])}

-----------------------------------------------------------------------------
(* Acquire *)

TryAcquire(r) ==
  LET l == LockOf[r]
  IN  /\ pc[r] \in {"idle", "retry"}
      /\ \/ /\ holder[l] = NoRequest
            /\ pc' = [pc EXCEPT ![r] = "holding"]
            /\ holder' = [holder EXCEPT ![l] = r]
            /\ journal' = [journal EXCEPT ![l] = Append(@, Persisted("held", r))]
         \/ /\ holder[l] # NoRequest
            /\ pc' = [pc EXCEPT ![r] = "enqueue"]
            /\ UNCHANGED <<holder, journal>>
      /\ UNCHANGED <<late, queue, ticket, seq, waiters, signal, alive>>

\* Mutant of Enqueue: m.seq is read but not advanced.
EnqueueSameSeq(r) ==
  LET l == LockOf[r]
  IN  /\ pc[r] = "enqueue"
      /\ holder[l] # NoRequest
      /\ pc' = [pc EXCEPT ![r] = "waiting"]
      /\ queue' = [queue EXCEPT ![l] = @ \cup {r}]
      /\ ticket' = [ticket EXCEPT ![r] = seq + 1]
      /\ waiters' = waiters \cup {r}
      /\ UNCHANGED <<late, seq, holder, signal, journal, alive>>

\* enqueue: without an entry (errEntryGone) Acquire goes back to TryAcquire.
Enqueue(r) ==
  LET l == LockOf[r]
  IN  /\ pc[r] = "enqueue"
      /\ \/ /\ holder[l] = NoRequest
            /\ pc' = [pc EXCEPT ![r] = "retry"]
            /\ UNCHANGED <<queue, ticket, seq, waiters>>
         \/ /\ holder[l] # NoRequest
            /\ pc' = [pc EXCEPT ![r] = "waiting"]
            /\ queue' = [queue EXCEPT ![l] = @ \cup {r}]
            /\ seq' = seq + 1
            /\ ticket' = [ticket EXCEPT ![r] = seq + 1]
            /\ waiters' = waiters \cup {r}
      /\ UNCHANGED <<late, holder, signal, journal, alive>>

\* The select of Acquire takes the closed done channel.
Woken(r) ==
  /\ pc[r] = "waiting"
  /\ signal[r] # "open"
  /\ pc' = [pc EXCEPT ![r] = IF signal[r] = "granted" THEN "holding" ELSE "timedout"]
  /\ UNCHANGED <<late, managerVars, alive>>

\* The select takes ctx.Done; it may also when done is closed already.
ContextDone(r) ==
  /\ pc[r] = "waiting"
  /\ pc' = [pc EXCEPT ![r] = "cancel"]
  /\ late' = late \cup {r}
  /\ UNCHANGED <<managerVars, alive>>

\* The queued requests that Cancel on behalf of r removes: by client name.
Cancelled(r) == {q \in queue[LockOf[r]] : ClientOf[q] = ClientOf[r]}

\* Cancel, after which Acquire returns ErrTimedOut.
Cancel(r) ==
  /\ pc[r] = "cancel"
  /\ pc' = [pc EXCEPT ![r] = "timedout"]
  /\ queue' = [queue EXCEPT ![LockOf[r]] = @ \ Cancelled(r)]
  /\ waiters' = waiters \ Cancelled(r)
  /\ signal' = [q \in Requests |-> IF q \in Cancelled(r) \cap waiters
                                   THEN "cancelled" ELSE signal[q]]
  /\ UNCHANGED <<late, holder, ticket, seq, journal, alive>>

-----------------------------------------------------------------------------
(* Release *)

\* Mutant of Handover: the released state is not persisted before the grant.
HandoverSilent(l) ==
  IF First(l) = {}
  THEN << Persisted("waiting", NoRequest), Persisted("deleted", NoRequest) >>
  ELSE << Persisted("held", Grantee(l)) >>

\* Mutant of Handover: releaseLocked persists the released state last.
HandoverSwapped(l) ==
  IF First(l) = {}
  THEN << Persisted("waiting", NoRequest), Persisted("deleted", NoRequest),
          Persisted("releasing", NoRequest) >>
  ELSE << Persisted("held", Grantee(l)), Persisted("releasing", NoRequest) >>

\* What releaseLocked persists for l: the released entry, then the new holder
\* or, when nobody can be granted, the freed entry and its deletion.
Handover(l) ==
  IF First(l) = {}
  THEN << Persisted("releasing", NoRequest), Persisted("waiting", NoRequest),
          Persisted("deleted", NoRequest) >>
  ELSE << Persisted("releasing", NoRequest),
          Persisted("held", Grantee(l)) >>

\* Mutant of ReleaseLocked: a grant does not close the waiter's channel.
ReleaseLockedUnsignalled(S) ==
  LET woken == UNION {First(l) : l \in S}
  IN  /\ holder' = [l \in Locks |-> IF l \in S THEN Grantee(l) ELSE holder[l]]
      /\ queue' = [l \in Locks |-> IF l \in S THEN Remaining(l) ELSE queue[l]]
      /\ journal' = [l \in Locks |->
           IF l \in S THEN journal[l] \o Handover(l) ELSE journal[l]]
      /\ waiters' = waiters \ woken
      /\ UNCHANGED <<signal, ticket, seq>>

\* releaseLocked and wakeNext for every lock of S.  Only the grantee is
\* signalled, and an entry that cannot be granted is removed.
ReleaseLocked(S) ==
  LET woken == UNION {First(l) : l \in S}
  IN  /\ holder' = [l \in Locks |-> IF l \in S THEN Grantee(l) ELSE holder[l]]
      /\ queue' = [l \in Locks |-> IF l \in S THEN Remaining(l) ELSE queue[l]]
      /\ journal' = [l \in Locks |->
           IF l \in S THEN journal[l] \o Handover(l) ELSE journal[l]]
      /\ waiters' = waiters \ woken
      /\ signal' = [q \in Requests |->
           IF q \in woken \cap waiters THEN "granted" ELSE signal[q]]
      /\ UNCHANGED <<ticket, seq>>

\* Mutant of MayRelease: any client may release an entry.
AnyoneMayRelease(r) == holder[LockOf[r]] # NoRequest

\* Release's test: there is an entry and the client holds it, by name.
MayRelease(r) ==
  /\ holder[LockOf[r]] # NoRequest
  /\ ClientOf[holder[LockOf[r]]] = ClientOf[r]

\* The client of a request that was granted releases the lock; a retrying
\* client sends the call twice.  ErrUnlocked and ErrNotHolder change nothing.
Release(r) ==
  /\ \/ pc[r] = "holding" /\ pc' = [pc EXCEPT ![r] = "released"]
     \/ pc[r] = "released" /\ r \in Retrying /\ pc' = [pc EXCEPT ![r] = "gone"]
  /\ \/ MayRelease(r) /\ ReleaseLocked({LockOf[r]})
     \/ ~MayRelease(r) /\ UNCHANGED managerVars
  /\ UNCHANGED <<late, alive>>

\* Mutant of HeldUnder: the lease of the entry is not compared.
HeldAtAll(id) == {l \in Locks : holder[l] # NoRequest}

\* The locks whose entry was granted under lease id.
HeldUnder(id) ==
  {l \in Locks : holder[l] # NoRequest /\ LeaseOf[holder[l]] = id}

\* ReleaseByLease as the code has it: nothing is released for a dead lease.
ReleaseByLease(id) ==
  /\ \/ id \notin alive /\ UNCHANGED managerVars
     \/ id \in alive /\ ReleaseLocked(HeldUnder(id))
  /\ UNCHANGED <<requestVars, alive>>

-----------------------------------------------------------------------------
(* Specification *)

Init ==
  /\ pc = [r \in Requests |-> "idle"]
  /\ late = {}
  /\ holder = [l \in Locks |-> NoRequest]
  /\ queue = [l \in Locks |-> {}]
  /\ ticket = [r \in Requests |-> 0]
  /\ seq = 0
  /\ waiters = {}
  /\ signal = [r \in Requests |-> "open"]
  /\ journal = [l \in Locks |-> << >>]
  /\ alive = Leases

\* Environment of the lock manager alone: a lease dies and stays dead, and its
\* callback comes later.
LeaseDies(id) ==
  /\ alive' = alive \ {id}
  /\ UNCHANGED <<requestVars, managerVars>>

RequestStep(r) ==
  TryAcquire(r) \/ Enqueue(r) \/ Woken(r) \/ ContextDone(r) \/ Cancel(r) \/ Release(r)

Next ==
  \/ \E r \in Requests : RequestStep(r)
  \/ \E id \in alive : LeaseDies(id)
  \/ \E id \in Leases \ alive : ReleaseByLease(id)

Spec == Init /\ [][Next]_vars

\* The goroutine of a request that has started keeps running, and a client
\* that was granted the lock releases it.  Deadlines are not assumed to fire.
Fairness ==
  \A r \in Requests :
    /\ WF_vars(pc[r] = "retry" /\ TryAcquire(r))
    /\ WF_vars(Enqueue(r))
    /\ WF_vars(Woken(r))
    /\ WF_vars(Cancel(r))
    /\ WF_vars(pc[r] = "holding" /\ Release(r))

FairSpec == Spec /\ Fairness

-----------------------------------------------------------------------------
(* Properties *)

\* Every variable has its type (lock.go:32-47, queue.go:11-15).
TypeOK ==
  /\ pc \in [Requests -> {"idle", "retry", "enqueue", "waiting", "cancel",
                          "holding", "timedout", "released", "gone"}]
  /\ late \subseteq Requests
  /\ holder \in [Locks -> Requests \cup {NoRequest}]
  /\ queue \in [Locks -> SUBSET Requests]
  /\ seq \in Nat
  /\ ticket \in [Requests -> 0..seq]
  /\ waiters \subseteq Requests
  /\ signal \in [Requests -> {"open", "granted", "cancelled"}]
  /\ journal \in [Locks -> Seq(Record)]
  /\ alive \subseteq Leases

\* At most one request that was told it holds a lock still does, also when
\* clients send Release twice, under any race of grants, deadlines and
\* cancellations, as long as the requests have distinct client names
\* (lock.go:60-125; BENZHI_README.md:5).
MutualExclusion ==
  \A r, q \in Requests :
    pc[r] = "holding" /\ pc[q] = "holding" /\ LockOf[r] = LockOf[q] => r = q

\* No wakeup is lost: a waiter whose lease lives and whose channel is still
\* open is queued on an entry that somebody holds, so a release will reach it
\* (queue.go:17-38, wakeup.go:11-33, lock.go:149-169).
NoLostWakeup ==
  \A r \in Requests :
    pc[r] = "waiting" /\ signal[r] = "open" /\ LeaseLives(r)
      => holder[LockOf[r]] # NoRequest /\ r \in queue[LockOf[r]] /\ r \in waiters

\* A release never overtakes: when a queued request becomes the holder, every
\* other queued request came later or has a dead lease (wakeup.go:9-10).
GrantsInOrder ==
  [][\A l \in Locks : \A r \in queue[l] :
       holder[l] # r /\ holder'[l] = r
         => \A q \in queue[l] \ {r} : LeaseLives(q) => ticket[q] > ticket[r]]_vars

\* The persisted record names the holder or the absence of the entry, and two
\* holders are always separated by a "releasing" record that watchers of the
\* locks/ prefix can see (release.go:10-36, wakeup.go:20-32).
JournalFollows ==
  \A l \in Locks :
    LET j == journal[l]
    IN  /\ holder[l] # NoRequest =>
             j # << >> /\ j[Len(j)] = Persisted("held", holder[l])
        /\ holder[l] = NoRequest =>
             j = << >> \/ j[Len(j)] = Persisted("deleted", NoRequest)
        /\ \A i \in 1..(Len(j) - 1) : j[i].state = "held" => j[i+1].state = "releasing"

\* No starvation: while nobody's deadline fires and its lease lives, a waiting
\* request is eventually granted, given that holders release the lock.
NoStarvation ==
  \A r \in Requests :
    pc[r] = "waiting" ~> pc[r] # "waiting" \/ ~LeaseLives(r) \/ late # {}
=============================================================================
