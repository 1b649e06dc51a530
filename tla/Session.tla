------------------------------- MODULE Session -------------------------------
(***************************************************************************)
(* The session manager of internal/session over the watch registry of      *)
(* HubSpec and the lease table of LeaseSpec: connecting, disconnecting and *)
(* reconnecting, the watch handler of the API, acknowledgements, and the   *)
(* loop that closes stale sessions.                                        *)
(*                                                                         *)
(* m.mu is released around every call into the hub or the lease manager,   *)
(* so the operations are chains of regions that interleave.  The maps      *)
(* Watches and Keys of a session are one function here, from the tracked   *)
(* subscriptions to key and cursor: an id that is missing from Keys has    *)
(* the empty key.  Chans is written and never read.                        *)
(***************************************************************************)
EXTENDS Naturals

CONSTANTS
  Sessions,    \* session ids
  Leases,      \* leases that sessions bind
  Callers,     \* goroutines serving requests
  WatchKeys,   \* keys clients subscribe to
  StartRevs,   \* revisions they start from
  NoKey,       \* the empty key: every key
  None,        \* no session, no lease
  StaleAfter,
  TTL, Lag, MaxClock,   \* of LeaseSpec
  MaxWatch,    \* bound: subscriptions
  MaxRev,      \* bound: revisions clients name
  MaxCalls     \* bound: requests

ASSUME SessionAssumption ==
  /\ StartRevs \subseteq 0..MaxRev
  /\ None \notin Sessions \cup Leases
  /\ StaleAfter \in Nat \ {0}
  /\ TTL \in Nat \ {0}
  /\ Lag \in Nat
  /\ MaxClock \in Nat
  /\ MaxWatch \in Nat
  /\ MaxRev \in Nat
  /\ MaxCalls \in Nat

VARIABLES
  now, table,   \* of LeaseSpec
  hub, acks,    \* of HubSpec
  sessions,     \* sessions[s]: state, bound leases, tracked watches, LastSeen
  calls,        \* calls[p]: where goroutine p is, and its locals
  stale,        \* where the goroutine of RunStaleLoop is, and its locals
  entered,      \* requests so far
  asked,        \* asked[s]: keys the clients of s subscribed to
  stray,        \* stray[s]: an ack named a watch that s did not track
  disturbed     \* disturbed[s]: s was reconnected while connected, or while
                \* another call was changing it

WatchIDs == 1..MaxWatch

leases == INSTANCE LeaseSpec
watches == INSTANCE HubSpec WITH Watches <- WatchIDs, KeySet <- WatchKeys \cup {NoKey},
                                 Revs <- 0..MaxRev

leaseVars == <<now, table>>
hubVars == <<hub, acks>>
history == <<entered, asked, stray, disturbed>>
vars == <<leaseVars, hubVars, sessions, calls, stale, history>>

-----------------------------------------------------------------------------
(* Types and helpers *)

Tracked == [key : WatchKeys \cup {NoKey}, cursor : 0..MaxRev]

\* The maps of a session: tracked subscriptions to key and cursor.
Maps == UNION {[S -> Tracked] : S \in SUBSET WatchIDs}

NoMap == [w \in {} |-> {}]

States == {"none", "connected", "disconnected", "closed"}

SessionRec == [state : States, leases : SUBSET Leases, watches : Maps, seen : 0..MaxClock]

Call == [pc : {"idle", "bind", "cancel", "renew", "resume", "register", "touch",
               "serve", "ack"},
         sid : Sessions \cup {None},
         leases : SUBSET Leases,          \* to bind or to renew
         at : 0..MaxClock,                \* the time of the renewals
         todo : Maps,                     \* to cancel, or to resume
         made : Maps,                     \* resumed
         watch : 0..MaxWatch,             \* the handler's subscription
         key : WatchKeys \cup {NoKey},
         rev : 0..MaxRev]

IdleCall == [pc |-> "idle", sid |-> None, leases |-> {}, at |-> 0, todo |-> NoMap,
             made |-> NoMap, watch |-> 0, key |-> NoKey, rev |-> 0]

Stale == [pc : {"idle", "scan", "close", "cancel"}, at : 0..MaxClock,
          sids : SUBSET Sessions,         \* found stale and not yet closed
          sid : Sessions \cup {None},     \* being closed
          seen : [Sessions -> 0..MaxClock],  \* LastSeen at the scan
          ids : SUBSET WatchIDs]          \* to cancel

IdleStale == [pc |-> "idle", at |-> 0, sids |-> {}, sid |-> None,
              seen |-> [s \in Sessions |-> 0], ids |-> {}]

Exists(s) == sessions[s].state # "none"

\* m without id w, and m with w set to entry e.
Without(m, w) == [v \in DOMAIN m \ {w} |-> m[v]]
With(m, w, e) == [v \in DOMAIN m \cup {w} |-> IF v = w THEN e ELSE m[v]]

\* The id Watch issues next (w.nextID).
NextID == {w \in WatchIDs : watches!Unused(w) /\ \A v \in 1..(w - 1) : ~watches!Unused(v)}

\* A call or the stale loop is between two regions that change session s.
Busy(s) ==
  \/ \E p \in Callers : calls[p].sid = s /\ calls[p].pc \in {"cancel", "renew", "resume"}
  \/ stale.sid = s

Enter(p, call) ==
  /\ calls[p].pc = "idle"
  /\ entered < MaxCalls
  /\ entered' = entered + 1
  /\ calls' = [calls EXCEPT ![p] = call]

Return(p) == calls' = [calls EXCEPT ![p] = IdleCall]

\* Cancel in the hub, which ignores ids it does not know.
CancelWatch(w) ==
  IF watches!IsOpen(w) THEN watches!Cancel(w) ELSE UNCHANGED hubVars

-----------------------------------------------------------------------------
(* Connect, BindLease, Disconnect, Close, Heartbeat *)

\* Connect; a known id, in whatever state, is left alone.  The handler then
\* binds the lease of the request, if it names one.
Connect(p, s, l) ==
  /\ Enter(p, IF l = None THEN IdleCall
              ELSE [IdleCall EXCEPT !.pc = "bind", !.sid = s, !.leases = {l}])
  /\ sessions' = IF Exists(s) THEN sessions
                 ELSE [sessions EXCEPT ![s].state = "connected", ![s].seen = now]
  /\ UNCHANGED <<leaseVars, hubVars, stale, asked, stray, disturbed>>

BindLease(p) ==
  /\ calls[p].pc = "bind"
  /\ sessions' = [sessions EXCEPT ![calls[p].sid].leases = @ \cup calls[p].leases]
  /\ Return(p)
  /\ UNCHANGED <<leaseVars, hubVars, stale, history>>

\* The locked region of Disconnect.
Disconnect(p, s) ==
  /\ Exists(s)
  /\ Enter(p, [IdleCall EXCEPT !.pc = "cancel", !.sid = s, !.todo = sessions[s].watches])
  /\ sessions' = [sessions EXCEPT ![s].state = "disconnected", ![s].seen = now]
  /\ disturbed' = [disturbed EXCEPT ![s] = @ \/ Busy(s)]
  /\ UNCHANGED <<leaseVars, hubVars, stale, asked, stray>>

\* The locked region of Close.
Close(p, s) ==
  /\ Exists(s)
  /\ Enter(p, [IdleCall EXCEPT !.pc = "cancel", !.sid = s, !.todo = sessions[s].watches])
  /\ sessions' = [sessions EXCEPT ![s].state = "closed"]
  /\ disturbed' = [disturbed EXCEPT ![s] = @ \/ Busy(s)]
  /\ UNCHANGED <<leaseVars, hubVars, stale, asked, stray>>

\* One watch of a disconnected or closed session is cancelled.
CancelOne(p, w) ==
  /\ calls[p].pc = "cancel"
  /\ w \in DOMAIN calls[p].todo
  /\ CancelWatch(w)
  /\ calls' = [calls EXCEPT ![p].todo = Without(@, w)]
  /\ UNCHANGED <<leaseVars, sessions, stale, history>>

CancelDone(p) ==
  /\ calls[p].pc = "cancel"
  /\ calls[p].todo = NoMap
  /\ Return(p)
  /\ UNCHANGED <<leaseVars, hubVars, sessions, stale, history>>

Heartbeat(p, s) ==
  /\ Exists(s)
  /\ Enter(p, IdleCall)
  /\ sessions' = [sessions EXCEPT ![s].seen = now]
  /\ UNCHANGED <<leaseVars, hubVars, stale, asked, stray, disturbed>>

-----------------------------------------------------------------------------
(* Reconnect; ResumeAll is a Reconnect of one session after the other *)

\* The session's leases are copied and the time of the renewals is read.
Reconnect(p, s) ==
  /\ Exists(s)
  /\ Enter(p, [IdleCall EXCEPT !.pc = "renew", !.sid = s, !.at = now,
                               !.leases = sessions[s].leases])
  /\ disturbed' = [disturbed EXCEPT ![s] =
                     @ \/ Busy(s) \/ sessions[s].state = "connected"]
  /\ UNCHANGED <<leaseVars, hubVars, sessions, stale, asked, stray>>

\* RenewMany: each lease is renewed, found overdue and expired, or missing.
RenewOne(p, l) ==
  /\ calls[p].pc = "renew"
  /\ l \in calls[p].leases
  /\ \/ leases!Renew(l, calls[p].at)
     \/ leases!Expire({l}, calls[p].at)
     \/ ~leases!Registered(l) /\ UNCHANGED leaseVars
  /\ calls' = [calls EXCEPT ![p].leases = @ \ {l}]
  /\ UNCHANGED <<hubVars, sessions, stale, history>>

\* The session is connected and its maps are copied.
MarkConnected(p) ==
  LET s == calls[p].sid
  IN  /\ calls[p].pc = "renew"
      /\ calls[p].leases = {}
      /\ sessions' = [sessions EXCEPT ![s].state = "connected", ![s].seen = now]
      /\ calls' = [calls EXCEPT ![p].pc = "resume", ![p].todo = sessions[s].watches,
                                ![p].at = 0]
      /\ UNCHANGED <<leaseVars, hubVars, stale, history>>

\* Mutant of ResumeOne: the key is looked up under the new id.
ResumeOneNewKey(p, w) ==
  /\ calls[p].pc = "resume"
  /\ w \in DOMAIN calls[p].todo
  /\ \E new \in NextID :
       /\ watches!Open(new, NoKey, calls[p].todo[w].cursor)
       /\ calls' = [calls EXCEPT ![p].todo = Without(@, w),
                                 ![p].made = With(@, new, calls[p].todo[w])]
  /\ UNCHANGED <<leaseVars, sessions, stale, history>>

\* Mutant of ResumeOne: the resumed watch is tracked without its cursor.
ResumeOneNoCursor(p, w) ==
  /\ calls[p].pc = "resume"
  /\ w \in DOMAIN calls[p].todo
  /\ \E new \in NextID :
       /\ watches!Open(new, calls[p].todo[w].key, calls[p].todo[w].cursor)
       /\ calls' = [calls EXCEPT ![p].todo = Without(@, w),
                                 ![p].made = With(@, new, [calls[p].todo[w] EXCEPT !.cursor = 0])]
  /\ UNCHANGED <<leaseVars, sessions, stale, history>>

\* A tracked watch is opened again from its cursor; one the hub refuses is
\* skipped.
ResumeOne(p, w) ==
  /\ calls[p].pc = "resume"
  /\ w \in DOMAIN calls[p].todo
  /\ \/ \E new \in NextID :
          /\ watches!Open(new, calls[p].todo[w].key, calls[p].todo[w].cursor)
          /\ calls' = [calls EXCEPT ![p].todo = Without(@, w),
                                    ![p].made = With(@, new, calls[p].todo[w])]
     \/ calls' = [calls EXCEPT ![p].todo = Without(@, w)] /\ UNCHANGED hubVars
  /\ UNCHANGED <<leaseVars, sessions, stale, history>>

\* The maps are replaced by those of the resumed watches.
ReplaceMaps(p) ==
  /\ calls[p].pc = "resume"
  /\ calls[p].todo = NoMap
  /\ sessions' = [sessions EXCEPT ![calls[p].sid].watches = calls[p].made]
  /\ Return(p)
  /\ UNCHANGED <<leaseVars, hubVars, stale, history>>

-----------------------------------------------------------------------------
(* The watch handler: RegisterWatch, AttachPeer, and Cancel at the end *)

\* Watch in the hub; when it is refused the handler returns.
OpenWatch(p, s, key, rev) ==
  \E w \in NextID :
    /\ watches!Open(w, key, rev)
    /\ Enter(p, [IdleCall EXCEPT !.pc = "register", !.sid = s, !.watch = w,
                                 !.key = key, !.rev = rev])
    /\ UNCHANGED <<leaseVars, sessions, stale, asked, stray, disturbed>>

\* The session, if it is known, tracks the watch.
RegisterWatch(p) ==
  LET s == calls[p].sid
      e == [key |-> calls[p].key, cursor |-> calls[p].rev]
  IN  /\ calls[p].pc = "register"
      /\ sessions' = IF Exists(s)
                     THEN [sessions EXCEPT ![s].watches = With(@, calls[p].watch, e)]
                     ELSE sessions
      /\ asked' = [asked EXCEPT ![s] = @ \cup {calls[p].key}]
      /\ calls' = [calls EXCEPT ![p].pc = "touch", ![p].key = NoKey, ![p].rev = 0]
      /\ UNCHANGED <<leaseVars, hubVars, stale, entered, stray, disturbed>>

\* AttachPeer, after the hub has the peer.
AttachPeer(p) ==
  LET s == calls[p].sid
  IN  /\ calls[p].pc = "touch"
      /\ sessions' = IF Exists(s) THEN [sessions EXCEPT ![s].seen = now] ELSE sessions
      /\ calls' = [calls EXCEPT ![p].pc = "serve"]
      /\ UNCHANGED <<leaseVars, hubVars, stale, history>>

\* Mutant of Leave: the handler returns without its deferred Cancel.
LeaveOpen(p) ==
  /\ calls[p].pc = "serve"
  /\ Return(p)
  /\ UNCHANGED <<leaseVars, hubVars, sessions, stale, history>>

\* The client is gone: the watch is cancelled, and still tracked.
Leave(p) ==
  /\ calls[p].pc = "serve"
  /\ CancelWatch(calls[p].watch)
  /\ Return(p)
  /\ UNCHANGED <<leaseVars, sessions, stale, history>>

\* AckWatch in the hub, for any id a client may remember.
Ack(p, s, w, rev) ==
  /\ ~watches!Unused(w)
  /\ watches!Ack(w, rev)
  /\ Enter(p, [IdleCall EXCEPT !.pc = "ack", !.sid = s, !.watch = w, !.rev = rev])
  /\ UNCHANGED <<leaseVars, sessions, stale, asked, stray, disturbed>>

\* Mutant of AckSession: the revision to resume at is stored.
AckSessionNext(p) ==
  LET s == calls[p].sid
      w == calls[p].watch
  IN  /\ calls[p].pc = "ack"
      /\ w \in DOMAIN sessions[s].watches
      /\ sessions' = [sessions EXCEPT ![s].watches[w].cursor = calls[p].rev + 1]
      /\ Return(p)
      /\ UNCHANGED <<leaseVars, hubVars, stale, history>>

\* AckWatch in the session: an id it does not track gets an entry, without key.
AckSession(p) ==
  LET s == calls[p].sid
      w == calls[p].watch
      m == sessions[s].watches
      e == IF w \in DOMAIN m THEN m[w] ELSE [key |-> NoKey, cursor |-> 0]
  IN  /\ calls[p].pc = "ack"
      /\ sessions' = IF ~Exists(s) THEN sessions
                     ELSE [sessions EXCEPT ![s].seen = now,
                             ![s].watches = IF calls[p].rev > e.cursor
                                            THEN With(m, w, [e EXCEPT !.cursor = calls[p].rev])
                                            ELSE m]
      /\ stray' = [stray EXCEPT ![s] = @ \/ w \notin DOMAIN m]
      /\ Return(p)
      /\ UNCHANGED <<leaseVars, hubVars, stale, entered, asked, disturbed>>

-----------------------------------------------------------------------------
(* ExpireStale, run by RunStaleLoop *)

\* The clock is read before the lock is taken.
StaleTick ==
  /\ stale.pc = "idle"
  /\ stale' = [stale EXCEPT !.pc = "scan", !.at = now]
  /\ UNCHANGED <<leaseVars, hubVars, sessions, calls, history>>

\* Mutant of IsStale: off by one tick.
IsNearlyStale(s, at) == Exists(s) /\ at + 1 >= sessions[s].seen + StaleAfter

IsStale(s, at) == Exists(s) /\ at >= sessions[s].seen + StaleAfter

StaleScan ==
  LET found == {s \in Sessions : IsStale(s, stale.at)}
  IN  /\ stale.pc = "scan"
      /\ stale' = IF found = {} THEN IdleStale
                  ELSE [stale EXCEPT !.pc = "close", !.at = 0, !.sids = found,
                          !.seen = [s \in Sessions |-> sessions[s].seen]]
      /\ UNCHANGED <<leaseVars, hubVars, sessions, calls, history>>

\* Mutant of StaleClose: the watches are not collected.
StaleCloseNoWatches(s) ==
  /\ stale.pc = "close"
  /\ s \in stale.sids
  /\ sessions' = [sessions EXCEPT ![s].state = "closed"]
  /\ stale' = [stale EXCEPT !.pc = "cancel", !.sids = @ \ {s}, !.sid = s]
  /\ disturbed' = [disturbed EXCEPT ![s] = @ \/ Busy(s)]
  /\ UNCHANGED <<leaseVars, hubVars, calls, entered, asked, stray>>

\* The locked region of Close, for a session that was stale at the scan.
StaleClose(s) ==
  /\ stale.pc = "close"
  /\ s \in stale.sids
  /\ sessions' = [sessions EXCEPT ![s].state = "closed"]
  /\ stale' = [stale EXCEPT !.pc = "cancel", !.sids = @ \ {s}, !.sid = s,
                            !.ids = DOMAIN sessions[s].watches]
  /\ disturbed' = [disturbed EXCEPT ![s] = @ \/ Busy(s)]
  /\ UNCHANGED <<leaseVars, hubVars, calls, entered, asked, stray>>

StaleCancel(w) ==
  /\ stale.pc = "cancel"
  /\ w \in stale.ids
  /\ CancelWatch(w)
  /\ stale' = [stale EXCEPT !.ids = @ \ {w}]
  /\ UNCHANGED <<leaseVars, sessions, calls, history>>

StaleNext ==
  /\ stale.pc = "cancel"
  /\ stale.ids = {}
  /\ stale' = IF stale.sids = {} THEN IdleStale ELSE [stale EXCEPT !.pc = "close", !.sid = None]
  /\ UNCHANGED <<leaseVars, hubVars, sessions, calls, history>>

-----------------------------------------------------------------------------
(* Specification *)

Init ==
  /\ leases!Init
  /\ watches!Init
  /\ sessions = [s \in Sessions |->
                   [state |-> "none", leases |-> {}, watches |-> NoMap, seen |-> 0]]
  /\ calls = [p \in Callers |-> IdleCall]
  /\ stale = IdleStale
  /\ entered = 0
  /\ asked = [s \in Sessions |-> {}]
  /\ stray = [s \in Sessions |-> FALSE]
  /\ disturbed = [s \in Sessions |-> FALSE]

Request(p, s) ==
  \/ \E l \in Leases \cup {None} : Connect(p, s, l)
  \/ Disconnect(p, s) \/ Close(p, s) \/ Heartbeat(p, s) \/ Reconnect(p, s)
  \/ \E key \in WatchKeys, rev \in StartRevs : OpenWatch(p, s, key, rev)
  \/ \E w \in WatchIDs, rev \in 1..MaxRev : Ack(p, s, w, rev)

\* A step of a call that has begun; only the client ends a watch handler.
CallStep(p) ==
  \/ BindLease(p)
  \/ \E w \in WatchIDs : CancelOne(p, w) \/ ResumeOne(p, w)
  \/ CancelDone(p)
  \/ \E l \in Leases : RenewOne(p, l)
  \/ MarkConnected(p) \/ ReplaceMaps(p)
  \/ RegisterWatch(p) \/ AttachPeer(p) \/ AckSession(p)

StaleStep ==
  \/ StaleTick \/ StaleScan \/ StaleNext
  \/ \E s \in Sessions : StaleClose(s)
  \/ \E w \in WatchIDs : StaleCancel(w)

\* The clock moves, and clients and the scan act on leases, without the
\* sessions' doing.
Elsewhere ==
  /\ \/ leases!Tick
     \/ \E l \in Leases : leases!Create(l) \/ leases!Revoke(l)
     \/ \E l \in Leases, at \in leases!Times : leases!Renew(l, at) \/ leases!Expire({l}, at)
  /\ UNCHANGED <<hubVars, sessions, calls, stale, history>>

Next ==
  \/ \E p \in Callers, s \in Sessions : Request(p, s)
  \/ \E p \in Callers : CallStep(p) \/ Leave(p)
  \/ StaleStep
  \/ Elsewhere

Spec == Init /\ [][Next]_vars

\* The ticker of the stale loop fires again and again, and goroutines inside a
\* call keep running.
Fairness ==
  /\ WF_vars(StaleStep)
  /\ \A p \in Callers : WF_vars(CallStep(p))

FairSpec == Spec /\ Fairness

-----------------------------------------------------------------------------
(* Properties *)

\* Every variable has its type.
TypeOK ==
  /\ now \in 0..MaxClock
  /\ table \in [Leases -> 0..(MaxClock + TTL)]
  /\ hub \in [WatchIDs -> [state : {"unused", "open", "closed"},
                           key : WatchKeys \cup {NoKey}, from : 0..MaxRev]]
  /\ acks \in [WatchIDs -> 0..MaxRev]
  /\ sessions \in [Sessions -> SessionRec]
  /\ calls \in [Callers -> Call]
  /\ stale \in Stale
  /\ entered \in 0..MaxCalls
  /\ asked \in [Sessions -> SUBSET WatchKeys]
  /\ stray \in [Sessions -> BOOLEAN]
  /\ disturbed \in [Sessions -> BOOLEAN]

\* Somebody will cancel subscription w: its handler, a call or the stale loop
\* that has it on its list, or whoever closes the session that tracks it.
Owned(w) ==
  \/ \E s \in Sessions : w \in DOMAIN sessions[s].watches
  \/ \E p \in Callers : \/ w \in DOMAIN calls[p].made \cup DOMAIN calls[p].todo
                        \/ w = calls[p].watch /\ calls[p].pc # "ack"
  \/ w \in stale.ids

\* No subscription is left open in the hub with nobody to cancel it, however
\* watch handlers, acks, closes and the stale loop interleave, unless a session
\* was reconnected while connected or while another call was changing it: then
\* Reconnect drops ids of open subscriptions (session.go:77-163, 201-217).
NoLeakedWatch ==
  (\A s \in Sessions : ~disturbed[s]) =>
    \A w \in WatchIDs : watches!IsOpen(w) => Owned(w)

\* A session subscribes to the empty key, which matches everything, only if an
\* ack named a watch it does not track: AckWatch makes an entry without key,
\* and the next Reconnect resumes it (session.go:115-139, 176-186).
ResumesAskedKeys ==
  \A s \in Sessions : ~stray[s] =>
    \A w \in DOMAIN sessions[s].watches :
      hub[w].key \in asked[s] /\ sessions[s].watches[w].key = hub[w].key

\* As long as every ack names a watch that its session tracks, no session's
\* cursor is behind the revision its subscription started from, nor behind
\* what the hub knows to be acknowledged unless that ack has yet to reach the
\* session (session.go:129-144, 154-160, 176-186).
CursorAhead ==
  (\A s \in Sessions : ~stray[s]) =>
    \A s \in Sessions : \A w \in DOMAIN sessions[s].watches :
      LET c == sessions[s].watches[w].cursor
      IN  /\ hub[w].from <= c
          /\ \/ acks[w] <= c
             \/ \E p \in Callers : calls[p].pc = "ack" /\ calls[p].watch = w

\* The stale loop closes a session that is not stale only when the session was
\* seen again between the scan and the close (reconnect.go:11-25).
ClosesStaleOnly ==
  [][ \A s \in Sessions :
        StaleClose(s) /\ now < sessions[s].seen + StaleAfter
          => sessions[s].seen # stale.seen[s] ]_vars

\* An abandoned session is closed and none of its watches stays open, whatever
\* is registered with it in the meantime, unless somebody is heard of again
\* (reconnect.go:11-41, session.go:201-217).
AbandonedIsCleaned ==
  \A s \in Sessions :
    IsStale(s, now) ~>
      \/ ~IsStale(s, now)
      \/ /\ sessions[s].state = "closed"
         /\ \A w \in DOMAIN sessions[s].watches : ~watches!IsOpen(w)
=============================================================================
