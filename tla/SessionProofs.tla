---------------------------- MODULE SessionProofs ----------------------------
(***************************************************************************)
(* Proofs about Session for every set of sessions, goroutines, leases and  *)
(* keys, and every bound.                                                  *)
(***************************************************************************)
EXTENDS Session, TLAPS

-----------------------------------------------------------------------------
(* The maps of a session *)

LEMMA MapsElement ==
  ASSUME NEW m \in Maps
  PROVE  /\ DOMAIN m \subseteq WatchIDs
         /\ \A w \in DOMAIN m : m[w] \in Tracked
         /\ \A w \in DOMAIN m : m[w].key \in WatchKeys \cup {NoKey} /\ m[w].cursor \in 0..MaxRev
BY DEF Maps, Tracked

LEMMA NoMapIsMap == NoMap \in Maps /\ DOMAIN NoMap = {}
<1>1. NoMap \in [{} -> Tracked]
  BY DEF NoMap
<1> QED
  BY <1>1 DEF Maps

LEMMA WithoutEffect ==
  ASSUME NEW m \in Maps, NEW w
  PROVE  /\ Without(m, w) \in Maps
         /\ DOMAIN Without(m, w) = DOMAIN m \ {w}
         /\ \A v \in DOMAIN m \ {w} : Without(m, w)[v] = m[v]
<1>1. Without(m, w) \in [DOMAIN m \ {w} -> Tracked] /\ DOMAIN m \ {w} \in SUBSET WatchIDs
  BY MapsElement DEF Without
<1> QED
  BY <1>1 DEF Maps, Without

LEMMA WithEffect ==
  ASSUME NEW m \in Maps, NEW w \in WatchIDs, NEW e \in Tracked
  PROVE  /\ With(m, w, e) \in Maps
         /\ DOMAIN With(m, w, e) = DOMAIN m \cup {w}
         /\ With(m, w, e)[w] = e
         /\ \A v \in DOMAIN m : v # w => With(m, w, e)[v] = m[v]
<1>1. With(m, w, e) \in [DOMAIN m \cup {w} -> Tracked] /\ DOMAIN m \cup {w} \in SUBSET WatchIDs
  BY MapsElement DEF With
<1> QED
  BY <1>1 DEF Maps, With

-----------------------------------------------------------------------------
(* What the hub and the lease manager do *)

HubRec == [state : {"unused", "open", "closed"}, key : WatchKeys \cup {NoKey}, from : 0..MaxRev]

HubType == hub \in [WatchIDs -> HubRec] /\ acks \in [WatchIDs -> 0..MaxRev]

TableType == now \in 0..MaxClock /\ table \in [Leases -> 0..(MaxClock + TTL)]

LEMMA OpenEffect ==
  ASSUME HubType, NEW w \in WatchIDs, NEW key \in WatchKeys \cup {NoKey}, NEW rev \in 0..MaxRev,
         watches!Open(w, key, rev)
  PROVE  /\ HubType'
         /\ watches!Unused(w)
         /\ hub'[w] = [state |-> "open", key |-> key, from |-> rev]
         /\ \A v \in WatchIDs : v # w => hub'[v] = hub[v]
         /\ acks' = acks
BY DEF HubType, HubRec, watches!Open

LEMMA CancelEffect ==
  ASSUME HubType, NEW w \in WatchIDs, CancelWatch(w)
  PROVE  /\ HubType'
         /\ ~watches!IsOpen(w)'
         /\ \A v \in WatchIDs :
              /\ watches!IsOpen(v)' => watches!IsOpen(v)
              /\ watches!Unused(v)' <=> watches!Unused(v)
              /\ hub'[v].key = hub[v].key
              /\ hub'[v].from = hub[v].from
              /\ acks'[v] = acks[v] \/ acks'[v] = 0
<1>1. CASE watches!IsOpen(w)
  <2>1. 0 \in 0..MaxRev
    BY <1>1, SessionAssumption
  <2> QED
    BY <1>1, <2>1 DEF CancelWatch, watches!Cancel, HubType, HubRec, watches!IsOpen, watches!Unused
<1>2. CASE ~watches!IsOpen(w)
  BY <1>2 DEF CancelWatch, HubType, hubVars, watches!IsOpen, watches!Unused
<1> QED
  BY <1>1, <1>2

LEMMA AckEffect ==
  ASSUME HubType, NEW w \in WatchIDs, NEW rev \in 1..MaxRev, watches!Ack(w, rev)
  PROVE  /\ HubType'
         /\ hub' = hub
         /\ acks'[w] = IF rev > acks[w] THEN rev ELSE acks[w]
         /\ \A v \in WatchIDs : v # w => acks'[v] = acks[v]
BY SessionAssumption DEF HubType, watches!Ack

LEMMA RenewOneTable ==
  ASSUME TableType, NEW l \in Leases, NEW at \in 0..MaxClock,
         \/ leases!Renew(l, at)
         \/ leases!Expire({l}, at)
         \/ ~leases!Registered(l) /\ UNCHANGED leaseVars
  PROVE  TableType' /\ now' = now
<1>1. at + TTL \in 0..(MaxClock + TTL) /\ 0 \in 0..(MaxClock + TTL)
  BY SessionAssumption
<1>2. CASE leases!Renew(l, at)
  BY <1>1, <1>2 DEF TableType, leases!Renew
<1>3. CASE leases!Expire({l}, at)
  BY <1>1, <1>3 DEF TableType, leases!Expire
<1>4. CASE UNCHANGED leaseVars
  BY <1>4 DEF TableType, leaseVars
<1> QED
  BY <1>2, <1>3, <1>4

LEMMA ElsewhereTable ==
  ASSUME TableType, Elsewhere
  PROVE  /\ TableType'
         /\ now <= now'
         /\ UNCHANGED <<hub, acks, sessions, calls, stale, history>>
<1>1. now + TTL \in 0..(MaxClock + TTL) /\ 0 \in 0..(MaxClock + TTL)
  BY SessionAssumption DEF TableType
<1>2. CASE leases!Tick
  BY <1>2, SessionAssumption DEF Elsewhere, TableType, leases!Tick, hubVars
<1>3. CASE \E l \in Leases : leases!Create(l)
  BY <1>1, <1>3 DEF Elsewhere, TableType, leases!Create, hubVars
<1>4. CASE \E l \in Leases : leases!Revoke(l)
  BY <1>1, <1>4 DEF Elsewhere, TableType, leases!Revoke, hubVars
<1>5. CASE \E l \in Leases, at \in leases!Times : leases!Renew(l, at) \/ leases!Expire({l}, at)
  <2>1. PICK l \in Leases, at \in leases!Times : leases!Renew(l, at) \/ leases!Expire({l}, at)
    BY <1>5
  <2>2. at \in 0..MaxClock
    BY SessionAssumption DEF TableType, leases!Times
  <2>3. TableType' /\ now' = now
    BY <2>1, <2>2, RenewOneTable
  <2> QED
    BY <1>5, <2>3 DEF Elsewhere, TableType, hubVars, leases!Renew, leases!Expire
<1> QED
  BY <1>2, <1>3, <1>4, <1>5 DEF Elsewhere

-----------------------------------------------------------------------------
(* The inductive invariant: types and locals *)

\* The locals of a goroutine that is not using them are empty, and those it
\* uses next are set; an unknown session tracks nothing; what the stale scan
\* found had been silent for StaleAfter.
LocalInv ==
  /\ \A p \in Callers :
       /\ calls[p].pc # "idle" => calls[p].sid \in Sessions
       /\ calls[p].pc # "resume" => DOMAIN calls[p].made = {}
       /\ calls[p].pc \notin {"cancel", "resume"} => DOMAIN calls[p].todo = {}
       /\ calls[p].pc \in {"register", "touch", "serve", "ack"} <=> calls[p].watch # 0
       /\ calls[p].pc = "register" => calls[p].key \in WatchKeys
       /\ calls[p].pc \in {"renew", "resume"} => Exists(calls[p].sid)
  /\ \A s \in Sessions : ~Exists(s) => DOMAIN sessions[s].watches = {}
  /\ stale.pc = "cancel" <=> stale.sid # None
  /\ stale.pc # "cancel" => stale.ids = {}
  /\ stale.pc = "scan" => stale.at <= now
  /\ \A s \in stale.sids : now >= stale.seen[s] + StaleAfter

\* An id that the hub has not issued is acknowledged and tracked nowhere.
UsedInv ==
  \A w \in WatchIDs : watches!Unused(w) =>
    /\ acks[w] = 0
    /\ \A s \in Sessions : w \notin DOMAIN sessions[s].watches
    /\ \A p \in Callers : /\ w \notin DOMAIN calls[p].todo
                          /\ w \notin DOMAIN calls[p].made
                          /\ w # calls[p].watch

BaseInv == TypeOK /\ LocalInv /\ UsedInv

-----------------------------------------------------------------------------
(* What each operation changes *)

LEMMA TypeFacts ==
  ASSUME TypeOK
  PROVE  /\ TableType /\ HubType
         /\ \A p \in Callers : calls[p] \in Call
         /\ \A s \in Sessions : sessions[s] \in SessionRec /\ sessions[s].watches \in Maps
         /\ \A p \in Callers : calls[p].todo \in Maps /\ calls[p].made \in Maps
BY DEF TypeOK, TableType, HubType, HubRec, Call, SessionRec

LEMMA IdleIsCall ==
  /\ IdleCall \in Call
  /\ IdleCall.pc = "idle"
  /\ DOMAIN IdleCall.todo = {} /\ DOMAIN IdleCall.made = {}
  /\ IdleCall.watch = 0
<1>1. 0 \in 0..MaxClock /\ 0 \in 0..MaxWatch /\ 0 \in 0..MaxRev
  BY SessionAssumption
<1> QED
  BY <1>1, NoMapIsMap DEF IdleCall, Call

LEMMA EnterEffect ==
  ASSUME TypeOK, NEW p \in Callers, NEW c \in Call, Enter(p, c)
  PROVE  /\ calls' \in [Callers -> Call]
         /\ calls[p].pc = "idle"
         /\ calls'[p] = c
         /\ \A q \in Callers : q # p => calls'[q] = calls[q]
         /\ entered' \in 0..MaxCalls
<1>1. entered' \in 0..MaxCalls
  BY SessionAssumption DEF TypeOK, Enter
<1> QED
  BY <1>1 DEF TypeOK, Enter

LEMMA ReturnEffect ==
  ASSUME TypeOK, NEW p \in Callers, Return(p)
  PROVE  /\ calls' \in [Callers -> Call]
         /\ calls'[p] = IdleCall
         /\ \A q \in Callers : q # p => calls'[q] = calls[q]
BY IdleIsCall DEF TypeOK, Return

\* The first regions of Disconnect and Close.
LEMMA DetachEffect ==
  ASSUME BaseInv, NEW p \in Callers, NEW s \in Sessions, Disconnect(p, s) \/ Close(p, s)
  PROVE  /\ TypeOK'
         /\ calls[p].pc = "idle"
         /\ \A q \in Callers : q # p => calls'[q] = calls[q]
         /\ calls'[p].pc = "cancel"
         /\ calls'[p].sid = s
         /\ calls'[p].todo = sessions[s].watches
         /\ calls'[p].made = NoMap
         /\ calls'[p].watch = 0
         /\ Exists(s)
         /\ sessions'[s].state \in {"disconnected", "closed"}
         /\ sessions'[s].watches = sessions[s].watches
         /\ \A t \in Sessions : t # s => sessions'[t] = sessions[t]
         /\ disturbed'[s] = (disturbed[s] \/ Busy(s))
         /\ \A t \in Sessions : t # s => disturbed'[t] = disturbed[t]
         /\ UNCHANGED <<now, table, hub, acks, stale, asked, stray>>
<1> DEFINE c == [IdleCall EXCEPT !.pc = "cancel", !.sid = s, !.todo = sessions[s].watches]
<1>0. sessions[s] \in SessionRec /\ sessions[s].watches \in Maps
  BY TypeFacts DEF BaseInv
<1>1. /\ c \in Call
      /\ c.pc = "cancel" /\ c.sid = s /\ c.todo = sessions[s].watches
      /\ c.made = NoMap /\ c.watch = 0
  BY <1>0, IdleIsCall DEF Call, IdleCall
<1>2. Enter(p, c)
  BY DEF Disconnect, Close
<1> HIDE DEF c
<1>3. /\ calls' \in [Callers -> Call]
      /\ calls[p].pc = "idle"
      /\ calls'[p] = c
      /\ \A q \in Callers : q # p => calls'[q] = calls[q]
      /\ entered' \in 0..MaxCalls
  BY <1>1, <1>2, EnterEffect DEF BaseInv
<1>4. /\ sessions' \in [Sessions -> SessionRec]
      /\ sessions'[s].state \in {"disconnected", "closed"}
      /\ sessions'[s].watches = sessions[s].watches
      /\ \A t \in Sessions : t # s => sessions'[t] = sessions[t]
  <2>1. CASE Disconnect(p, s)
    BY <1>0, <2>1 DEF Disconnect, BaseInv, TypeOK, SessionRec, States
  <2>2. CASE Close(p, s)
    BY <1>0, <2>2 DEF Close, BaseInv, TypeOK, SessionRec, States
  <2> QED
    BY <2>1, <2>2
<1>5. /\ disturbed' \in [Sessions -> BOOLEAN]
      /\ disturbed'[s] = (disturbed[s] \/ Busy(s))
      /\ \A t \in Sessions : t # s => disturbed'[t] = disturbed[t]
  <2> DEFINE b == disturbed[s] \/ Busy(s)
  <2>1. disturbed' = [disturbed EXCEPT ![s] = b] /\ b \in BOOLEAN
    BY DEF Disconnect, Close
  <2> HIDE DEF b
  <2>2. /\ disturbed' \in [Sessions -> BOOLEAN]
        /\ disturbed'[s] = b
        /\ \A t \in Sessions : t # s => disturbed'[t] = disturbed[t]
    BY <2>1 DEF BaseInv, TypeOK
  <2> QED
    BY <2>2 DEF b
<1>6. Exists(s) /\ UNCHANGED <<now, table, hub, acks, stale, asked, stray>>
  BY DEF Disconnect, Close, leaseVars, hubVars
<1>7. TypeOK'
  BY <1>3, <1>4, <1>5, <1>6 DEF BaseInv, TypeOK
<1> QED
  BY <1>1, <1>3, <1>4, <1>5, <1>6, <1>7

LEMMA ReconnectEffect ==
  ASSUME BaseInv, NEW p \in Callers, NEW s \in Sessions, Reconnect(p, s)
  PROVE  /\ TypeOK'
         /\ calls[p].pc = "idle"
         /\ \A q \in Callers : q # p => calls'[q] = calls[q]
         /\ calls'[p].pc = "renew"
         /\ calls'[p].sid = s
         /\ calls'[p].todo = NoMap
         /\ calls'[p].made = NoMap
         /\ calls'[p].watch = 0
         /\ Exists(s)
         /\ disturbed'[s] = (disturbed[s] \/ Busy(s) \/ sessions[s].state = "connected")
         /\ \A t \in Sessions : t # s => disturbed'[t] = disturbed[t]
         /\ UNCHANGED <<now, table, hub, acks, sessions, stale, asked, stray>>
<1> DEFINE c == [IdleCall EXCEPT !.pc = "renew", !.sid = s, !.at = now,
                                 !.leases = sessions[s].leases]
<1>0. sessions[s] \in SessionRec /\ now \in 0..MaxClock
  BY TypeFacts DEF BaseInv, TableType
<1>1. /\ c \in Call
      /\ c.pc = "renew" /\ c.sid = s /\ c.todo = NoMap /\ c.made = NoMap /\ c.watch = 0
  BY <1>0, IdleIsCall DEF Call, IdleCall, SessionRec
<1>2. Enter(p, c)
  BY DEF Reconnect
<1> HIDE DEF c
<1>3. /\ calls' \in [Callers -> Call]
      /\ calls[p].pc = "idle"
      /\ calls'[p] = c
      /\ \A q \in Callers : q # p => calls'[q] = calls[q]
      /\ entered' \in 0..MaxCalls
  BY <1>1, <1>2, EnterEffect DEF BaseInv
<1>5. /\ disturbed' \in [Sessions -> BOOLEAN]
      /\ disturbed'[s] = (disturbed[s] \/ Busy(s) \/ sessions[s].state = "connected")
      /\ \A t \in Sessions : t # s => disturbed'[t] = disturbed[t]
  <2> DEFINE b == disturbed[s] \/ Busy(s) \/ sessions[s].state = "connected"
  <2>1. disturbed' = [disturbed EXCEPT ![s] = b] /\ b \in BOOLEAN
    BY DEF Reconnect
  <2> HIDE DEF b
  <2>2. /\ disturbed' \in [Sessions -> BOOLEAN]
        /\ disturbed'[s] = b
        /\ \A t \in Sessions : t # s => disturbed'[t] = disturbed[t]
    BY <2>1 DEF BaseInv, TypeOK
  <2> QED
    BY <2>2 DEF b
<1>6. Exists(s) /\ UNCHANGED <<now, table, hub, acks, sessions, stale, asked, stray>>
  BY DEF Reconnect, leaseVars, hubVars
<1>7. TypeOK'
  BY <1>3, <1>5, <1>6 DEF BaseInv, TypeOK
<1> QED
  BY <1>1, <1>3, <1>5, <1>6, <1>7

\* The operations that touch neither the hub nor a map: Connect, Heartbeat,
\* BindLease, AttachPeer, a renewal, and the end of Disconnect or Close.
Light(p) ==
  \/ \E s \in Sessions : Heartbeat(p, s) \/ \E l \in Leases \cup {None} : Connect(p, s, l)
  \/ BindLease(p) \/ AttachPeer(p) \/ CancelDone(p)
  \/ \E l \in Leases : RenewOne(p, l)

LightSessions ==
  /\ sessions' \in [Sessions -> SessionRec]
  /\ \A t \in Sessions :
       /\ sessions'[t].watches = sessions[t].watches
       /\ \/ sessions'[t].state = sessions[t].state
          \/ sessions[t].state = "none" /\ sessions'[t].state = "connected"

LEMMA LightSessionsEffect ==
  ASSUME BaseInv, NEW p \in Callers, Light(p)
  PROVE  LightSessions
<1>0. sessions \in [Sessions -> SessionRec] /\ now \in 0..MaxClock
  BY DEF BaseInv, TypeOK
<1>1. CASE \E s \in Sessions : Heartbeat(p, s)
  BY <1>0, <1>1 DEF Heartbeat, LightSessions, SessionRec
<1>2. CASE \E s \in Sessions, l \in Leases \cup {None} : Connect(p, s, l)
  <2>1. PICK s \in Sessions, l \in Leases \cup {None} : Connect(p, s, l)
    BY <1>2
  <2>2. CASE Exists(s)
    BY <1>0, <2>1, <2>2 DEF Connect, LightSessions
  <2>3. CASE ~Exists(s)
    <3>1. sessions' = [sessions EXCEPT ![s].state = "connected", ![s].seen = now]
      BY <2>1, <2>3 DEF Connect
    <3> QED
      BY <1>0, <2>3, <3>1 DEF Exists, LightSessions, SessionRec, States
  <2> QED
    BY <2>2, <2>3
<1>3. CASE BindLease(p)
  <2>1. calls[p].sid \in Sessions /\ calls[p].leases \in SUBSET Leases
    BY <1>3 DEF BindLease, BaseInv, LocalInv, TypeOK, Call
  <2> QED
    BY <1>0, <1>3, <2>1 DEF BindLease, LightSessions, SessionRec
<1>4. CASE AttachPeer(p)
  <2>1. calls[p].sid \in Sessions
    BY <1>4 DEF AttachPeer, BaseInv, LocalInv
  <2> QED
    BY <1>0, <1>4, <2>1 DEF AttachPeer, LightSessions, SessionRec
<1>5. CASE CancelDone(p) \/ \E l \in Leases : RenewOne(p, l)
  BY <1>0, <1>5 DEF CancelDone, RenewOne, LightSessions
<1> QED
  BY <1>1, <1>2, <1>3, <1>4, <1>5 DEF Light

LEMMA LightEffect ==
  ASSUME BaseInv, NEW p \in Callers, Light(p)
  PROVE  /\ TypeOK'
         /\ LightSessions
         /\ \A q \in Callers : q # p => calls'[q] = calls[q]
         /\ DOMAIN calls[p].made = {} /\ DOMAIN calls'[p].made = {}
         /\ DOMAIN calls[p].todo = {} /\ DOMAIN calls'[p].todo = {}
         /\ calls'[p].watch = calls[p].watch
         /\ \/ calls'[p].pc = "idle" /\ calls[p].pc \in {"idle", "bind", "cancel"}
            \/ calls'[p].pc = "bind" /\ calls[p].pc = "idle" /\ calls'[p].sid \in Sessions
            \/ /\ <<calls[p].pc, calls'[p].pc>> \in {<<"touch", "serve">>, <<"renew", "renew">>}
               /\ calls'[p].sid = calls[p].sid
         /\ UNCHANGED <<now, hub, acks, stale, asked, stray, disturbed>>
<1>s. LightSessions
  BY LightSessionsEffect
<1>c. /\ calls \in [Callers -> Call]
      /\ calls[p] \in Call
      /\ calls[p].pc # "resume" => DOMAIN calls[p].made = {}
      /\ calls[p].pc \notin {"cancel", "resume"} => DOMAIN calls[p].todo = {}
      /\ calls[p].pc \in {"register", "touch", "serve", "ack"} <=> calls[p].watch # 0
  BY DEF BaseInv, LocalInv, TypeOK
<1>u. UNCHANGED <<now, hub, acks, stale, asked, stray, disturbed>>
  <2>1. TableType
    BY TypeFacts DEF BaseInv
  <2>2. CASE \E l \in Leases : RenewOne(p, l)
    <3>1. calls[p].at \in 0..MaxClock
      BY <1>c DEF Call
    <3> QED
      BY <2>1, <2>2, <3>1, RenewOneTable DEF RenewOne, hubVars, history
  <2> QED
    BY <2>2 DEF Light, Heartbeat, Connect, BindLease, AttachPeer, CancelDone, leaseVars,
                hubVars, history
<1>t. TableType'
  <2>1. TableType
    BY TypeFacts DEF BaseInv
  <2>2. CASE \E l \in Leases : RenewOne(p, l)
    <3>1. calls[p].at \in 0..MaxClock
      BY <1>c DEF Call
    <3> QED
      BY <2>1, <2>2, <3>1, RenewOneTable DEF RenewOne
  <2> QED
    BY <2>1, <2>2 DEF Light, Heartbeat, Connect, BindLease, AttachPeer, CancelDone, leaseVars,
                      TableType
<1> DEFINE Moved == /\ calls' \in [Callers -> Call]
                    /\ entered' \in 0..MaxCalls
                    /\ \A q \in Callers : q # p => calls'[q] = calls[q]
                    /\ DOMAIN calls[p].made = {} /\ DOMAIN calls'[p].made = {}
                    /\ DOMAIN calls[p].todo = {} /\ DOMAIN calls'[p].todo = {}
                    /\ calls'[p].watch = calls[p].watch
                    /\ \/ calls'[p].pc = "idle" /\ calls[p].pc \in {"idle", "bind", "cancel"}
                       \/ calls'[p].pc = "bind" /\ calls[p].pc = "idle" /\ calls'[p].sid \in Sessions
                       \/ /\ <<calls[p].pc, calls'[p].pc>> \in
                                {<<"touch", "serve">>, <<"renew", "renew">>}
                          /\ calls'[p].sid = calls[p].sid
<1>1. ASSUME NEW s \in Sessions, Heartbeat(p, s) PROVE Moved
  BY <1>1, <1>c, IdleIsCall, EnterEffect DEF Heartbeat, BaseInv
<1>2. ASSUME NEW s \in Sessions, NEW l \in Leases \cup {None}, Connect(p, s, l) PROVE Moved
  <2> DEFINE c == [IdleCall EXCEPT !.pc = "bind", !.sid = s, !.leases = {l}]
  <2>1. CASE l = None
    BY <1>2, <1>c, <2>1, IdleIsCall, EnterEffect DEF Connect, BaseInv
  <2>2. CASE l # None
    <3>1. /\ c \in Call /\ c.pc = "bind" /\ c.sid = s
          /\ DOMAIN c.made = {} /\ DOMAIN c.todo = {} /\ c.watch = 0
      BY <2>2, IdleIsCall DEF Call, IdleCall
    <3>2. Enter(p, c)
      BY <1>2, <2>2 DEF Connect
    <3> HIDE DEF c
    <3> QED
      BY <1>c, <3>1, <3>2, EnterEffect DEF BaseInv
  <2> QED
    BY <2>1, <2>2
<1>3. ASSUME BindLease(p) PROVE Moved
  BY <1>c, <1>3, IdleIsCall, ReturnEffect DEF BindLease, BaseInv, TypeOK, history
<1>4. ASSUME CancelDone(p) PROVE Moved
  <2>1. DOMAIN calls[p].todo = {}
    BY <1>4, NoMapIsMap DEF CancelDone
  <2> QED
    BY <1>c, <1>4, <2>1, IdleIsCall, ReturnEffect DEF CancelDone, BaseInv, TypeOK, history
<1>5. ASSUME AttachPeer(p) PROVE Moved
  BY <1>c, <1>5 DEF AttachPeer, BaseInv, TypeOK, Call, history
<1>6. ASSUME \E l \in Leases : RenewOne(p, l) PROVE Moved
  <2>1. PICK l \in Leases : RenewOne(p, l)
    BY <1>6
  <2>2. calls' = [calls EXCEPT ![p].leases = @ \ {l}] /\ calls[p].pc = "renew" /\ entered' = entered
    BY <2>1 DEF RenewOne, history
  <2> QED
    BY <1>c, <2>2 DEF BaseInv, TypeOK, Call
<1>7. Moved
  BY <1>1, <1>2, <1>3, <1>4, <1>5, <1>6 DEF Light
<1>8. TypeOK'
  BY <1>s, <1>u, <1>t, <1>7 DEF BaseInv, TypeOK, TableType, LightSessions
<1> QED
  BY <1>s, <1>u, <1>7, <1>8

\* What CancelWatch leaves as it was.
Cancelled(w) ==
  /\ HubType'
  /\ ~watches!IsOpen(w)'
  /\ \A v \in WatchIDs :
       /\ watches!IsOpen(v)' => watches!IsOpen(v)
       /\ watches!Unused(v)' <=> watches!Unused(v)
       /\ hub'[v].key = hub[v].key
       /\ hub'[v].from = hub[v].from
       /\ acks'[v] = acks[v] \/ acks'[v] = 0

LEMMA CancelOneEffect ==
  ASSUME BaseInv, NEW p \in Callers, NEW w \in WatchIDs, CancelOne(p, w)
  PROVE  /\ TypeOK'
         /\ Cancelled(w)
         /\ \A q \in Callers : q # p => calls'[q] = calls[q]
         /\ calls[p].pc = "cancel" /\ calls'[p].pc = "cancel"
         /\ calls'[p].sid = calls[p].sid
         /\ calls'[p].made = calls[p].made
         /\ calls'[p].watch = calls[p].watch
         /\ DOMAIN calls'[p].todo = DOMAIN calls[p].todo \ {w}
         /\ UNCHANGED <<now, sessions, stale, asked, stray, disturbed>>
<1>1. Cancelled(w)
  BY CancelEffect, TypeFacts DEF CancelOne, Cancelled, BaseInv
<1>2. calls[p] \in Call /\ calls[p].todo \in Maps
  BY TypeFacts DEF BaseInv
<1>3. calls' = [calls EXCEPT ![p].todo = Without(calls[p].todo, w)]
  BY DEF CancelOne
<1>4. /\ Without(calls[p].todo, w) \in Maps
      /\ DOMAIN Without(calls[p].todo, w) = DOMAIN calls[p].todo \ {w}
  BY <1>2, WithoutEffect
<1>5. /\ calls' \in [Callers -> Call]
      /\ calls'[p].todo = Without(calls[p].todo, w)
      /\ calls'[p].pc = calls[p].pc
      /\ calls'[p].sid = calls[p].sid
      /\ calls'[p].made = calls[p].made
      /\ calls'[p].watch = calls[p].watch
      /\ \A q \in Callers : q # p => calls'[q] = calls[q]
  BY <1>2, <1>3, <1>4 DEF BaseInv, TypeOK, Call
<1>6. calls[p].pc = "cancel" /\ UNCHANGED <<now, table, sessions, stale, history>>
  BY DEF CancelOne, leaseVars
<1>7. TypeOK'
  BY <1>1, <1>5, <1>6 DEF Cancelled, BaseInv, TypeOK, HubType, HubRec, history
<1> QED
  BY <1>1, <1>4, <1>5, <1>6, <1>7 DEF history

LEMMA LeaveEffect ==
  ASSUME BaseInv, NEW p \in Callers, Leave(p)
  PROVE  /\ TypeOK'
         /\ \E w \in WatchIDs : w = calls[p].watch /\ Cancelled(w)
         /\ \A q \in Callers : q # p => calls'[q] = calls[q]
         /\ calls[p].pc = "serve"
         /\ calls'[p] = IdleCall
         /\ UNCHANGED <<now, sessions, stale, asked, stray, disturbed>>
<1>1. calls[p].watch \in WatchIDs
  BY SessionAssumption DEF Leave, BaseInv, LocalInv, TypeOK, Call, WatchIDs
<1>2. PICK w \in WatchIDs : w = calls[p].watch /\ Cancelled(w)
  <2>1. PICK w \in WatchIDs : w = calls[p].watch
    BY <1>1
  <2>2. CancelWatch(w)
    BY <2>1 DEF Leave
  <2> QED
    BY <2>1, <2>2, CancelEffect, TypeFacts DEF Cancelled, BaseInv
<1>3. /\ calls' \in [Callers -> Call]
      /\ calls'[p] = IdleCall
      /\ \A q \in Callers : q # p => calls'[q] = calls[q]
  BY ReturnEffect DEF Leave, BaseInv
<1>4. calls[p].pc = "serve" /\ UNCHANGED <<now, table, sessions, stale, history>>
  BY DEF Leave, leaseVars
<1>5. TypeOK'
  BY <1>2, <1>3, <1>4 DEF Cancelled, BaseInv, TypeOK, HubType, HubRec, history
<1> QED
  BY <1>1, <1>2, <1>3, <1>4, <1>5 DEF history

LEMMA MarkConnectedEffect ==
  ASSUME BaseInv, NEW p \in Callers, MarkConnected(p)
  PROVE  /\ TypeOK'
         /\ \A q \in Callers : q # p => calls'[q] = calls[q]
         /\ calls[p].pc = "renew" /\ calls'[p].pc = "resume"
         /\ calls[p].sid \in Sessions
         /\ calls'[p].sid = calls[p].sid
         /\ calls'[p].todo = sessions[calls[p].sid].watches
         /\ calls'[p].made = calls[p].made
         /\ calls'[p].watch = calls[p].watch
         /\ sessions'[calls[p].sid].state = "connected"
         /\ sessions'[calls[p].sid].watches = sessions[calls[p].sid].watches
         /\ \A t \in Sessions : t # calls[p].sid => sessions'[t] = sessions[t]
         /\ UNCHANGED <<now, table, hub, acks, stale, asked, stray, disturbed>>
<1> DEFINE s == calls[p].sid
<1>1. /\ calls[p] \in Call /\ s \in Sessions
      /\ sessions[s] \in SessionRec /\ sessions[s].watches \in Maps
      /\ now \in 0..MaxClock /\ 0 \in 0..MaxClock
  BY TypeFacts, SessionAssumption DEF MarkConnected, BaseInv, LocalInv, TableType
<1>2. /\ calls' = [calls EXCEPT ![p].pc = "resume", ![p].todo = sessions[s].watches, ![p].at = 0]
      /\ sessions' = [sessions EXCEPT ![s].state = "connected", ![s].seen = now]
      /\ calls[p].pc = "renew"
      /\ UNCHANGED <<now, table, hub, acks, stale, history>>
  BY DEF MarkConnected, leaseVars, hubVars
<1>3. /\ calls' \in [Callers -> Call]
      /\ calls'[p].pc = "resume"
      /\ calls'[p].sid = s
      /\ calls'[p].todo = sessions[s].watches
      /\ calls'[p].made = calls[p].made
      /\ calls'[p].watch = calls[p].watch
      /\ \A q \in Callers : q # p => calls'[q] = calls[q]
  BY <1>1, <1>2 DEF BaseInv, TypeOK, Call
<1>4. /\ sessions' \in [Sessions -> SessionRec]
      /\ sessions'[s].state = "connected"
      /\ sessions'[s].watches = sessions[s].watches
      /\ \A t \in Sessions : t # s => sessions'[t] = sessions[t]
  BY <1>1, <1>2 DEF BaseInv, TypeOK, SessionRec, States
<1>5. TypeOK'
  BY <1>2, <1>3, <1>4 DEF BaseInv, TypeOK, history
<1> QED
  BY <1>1, <1>2, <1>3, <1>4, <1>5 DEF history

\* A tracked watch w is taken off the list of Reconnect.
ResumeFx(p, w) ==
  /\ TypeOK'
  /\ calls[p].pc = "resume" /\ calls'[p].pc = "resume"
  /\ calls'[p].sid = calls[p].sid
  /\ calls'[p].watch = calls[p].watch
  /\ w \in DOMAIN calls[p].todo
  /\ DOMAIN calls'[p].todo = DOMAIN calls[p].todo \ {w}
  /\ \A v \in DOMAIN calls'[p].todo : calls'[p].todo[v] = calls[p].todo[v]
  /\ \A q \in Callers : q # p => calls'[q] = calls[q]
  /\ UNCHANGED <<now, table, sessions, stale, asked, stray, disturbed, acks>>

\* The hub opens it again under the id new.
Reopened(p, w, new) ==
  /\ watches!Unused(new)
  /\ hub'[new] = [state |-> "open", key |-> calls[p].todo[w].key,
                  from |-> calls[p].todo[w].cursor]
  /\ \A v \in WatchIDs : v # new => hub'[v] = hub[v]
  /\ DOMAIN calls'[p].made = DOMAIN calls[p].made \cup {new}
  /\ calls'[p].made[new] = calls[p].todo[w]
  /\ \A v \in DOMAIN calls[p].made : v # new => calls'[p].made[v] = calls[p].made[v]

LEMMA ResumeOneEffect ==
  ASSUME BaseInv, NEW p \in Callers, NEW w \in WatchIDs, ResumeOne(p, w)
  PROVE  /\ ResumeFx(p, w)
         /\ \/ hub' = hub /\ calls'[p].made = calls[p].made
            \/ \E new \in WatchIDs : Reopened(p, w, new)
<1> DEFINE e == calls[p].todo[w]
           todo == Without(calls[p].todo, w)
<1>1. /\ calls[p] \in Call /\ calls[p].todo \in Maps /\ calls[p].made \in Maps
      /\ HubType
  BY TypeFacts DEF BaseInv
<1>2. /\ calls[p].pc = "resume"
      /\ w \in DOMAIN calls[p].todo
      /\ UNCHANGED <<now, table, sessions, stale, history>>
  BY DEF ResumeOne, leaseVars
<1>3. e \in Tracked /\ e.key \in WatchKeys \cup {NoKey} /\ e.cursor \in 0..MaxRev
  BY <1>1, <1>2, MapsElement
<1>4. /\ todo \in Maps
      /\ DOMAIN todo = DOMAIN calls[p].todo \ {w}
      /\ \A v \in DOMAIN todo : todo[v] = calls[p].todo[v]
  BY <1>1, WithoutEffect
<1>5. CASE calls' = [calls EXCEPT ![p].todo = todo] /\ UNCHANGED hubVars
  <2> HIDE DEF todo
  <2>1. /\ calls' \in [Callers -> Call]
        /\ calls'[p].pc = calls[p].pc
        /\ calls'[p].sid = calls[p].sid
        /\ calls'[p].todo = todo
        /\ calls'[p].made = calls[p].made
        /\ calls'[p].watch = calls[p].watch
        /\ \A q \in Callers : q # p => calls'[q] = calls[q]
    BY <1>1, <1>4, <1>5 DEF BaseInv, TypeOK, Call
  <2>2. UNCHANGED <<hub, acks>>
    BY <1>5 DEF hubVars
  <2>3. TypeOK'
    BY <1>2, <2>1, <2>2 DEF BaseInv, TypeOK, history
  <2> QED
    BY <1>2, <1>4, <2>1, <2>2, <2>3 DEF history, ResumeFx
<1>6. ASSUME NEW new \in NextID, watches!Open(new, e.key, e.cursor),
             calls' = [calls EXCEPT ![p].todo = todo, ![p].made = With(calls[p].made, new, e)]
      PROVE  ResumeFx(p, w) /\ new \in WatchIDs /\ Reopened(p, w, new)
  <2>1. new \in WatchIDs
    BY DEF NextID
  <2>2. /\ HubType'
        /\ watches!Unused(new)
        /\ hub'[new] = [state |-> "open", key |-> e.key, from |-> e.cursor]
        /\ \A v \in WatchIDs : v # new => hub'[v] = hub[v]
        /\ acks' = acks
    BY <1>1, <1>3, <1>6, <2>1, OpenEffect
  <2> DEFINE made == With(calls[p].made, new, e)
  <2>3. /\ made \in Maps
        /\ DOMAIN made = DOMAIN calls[p].made \cup {new}
        /\ made[new] = e
        /\ \A v \in DOMAIN calls[p].made : v # new => made[v] = calls[p].made[v]
    BY <1>1, <1>3, <2>1, WithEffect
  <2>4. calls' = [calls EXCEPT ![p].todo = todo, ![p].made = made]
    BY <1>6
  <2> HIDE DEF todo, made
  <2>5. /\ calls' \in [Callers -> Call]
        /\ calls'[p].pc = calls[p].pc
        /\ calls'[p].sid = calls[p].sid
        /\ calls'[p].todo = todo
        /\ calls'[p].made = made
        /\ calls'[p].watch = calls[p].watch
        /\ \A q \in Callers : q # p => calls'[q] = calls[q]
    BY <1>1, <1>4, <2>3, <2>4 DEF BaseInv, TypeOK, Call
  <2>6. TypeOK'
    BY <1>2, <2>2, <2>5 DEF BaseInv, TypeOK, HubType, HubRec, history
  <2> QED
    BY <1>2, <1>4, <2>1, <2>2, <2>3, <2>5, <2>6 DEF ResumeFx, Reopened, history
<1>7. \/ calls' = [calls EXCEPT ![p].todo = todo] /\ UNCHANGED hubVars
      \/ \E new \in NextID :
           /\ watches!Open(new, e.key, e.cursor)
           /\ calls' = [calls EXCEPT ![p].todo = todo, ![p].made = With(calls[p].made, new, e)]
  BY DEF ResumeOne
<1> HIDE DEF e, todo
<1>8. CASE \E new \in NextID :
             /\ watches!Open(new, e.key, e.cursor)
             /\ calls' = [calls EXCEPT ![p].todo = todo, ![p].made = With(calls[p].made, new, e)]
  BY <1>6, <1>8
<1> QED
  BY <1>5, <1>7, <1>8

LEMMA ReplaceMapsEffect ==
  ASSUME BaseInv, NEW p \in Callers, ReplaceMaps(p)
  PROVE  /\ TypeOK'
         /\ \A q \in Callers : q # p => calls'[q] = calls[q]
         /\ calls[p].pc = "resume"
         /\ calls'[p] = IdleCall
         /\ calls[p].sid \in Sessions
         /\ sessions'[calls[p].sid].state = sessions[calls[p].sid].state
         /\ sessions'[calls[p].sid].watches = calls[p].made
         /\ \A t \in Sessions : t # calls[p].sid => sessions'[t] = sessions[t]
         /\ UNCHANGED <<now, table, hub, acks, stale, asked, stray, disturbed>>
<1> DEFINE s == calls[p].sid
<1>1. /\ s \in Sessions
      /\ calls[p].made \in Maps
      /\ sessions[s] \in SessionRec
  BY TypeFacts DEF ReplaceMaps, BaseInv, LocalInv
<1>2. /\ sessions' = [sessions EXCEPT ![s].watches = calls[p].made]
      /\ calls[p].pc = "resume"
      /\ UNCHANGED <<now, table, hub, acks, stale, history>>
  BY DEF ReplaceMaps, leaseVars, hubVars
<1>3. /\ calls' \in [Callers -> Call]
      /\ calls'[p] = IdleCall
      /\ \A q \in Callers : q # p => calls'[q] = calls[q]
  BY ReturnEffect DEF ReplaceMaps, BaseInv
<1>4. /\ sessions' \in [Sessions -> SessionRec]
      /\ sessions'[s].state = sessions[s].state
      /\ sessions'[s].watches = calls[p].made
      /\ \A t \in Sessions : t # s => sessions'[t] = sessions[t]
  BY <1>1, <1>2 DEF BaseInv, TypeOK, SessionRec
<1>5. TypeOK'
  BY <1>2, <1>3, <1>4 DEF BaseInv, TypeOK, history
<1> QED
  BY <1>1, <1>2, <1>3, <1>4, <1>5 DEF history

\* The handler of a watch request has opened w and is about to register it.
OpenFx(p, s, key, rev, w) ==
  /\ TypeOK'
  /\ calls[p].pc = "idle"
  /\ \A q \in Callers : q # p => calls'[q] = calls[q]
  /\ calls'[p].pc = "register" /\ calls'[p].sid = s /\ calls'[p].watch = w
  /\ calls'[p].key = key /\ calls'[p].rev = rev
  /\ calls'[p].todo = NoMap /\ calls'[p].made = NoMap
  /\ watches!Unused(w)
  /\ hub'[w] = [state |-> "open", key |-> key, from |-> rev]
  /\ \A v \in WatchIDs : v # w => hub'[v] = hub[v]
  /\ UNCHANGED <<now, table, acks, sessions, stale, asked, stray, disturbed>>

LEMMA OpenWatchEffect ==
  ASSUME BaseInv, NEW p \in Callers, NEW s \in Sessions, NEW key \in WatchKeys,
         NEW rev \in StartRevs, OpenWatch(p, s, key, rev)
  PROVE  \E w \in WatchIDs : OpenFx(p, s, key, rev, w)
<1>1. PICK w \in NextID :
        /\ watches!Open(w, key, rev)
        /\ Enter(p, [IdleCall EXCEPT !.pc = "register", !.sid = s, !.watch = w,
                                     !.key = key, !.rev = rev])
        /\ UNCHANGED <<leaseVars, sessions, stale, asked, stray, disturbed>>
  BY DEF OpenWatch
<1>2. w \in WatchIDs /\ w \in 0..MaxWatch /\ rev \in 0..MaxRev
  BY SessionAssumption DEF NextID, WatchIDs
<1> DEFINE c == [IdleCall EXCEPT !.pc = "register", !.sid = s, !.watch = w, !.key = key, !.rev = rev]
<1>3. /\ c \in Call
      /\ c.pc = "register" /\ c.sid = s /\ c.watch = w /\ c.key = key /\ c.rev = rev
      /\ c.todo = NoMap /\ c.made = NoMap
  BY <1>2, IdleIsCall DEF Call, IdleCall
<1>4. /\ calls' \in [Callers -> Call]
      /\ calls[p].pc = "idle"
      /\ calls'[p] = c
      /\ \A q \in Callers : q # p => calls'[q] = calls[q]
      /\ entered' \in 0..MaxCalls
  BY <1>1, <1>3, EnterEffect DEF BaseInv
<1> HIDE DEF c
<1>5. /\ HubType'
      /\ watches!Unused(w)
      /\ hub'[w] = [state |-> "open", key |-> key, from |-> rev]
      /\ \A v \in WatchIDs : v # w => hub'[v] = hub[v]
      /\ acks' = acks
  BY <1>1, <1>2, TypeFacts, OpenEffect DEF BaseInv
<1>6. UNCHANGED <<now, table, sessions, stale, asked, stray, disturbed>>
  BY <1>1 DEF leaseVars
<1>7. TypeOK'
  BY <1>4, <1>5, <1>6 DEF BaseInv, TypeOK, HubType, HubRec
<1> QED
  BY <1>2, <1>3, <1>4, <1>5, <1>6, <1>7 DEF OpenFx

\* Session s, if it is known, tracks w from now on.
RegisterFx(p, s, w) ==
  /\ TypeOK'
  /\ s = calls[p].sid /\ w = calls[p].watch
  /\ \A q \in Callers : q # p => calls'[q] = calls[q]
  /\ calls[p].pc = "register" /\ calls'[p].pc = "touch"
  /\ calls'[p].sid = s
  /\ calls'[p].watch = w
  /\ calls'[p].todo = calls[p].todo
  /\ calls'[p].made = calls[p].made
  /\ sessions'[s].state = sessions[s].state
  /\ \A t \in Sessions : t # s => sessions'[t] = sessions[t]
  /\ asked'[s] = asked[s] \cup {calls[p].key}
  /\ \A t \in Sessions : t # s => asked'[t] = asked[t]
  /\ UNCHANGED <<now, table, hub, acks, stale, stray, disturbed>>
  /\ \/ ~Exists(s) /\ sessions' = sessions
     \/ /\ Exists(s)
        /\ DOMAIN sessions'[s].watches = DOMAIN sessions[s].watches \cup {w}
        /\ sessions'[s].watches[w] = [key |-> calls[p].key, cursor |-> calls[p].rev]
        /\ \A v \in DOMAIN sessions[s].watches :
             v # w => sessions'[s].watches[v] = sessions[s].watches[v]

LEMMA RegisterWatchEffect ==
  ASSUME BaseInv, NEW p \in Callers, RegisterWatch(p)
  PROVE  \E s \in Sessions, w \in WatchIDs : RegisterFx(p, s, w)
<1>1. PICK s \in Sessions, w \in WatchIDs :
        s = calls[p].sid /\ w = calls[p].watch
  <2>1. calls[p].sid \in Sessions /\ calls[p].watch \in WatchIDs
    BY SessionAssumption DEF RegisterWatch, BaseInv, LocalInv, TypeOK, Call, WatchIDs
  <2> QED
    BY <2>1
<1> DEFINE e == [key |-> calls[p].key, cursor |-> calls[p].rev]
           m == With(sessions[s].watches, w, e)
<1>2. /\ calls[p] \in Call /\ calls[p].pc = "register"
      /\ sessions[s] \in SessionRec /\ sessions[s].watches \in Maps
      /\ calls[p].key \in WatchKeys
  BY TypeFacts DEF RegisterWatch, BaseInv, LocalInv
<1>3. e \in Tracked
  BY <1>2 DEF Call, Tracked
<1>4. /\ calls' = [calls EXCEPT ![p].pc = "touch", ![p].key = NoKey, ![p].rev = 0]
      /\ asked' = [asked EXCEPT ![s] = @ \cup {calls[p].key}]
      /\ UNCHANGED <<now, table, hub, acks, stale, entered, stray, disturbed>>
      /\ sessions' = IF Exists(s) THEN [sessions EXCEPT ![s].watches = m] ELSE sessions
  BY <1>1 DEF RegisterWatch, leaseVars, hubVars
<1> HIDE DEF e
<1>5. /\ m \in Maps
      /\ DOMAIN m = DOMAIN sessions[s].watches \cup {w}
      /\ m[w] = e
      /\ \A v \in DOMAIN sessions[s].watches : v # w => m[v] = sessions[s].watches[v]
  BY <1>2, <1>3, WithEffect
<1> HIDE DEF m
<1>6. /\ calls' \in [Callers -> Call]
      /\ calls'[p].pc = "touch"
      /\ calls'[p].sid = calls[p].sid
      /\ calls'[p].watch = calls[p].watch
      /\ calls'[p].todo = calls[p].todo
      /\ calls'[p].made = calls[p].made
      /\ \A q \in Callers : q # p => calls'[q] = calls[q]
  <2>1. 0 \in 0..MaxRev
    BY SessionAssumption
  <2> QED
    BY <1>2, <1>4, <2>1 DEF BaseInv, TypeOK, Call
<1>7. /\ asked' \in [Sessions -> SUBSET WatchKeys]
      /\ asked'[s] = asked[s] \cup {calls[p].key}
      /\ \A t \in Sessions : t # s => asked'[t] = asked[t]
  BY <1>2, <1>4 DEF BaseInv, TypeOK
<1>8. /\ sessions' \in [Sessions -> SessionRec]
      /\ sessions'[s].state = sessions[s].state
      /\ \A t \in Sessions : t # s => sessions'[t] = sessions[t]
      /\ Exists(s) => sessions'[s].watches = m
      /\ ~Exists(s) => sessions' = sessions
  <2>1. CASE Exists(s)
    BY <1>2, <1>4, <1>5, <2>1 DEF BaseInv, TypeOK, SessionRec
  <2>2. CASE ~Exists(s)
    BY <1>4, <2>2 DEF BaseInv, TypeOK
  <2> QED
    BY <2>1, <2>2
<1>9. TypeOK'
  BY <1>4, <1>6, <1>7, <1>8 DEF BaseInv, TypeOK
<1> WITNESS s \in Sessions, w \in WatchIDs
<1> QED
  BY <1>1, <1>2, <1>4, <1>5, <1>6, <1>7, <1>8, <1>9 DEF RegisterFx, e

\* The hub has the ack, the session has yet to get it.
AckFx(p, s, w, rev) ==
  /\ TypeOK'
  /\ calls[p].pc = "idle"
  /\ \A q \in Callers : q # p => calls'[q] = calls[q]
  /\ calls'[p].pc = "ack" /\ calls'[p].sid = s /\ calls'[p].watch = w /\ calls'[p].rev = rev
  /\ calls'[p].todo = NoMap /\ calls'[p].made = NoMap
  /\ ~watches!Unused(w)
  /\ acks'[w] = IF rev > acks[w] THEN rev ELSE acks[w]
  /\ \A v \in WatchIDs : v # w => acks'[v] = acks[v]
  /\ UNCHANGED <<now, table, hub, sessions, stale, asked, stray, disturbed>>

LEMMA AckRequestEffect ==
  ASSUME BaseInv, NEW p \in Callers, NEW s \in Sessions, NEW w \in WatchIDs,
         NEW rev \in 1..MaxRev, Ack(p, s, w, rev)
  PROVE  AckFx(p, s, w, rev)
<1> DEFINE c == [IdleCall EXCEPT !.pc = "ack", !.sid = s, !.watch = w, !.rev = rev]
<1>1. w \in 0..MaxWatch /\ rev \in 0..MaxRev
  BY SessionAssumption DEF WatchIDs
<1>2. /\ c \in Call
      /\ c.pc = "ack" /\ c.sid = s /\ c.watch = w /\ c.rev = rev
      /\ c.todo = NoMap /\ c.made = NoMap
  BY <1>1, IdleIsCall DEF Call, IdleCall
<1>3. /\ calls' \in [Callers -> Call]
      /\ calls[p].pc = "idle"
      /\ calls'[p] = c
      /\ \A q \in Callers : q # p => calls'[q] = calls[q]
      /\ entered' \in 0..MaxCalls
  BY <1>2, EnterEffect DEF Ack, BaseInv
<1> HIDE DEF c
<1>4. /\ HubType'
      /\ hub' = hub
      /\ acks'[w] = IF rev > acks[w] THEN rev ELSE acks[w]
      /\ \A v \in WatchIDs : v # w => acks'[v] = acks[v]
  BY TypeFacts, AckEffect DEF Ack, BaseInv
<1>5. ~watches!Unused(w) /\ UNCHANGED <<now, table, sessions, stale, asked, stray, disturbed>>
  BY DEF Ack, leaseVars
<1>6. TypeOK'
  BY <1>3, <1>4, <1>5 DEF BaseInv, TypeOK, HubType, HubRec
<1> QED
  BY <1>2, <1>3, <1>4, <1>5, <1>6 DEF AckFx

\* AckWatch in the session: an entry is moved forward or added, and one that
\* was not there is noted as stray.
AckSessionFx(p, s, w) ==
  /\ TypeOK'
  /\ s = calls[p].sid /\ w = calls[p].watch /\ calls[p].pc = "ack"
  /\ calls'[p] = IdleCall
  /\ \A q \in Callers : q # p => calls'[q] = calls[q]
  /\ stray'[s] = (stray[s] \/ w \notin DOMAIN sessions[s].watches)
  /\ \A t \in Sessions : t # s => stray'[t] = stray[t] /\ sessions'[t] = sessions[t]
  /\ sessions'[s].state = sessions[s].state
  /\ DOMAIN sessions[s].watches \subseteq DOMAIN sessions'[s].watches
  /\ DOMAIN sessions'[s].watches \subseteq DOMAIN sessions[s].watches \cup {w}
  /\ ~Exists(s) => sessions' = sessions
  /\ \A v \in DOMAIN sessions[s].watches :
       v # w => sessions'[s].watches[v] = sessions[s].watches[v]
  /\ w \in DOMAIN sessions[s].watches =>
       /\ sessions'[s].watches[w].key = sessions[s].watches[w].key
       /\ sessions'[s].watches[w].cursor \in 0..MaxRev
       /\ sessions'[s].watches[w].cursor >= sessions[s].watches[w].cursor
       /\ sessions'[s].watches[w].cursor >= calls[p].rev
  /\ UNCHANGED <<now, table, hub, acks, stale, asked, disturbed>>

LEMMA AckSessionEffect ==
  ASSUME BaseInv, NEW p \in Callers, AckSession(p)
  PROVE  \E s \in Sessions, w \in WatchIDs : AckSessionFx(p, s, w)
<1>1. PICK s \in Sessions, w \in WatchIDs :
        s = calls[p].sid /\ w = calls[p].watch
  <2>1. calls[p].sid \in Sessions /\ calls[p].watch \in WatchIDs
    BY SessionAssumption DEF AckSession, BaseInv, LocalInv, TypeOK, Call, WatchIDs
  <2> QED
    BY <2>1
<1> DEFINE m == sessions[s].watches
           e == IF w \in DOMAIN m THEN m[w] ELSE [key |-> NoKey, cursor |-> 0]
           f == [e EXCEPT !.cursor = calls[p].rev]
           n == IF calls[p].rev > e.cursor THEN With(m, w, f) ELSE m
<1>2. /\ m \in Maps /\ sessions[s] \in SessionRec
      /\ calls[p].rev \in 0..MaxRev
      /\ now \in 0..MaxClock
      /\ MaxRev \in Nat
  BY TypeFacts, SessionAssumption DEF BaseInv, Call, TableType
<1>3. e \in Tracked /\ (w \in DOMAIN m => e = m[w])
  BY <1>2, MapsElement DEF Tracked
<1>4. f \in Tracked /\ f.key = e.key /\ f.cursor = calls[p].rev
      /\ e.cursor \in 0..MaxRev
  <2> HIDE DEF e
  <2> QED
    BY <1>2, <1>3 DEF Tracked
<1>5. /\ n \in Maps
      /\ DOMAIN m \subseteq DOMAIN n
      /\ DOMAIN n \subseteq DOMAIN m \cup {w}
      /\ \A v \in DOMAIN m : v # w => n[v] = m[v]
      /\ w \in DOMAIN m => /\ n[w].key = m[w].key
                           /\ n[w].cursor \in 0..MaxRev
                           /\ n[w].cursor >= m[w].cursor
                           /\ n[w].cursor >= calls[p].rev
  <2>1. CASE calls[p].rev > e.cursor
    <3>1. n = With(m, w, f)
      BY <2>1
    <3> HIDE DEF e, f, m, n
    <3>2. /\ n \in Maps
          /\ DOMAIN n = DOMAIN m \cup {w}
          /\ n[w] = f
          /\ \A v \in DOMAIN m : v # w => n[v] = m[v]
      BY <1>2, <1>4, <3>1, WithEffect
    <3> QED
      BY <1>2, <1>3, <1>4, <2>1, <3>2
  <2>2. CASE ~(calls[p].rev > e.cursor)
    <3>1. n = m
      BY <2>2
    <3> HIDE DEF e, f, m, n
    <3>2. w \in DOMAIN m => m[w].cursor \in 0..MaxRev
      BY <1>2, MapsElement
    <3> QED
      BY <1>2, <1>3, <1>4, <2>2, <3>1, <3>2
  <2> QED
    BY <2>1, <2>2
<1>6. /\ calls[p].pc = "ack"
      /\ sessions' = IF ~Exists(s) THEN sessions
                     ELSE [sessions EXCEPT ![s].seen = now, ![s].watches = n]
      /\ stray' = [stray EXCEPT ![s] = @ \/ w \notin DOMAIN m]
      /\ Return(p)
      /\ UNCHANGED <<now, table, hub, acks, stale, entered, asked, disturbed>>
  BY <1>1 DEF AckSession, leaseVars, hubVars
<1> HIDE DEF n
<1>7. /\ sessions' \in [Sessions -> SessionRec]
      /\ \A t \in Sessions : t # s => sessions'[t] = sessions[t]
      /\ sessions'[s].state = sessions[s].state
      /\ Exists(s) => sessions'[s].watches = n
      /\ ~Exists(s) => sessions' = sessions
  <2>1. CASE Exists(s)
    BY <1>2, <1>5, <1>6, <2>1 DEF BaseInv, TypeOK, SessionRec
  <2>2. CASE ~Exists(s)
    BY <1>6, <2>2 DEF BaseInv, TypeOK
  <2> QED
    BY <2>1, <2>2
<1>8. /\ stray' \in [Sessions -> BOOLEAN]
      /\ stray'[s] = (stray[s] \/ w \notin DOMAIN m)
      /\ \A t \in Sessions : t # s => stray'[t] = stray[t]
  <2> DEFINE b == stray[s] \/ w \notin DOMAIN m
  <2>1. stray' = [stray EXCEPT ![s] = b] /\ b \in BOOLEAN
    BY <1>6
  <2> HIDE DEF b
  <2>2. /\ stray' \in [Sessions -> BOOLEAN]
        /\ stray'[s] = b
        /\ \A t \in Sessions : t # s => stray'[t] = stray[t]
    BY <2>1 DEF BaseInv, TypeOK
  <2> QED
    BY <2>2 DEF b
<1>9. /\ calls' \in [Callers -> Call]
      /\ calls'[p] = IdleCall
      /\ \A q \in Callers : q # p => calls'[q] = calls[q]
  BY <1>6, ReturnEffect DEF BaseInv
<1>10. TypeOK'
  BY <1>6, <1>7, <1>8, <1>9 DEF BaseInv, TypeOK
<1>11. ~Exists(s) => w \notin DOMAIN m /\ DOMAIN m = {}
  BY DEF BaseInv, LocalInv
<1>12. /\ DOMAIN m \subseteq DOMAIN sessions'[s].watches
       /\ DOMAIN sessions'[s].watches \subseteq DOMAIN m \cup {w}
       /\ \A v \in DOMAIN m : v # w => sessions'[s].watches[v] = m[v]
       /\ w \in DOMAIN m => /\ sessions'[s].watches[w].key = m[w].key
                            /\ sessions'[s].watches[w].cursor \in 0..MaxRev
                            /\ sessions'[s].watches[w].cursor >= m[w].cursor
                            /\ sessions'[s].watches[w].cursor >= calls[p].rev
  <2>1. CASE Exists(s)
    BY <1>5, <1>7, <2>1
  <2>2. CASE ~Exists(s)
    BY <1>7, <1>11, <2>2
  <2> QED
    BY <2>1, <2>2
<1> WITNESS s \in Sessions, w \in WatchIDs
<1> QED
  BY <1>1, <1>6, <1>7, <1>8, <1>9, <1>10, <1>12 DEF AckSessionFx

\* The stale loop, up to the close.
LEMMA StaleLoopEffect ==
  ASSUME BaseInv, StaleTick \/ StaleScan \/ StaleNext
  PROVE  /\ TypeOK'
         /\ stale.ids = {} /\ stale'.ids = {}
         /\ stale'.sid = None
         /\ stale'.pc # "cancel"
         /\ stale'.pc = "scan" => stale'.at <= now
         /\ \A s \in stale'.sids : now >= stale'.seen[s] + StaleAfter
         /\ UNCHANGED <<now, table, hub, acks, sessions, calls, history>>
<1>0. /\ stale \in Stale /\ now \in 0..MaxClock /\ 0 \in 0..MaxClock
      /\ StaleAfter \in Nat
      /\ MaxClock \in Nat
      /\ sessions \in [Sessions -> SessionRec]
  BY SessionAssumption DEF BaseInv, TypeOK
<1>i. /\ IdleStale \in Stale /\ IdleStale.pc = "idle" /\ IdleStale.ids = {}
      /\ IdleStale.sid = None /\ IdleStale.sids = {}
  BY <1>0 DEF IdleStale, Stale
<1>u. UNCHANGED <<now, table, hub, acks, sessions, calls, history>>
  BY DEF StaleTick, StaleScan, StaleNext, leaseVars, hubVars
<1>1. ASSUME stale' \in Stale PROVE TypeOK'
  BY <1>1, <1>u DEF BaseInv, TypeOK, history
<1>2. CASE StaleTick
  <2>1. stale' = [stale EXCEPT !.pc = "scan", !.at = now] /\ stale.pc = "idle"
    BY <1>2 DEF StaleTick
  <2>2. stale' \in Stale
    BY <1>0, <2>1 DEF Stale
  <2>3. /\ stale'.pc = "scan" /\ stale'.at = now /\ stale'.sids = stale.sids
        /\ stale'.seen = stale.seen /\ stale'.ids = stale.ids /\ stale'.sid = stale.sid
    BY <1>0, <2>1 DEF Stale
  <2> QED
    BY <1>0, <1>1, <1>u, <2>1, <2>2, <2>3 DEF BaseInv, LocalInv
<1>3. CASE StaleScan
  <2> DEFINE found == {s \in Sessions : IsStale(s, stale.at)}
             seen == [s \in Sessions |-> sessions[s].seen]
  <2>0. stale.pc = "scan" /\ stale.ids = {} /\ stale.sid = None /\ stale.at <= now
        /\ stale.at \in 0..MaxClock
    BY <1>0, <1>3 DEF StaleScan, BaseInv, LocalInv, Stale
  <2>1. CASE found = {}
    <3>1. stale' = IdleStale
      BY <1>3, <2>1 DEF StaleScan
    <3> QED
      BY <1>1, <1>i, <1>u, <2>0, <3>1
  <2>2. CASE found # {}
    <3>1. stale' = [stale EXCEPT !.pc = "close", !.at = 0, !.sids = found, !.seen = seen]
      BY <1>3, <2>2 DEF StaleScan
    <3>2. seen \in [Sessions -> 0..MaxClock] /\ found \in SUBSET Sessions
      BY <1>0 DEF SessionRec
    <3>3. \A s \in found : now >= seen[s] + StaleAfter
      <4> SUFFICES ASSUME NEW s \in found PROVE now >= seen[s] + StaleAfter
        OBVIOUS
      <4>1. stale.at >= sessions[s].seen + StaleAfter /\ s \in Sessions
        BY DEF IsStale
      <4>2. sessions[s].seen \in Nat
        BY <1>0, <4>1 DEF SessionRec
      <4> QED
        BY <1>0, <2>0, <4>1, <4>2
    <3> HIDE DEF found, seen
    <3>4. stale' \in Stale
      BY <1>0, <3>1, <3>2 DEF Stale
    <3>5. /\ stale'.pc = "close" /\ stale'.sids = found /\ stale'.seen = seen
          /\ stale'.ids = stale.ids /\ stale'.sid = stale.sid
      BY <1>0, <3>1 DEF Stale
    <3> QED
      BY <1>1, <1>u, <2>0, <3>3, <3>4, <3>5
  <2> QED
    BY <2>1, <2>2
<1>4. CASE StaleNext
  <2>0. stale.pc = "cancel" /\ stale.ids = {}
    BY <1>4 DEF StaleNext
  <2>1. CASE stale.sids = {}
    <3>1. stale' = IdleStale
      BY <1>4, <2>1 DEF StaleNext
    <3> QED
      BY <1>1, <1>i, <1>u, <2>0, <3>1
  <2>2. CASE stale.sids # {}
    <3>1. stale' = [stale EXCEPT !.pc = "close", !.sid = None]
      BY <1>4, <2>2 DEF StaleNext
    <3>2. stale' \in Stale
      BY <1>0, <3>1 DEF Stale
    <3>3. /\ stale'.pc = "close" /\ stale'.sids = stale.sids /\ stale'.seen = stale.seen
          /\ stale'.ids = stale.ids /\ stale'.sid = None
      BY <1>0, <3>1 DEF Stale
    <3> QED
      BY <1>1, <1>u, <2>0, <3>2, <3>3 DEF BaseInv, LocalInv
  <2> QED
    BY <2>1, <2>2
<1> QED
  BY <1>2, <1>3, <1>4

LEMMA StaleCloseEffect ==
  ASSUME BaseInv, NEW s \in Sessions, StaleClose(s)
  PROVE  /\ TypeOK'
         /\ stale.ids = {} /\ stale.sid = None
         /\ stale'.pc = "cancel"
         /\ stale'.sid = s
         /\ stale'.ids = DOMAIN sessions[s].watches
         /\ stale'.sids \subseteq stale.sids
         /\ stale'.seen = stale.seen
         /\ s \in stale.sids
         /\ sessions'[s].state = "closed"
         /\ sessions'[s].watches = sessions[s].watches
         /\ \A t \in Sessions : t # s => sessions'[t] = sessions[t]
         /\ disturbed'[s] = (disturbed[s] \/ Busy(s))
         /\ \A t \in Sessions : t # s => disturbed'[t] = disturbed[t]
         /\ UNCHANGED <<now, table, hub, acks, calls, asked, stray>>
<1>0. /\ stale \in Stale
      /\ sessions[s] \in SessionRec /\ sessions[s].watches \in Maps
      /\ DOMAIN sessions[s].watches \subseteq WatchIDs
  BY TypeFacts, MapsElement DEF BaseInv, TypeOK
<1>1. /\ stale.pc = "close" /\ s \in stale.sids
      /\ sessions' = [sessions EXCEPT ![s].state = "closed"]
      /\ stale' = [stale EXCEPT !.pc = "cancel", !.sids = @ \ {s}, !.sid = s,
                                !.ids = DOMAIN sessions[s].watches]
      /\ UNCHANGED <<now, table, hub, acks, calls, entered, asked, stray>>
  BY DEF StaleClose, leaseVars, hubVars
<1>2. /\ stale' \in Stale
      /\ stale'.pc = "cancel" /\ stale'.sid = s
      /\ stale'.ids = DOMAIN sessions[s].watches
      /\ stale'.sids \subseteq stale.sids
      /\ stale'.seen = stale.seen
  BY <1>0, <1>1 DEF Stale
<1>3. /\ sessions' \in [Sessions -> SessionRec]
      /\ sessions'[s].state = "closed"
      /\ sessions'[s].watches = sessions[s].watches
      /\ \A t \in Sessions : t # s => sessions'[t] = sessions[t]
  BY <1>0, <1>1 DEF BaseInv, TypeOK, SessionRec, States
<1>5. /\ disturbed' \in [Sessions -> BOOLEAN]
      /\ disturbed'[s] = (disturbed[s] \/ Busy(s))
      /\ \A t \in Sessions : t # s => disturbed'[t] = disturbed[t]
  <2> DEFINE b == disturbed[s] \/ Busy(s)
  <2>1. disturbed' = [disturbed EXCEPT ![s] = b] /\ b \in BOOLEAN
    BY DEF StaleClose
  <2> HIDE DEF b
  <2>2. /\ disturbed' \in [Sessions -> BOOLEAN]
        /\ disturbed'[s] = b
        /\ \A t \in Sessions : t # s => disturbed'[t] = disturbed[t]
    BY <2>1 DEF BaseInv, TypeOK
  <2> QED
    BY <2>2 DEF b
<1>6. TypeOK'
  BY <1>1, <1>2, <1>3, <1>5 DEF BaseInv, TypeOK
<1>7. stale.ids = {} /\ stale.sid = None
  BY <1>1 DEF BaseInv, LocalInv
<1> QED
  BY <1>1, <1>2, <1>3, <1>5, <1>6, <1>7

LEMMA StaleCancelEffect ==
  ASSUME BaseInv, NEW w \in WatchIDs, StaleCancel(w)
  PROVE  /\ TypeOK'
         /\ Cancelled(w)
         /\ stale.pc = "cancel" /\ stale'.pc = "cancel"
         /\ stale'.ids = stale.ids \ {w}
         /\ stale'.sid = stale.sid
         /\ stale'.sids = stale.sids
         /\ stale'.seen = stale.seen
         /\ UNCHANGED <<now, table, sessions, calls, history>>
<1>0. stale \in Stale
  BY DEF BaseInv, TypeOK
<1>1. Cancelled(w)
  BY CancelEffect, TypeFacts DEF StaleCancel, Cancelled, BaseInv
<1>2. /\ stale.pc = "cancel"
      /\ stale' = [stale EXCEPT !.ids = @ \ {w}]
      /\ UNCHANGED <<now, table, sessions, calls, history>>
  BY DEF StaleCancel, leaseVars
<1>3. /\ stale' \in Stale
      /\ stale'.pc = "cancel"
      /\ stale'.ids = stale.ids \ {w}
      /\ stale'.sid = stale.sid
      /\ stale'.sids = stale.sids
      /\ stale'.seen = stale.seen
  BY <1>0, <1>2 DEF Stale
<1>4. TypeOK'
  BY <1>1, <1>2, <1>3 DEF Cancelled, BaseInv, TypeOK, HubType, HubRec, history
<1> QED
  BY <1>1, <1>2, <1>3, <1>4

-----------------------------------------------------------------------------
(* Types, locals and issued ids *)

LEMMA StepCases ==
  ASSUME [Next]_vars
  PROVE  \/ UNCHANGED vars
         \/ Elsewhere
         \/ \E p \in Callers : Light(p)
         \/ \E p \in Callers, s \in Sessions : Disconnect(p, s) \/ Close(p, s)
         \/ \E p \in Callers, s \in Sessions : Reconnect(p, s)
         \/ \E p \in Callers, s \in Sessions, key \in WatchKeys, rev \in StartRevs :
              OpenWatch(p, s, key, rev)
         \/ \E p \in Callers, s \in Sessions, w \in WatchIDs, rev \in 1..MaxRev :
              Ack(p, s, w, rev)
         \/ \E p \in Callers, w \in WatchIDs : CancelOne(p, w)
         \/ \E p \in Callers, w \in WatchIDs : ResumeOne(p, w)
         \/ \E p \in Callers : MarkConnected(p)
         \/ \E p \in Callers : ReplaceMaps(p)
         \/ \E p \in Callers : RegisterWatch(p)
         \/ \E p \in Callers : AckSession(p)
         \/ \E p \in Callers : Leave(p)
         \/ StaleTick \/ StaleScan \/ StaleNext
         \/ \E s \in Sessions : StaleClose(s)
         \/ \E w \in WatchIDs : StaleCancel(w)
BY DEF Next, Request, CallStep, StaleStep, Light

LEMMA BaseInit == Init => BaseInv
<1> SUFFICES ASSUME Init PROVE BaseInv
  OBVIOUS
<1>0. /\ 0 \in 0..MaxClock /\ 0 \in 0..(MaxClock + TTL) /\ 0 \in 0..MaxRev /\ 0 \in 0..MaxCalls
      /\ 0 \notin WatchIDs
  BY SessionAssumption DEF WatchIDs
<1>1. /\ IdleStale \in Stale /\ IdleStale.pc = "idle" /\ IdleStale.ids = {}
      /\ IdleStale.sid = None /\ IdleStale.sids = {}
  BY <1>0 DEF IdleStale, Stale
<1>2. sessions \in [Sessions -> SessionRec]
  BY <1>0, NoMapIsMap DEF Init, SessionRec, States
<1>3. calls \in [Callers -> Call] /\ \A p \in Callers : calls[p] = IdleCall
  BY IdleIsCall DEF Init
<1>4. now \in 0..MaxClock /\ table \in [Leases -> 0..(MaxClock + TTL)]
  BY <1>0 DEF Init, leases!Init
<1>5. hub \in [WatchIDs -> HubRec] /\ acks \in [WatchIDs -> 0..MaxRev]
  BY <1>0 DEF Init, watches!Init, HubRec
<1>6. TypeOK
  BY <1>0, <1>1, <1>2, <1>3, <1>4, <1>5 DEF Init, TypeOK, HubRec
<1>7. \A s \in Sessions : DOMAIN sessions[s].watches = {}
  BY NoMapIsMap DEF Init
<1>8. LocalInv
  BY <1>1, <1>3, <1>7, IdleIsCall DEF Init, LocalInv
<1>9. UsedInv
  BY <1>0, <1>3, <1>7, IdleIsCall DEF Init, watches!Init, UsedInv
<1> QED
  BY <1>6, <1>8, <1>9 DEF BaseInv

LEMMA BaseCallSteps ==
  ASSUME BaseInv, NEW p \in Callers,
         \/ Light(p)
         \/ \E s \in Sessions : Disconnect(p, s) \/ Close(p, s)
         \/ \E s \in Sessions : Reconnect(p, s)
         \/ MarkConnected(p)
         \/ ReplaceMaps(p)
         \/ RegisterWatch(p)
         \/ AckSession(p)
  PROVE  BaseInv'
<1>1. CASE Light(p)
  <2>1. LocalInv'
    BY <1>1, LightEffect DEF BaseInv, LocalInv, Exists, LightSessions
  <2>2. UsedInv'
    BY <1>1, LightEffect DEF BaseInv, UsedInv, LightSessions, watches!Unused
  <2> QED
    BY <1>1, <2>1, <2>2, LightEffect DEF BaseInv
<1>2. ASSUME NEW s \in Sessions, Disconnect(p, s) \/ Close(p, s) PROVE BaseInv'
  <2>1. LocalInv'
    BY <1>2, DetachEffect, NoMapIsMap DEF BaseInv, LocalInv, Exists
  <2>2. UsedInv'
    BY <1>2, DetachEffect, NoMapIsMap, SessionAssumption
    DEF BaseInv, UsedInv, watches!Unused, WatchIDs
  <2> QED
    BY <1>2, <2>1, <2>2, DetachEffect DEF BaseInv
<1>3. ASSUME NEW s \in Sessions, Reconnect(p, s) PROVE BaseInv'
  <2>1. LocalInv'
    BY <1>3, ReconnectEffect, NoMapIsMap DEF BaseInv, LocalInv, Exists
  <2>2. UsedInv'
    BY <1>3, ReconnectEffect, NoMapIsMap, SessionAssumption
    DEF BaseInv, UsedInv, watches!Unused, WatchIDs
  <2> QED
    BY <1>3, <2>1, <2>2, ReconnectEffect DEF BaseInv
<1>4. CASE MarkConnected(p)
  <2>1. LocalInv'
    BY <1>4, MarkConnectedEffect DEF BaseInv, LocalInv, Exists
  <2>2. UsedInv'
    BY <1>4, MarkConnectedEffect DEF BaseInv, UsedInv, watches!Unused
  <2> QED
    BY <1>4, <2>1, <2>2, MarkConnectedEffect DEF BaseInv
<1>5. CASE ReplaceMaps(p)
  <2>1. LocalInv'
    BY <1>5, ReplaceMapsEffect, IdleIsCall DEF BaseInv, LocalInv, Exists
  <2>2. UsedInv'
    BY <1>5, ReplaceMapsEffect, IdleIsCall, SessionAssumption
    DEF BaseInv, UsedInv, watches!Unused, WatchIDs
  <2> QED
    BY <1>5, <2>1, <2>2, ReplaceMapsEffect DEF BaseInv
<1>6. CASE RegisterWatch(p)
  <2>0. PICK s \in Sessions, w \in WatchIDs : RegisterFx(p, s, w)
    BY <1>6, RegisterWatchEffect
  <2>1. LocalInv'
    BY <2>0 DEF BaseInv, LocalInv, Exists, RegisterFx
  <2>2. UsedInv'
    BY <2>0 DEF BaseInv, UsedInv, watches!Unused, RegisterFx
  <2> QED
    BY <2>0, <2>1, <2>2 DEF BaseInv, RegisterFx
<1>7. CASE AckSession(p)
  <2>0. PICK s \in Sessions, w \in WatchIDs : AckSessionFx(p, s, w)
    BY <1>7, AckSessionEffect
  <2>1. LocalInv'
    BY <2>0, IdleIsCall DEF BaseInv, LocalInv, Exists, AckSessionFx
  <2>2. UsedInv'
    BY <2>0, IdleIsCall, SessionAssumption
    DEF BaseInv, UsedInv, watches!Unused, WatchIDs, AckSessionFx
  <2> QED
    BY <2>0, <2>1, <2>2 DEF BaseInv, AckSessionFx
<1> QED
  BY <1>1, <1>2, <1>3, <1>4, <1>5, <1>6, <1>7

LEMMA BaseHubSteps ==
  ASSUME BaseInv, NEW p \in Callers,
         \/ \E s \in Sessions, key \in WatchKeys, rev \in StartRevs : OpenWatch(p, s, key, rev)
         \/ \E s \in Sessions, w \in WatchIDs, rev \in 1..MaxRev : Ack(p, s, w, rev)
         \/ \E w \in WatchIDs : CancelOne(p, w)
         \/ \E w \in WatchIDs : ResumeOne(p, w)
         \/ Leave(p)
  PROVE  BaseInv'
<1>0. WatchIDs \subseteq Nat \ {0}
  BY SessionAssumption DEF WatchIDs
<1>1. ASSUME NEW s \in Sessions, NEW key \in WatchKeys, NEW rev \in StartRevs,
             OpenWatch(p, s, key, rev)
      PROVE  BaseInv'
  <2>1. PICK w \in WatchIDs : OpenFx(p, s, key, rev, w)
    BY <1>1, OpenWatchEffect
  <2>2. LocalInv'
    BY <1>0, <2>1, NoMapIsMap DEF BaseInv, LocalInv, Exists, OpenFx
  <2>3. UsedInv'
    BY <2>1, NoMapIsMap DEF BaseInv, UsedInv, watches!Unused, OpenFx
  <2> QED
    BY <2>1, <2>2, <2>3 DEF BaseInv, OpenFx
<1>2. ASSUME NEW s \in Sessions, NEW w \in WatchIDs, NEW rev \in 1..MaxRev, Ack(p, s, w, rev)
      PROVE  BaseInv'
  <2>1. AckFx(p, s, w, rev)
    BY <1>2, AckRequestEffect
  <2>2. LocalInv'
    BY <1>0, <2>1, NoMapIsMap DEF BaseInv, LocalInv, Exists, AckFx
  <2>3. UsedInv'
    BY <2>1, NoMapIsMap DEF BaseInv, UsedInv, watches!Unused, AckFx
  <2> QED
    BY <2>1, <2>2, <2>3 DEF BaseInv, AckFx
<1>3. ASSUME NEW w \in WatchIDs, CancelOne(p, w) PROVE BaseInv'
  <2>1. LocalInv'
    BY <1>3, CancelOneEffect DEF BaseInv, LocalInv, Exists
  <2>2. UsedInv'
    BY <1>3, CancelOneEffect DEF BaseInv, UsedInv, Cancelled
  <2> QED
    BY <1>3, <2>1, <2>2, CancelOneEffect DEF BaseInv
<1>4. ASSUME NEW w \in WatchIDs, ResumeOne(p, w) PROVE BaseInv'
  <2>1. ResumeFx(p, w)
    BY <1>4, ResumeOneEffect
  <2>2. LocalInv'
    BY <2>1 DEF BaseInv, LocalInv, Exists, ResumeFx
  <2>3. ASSUME hub' = hub, calls'[p].made = calls[p].made PROVE UsedInv'
    BY <2>1, <2>3 DEF BaseInv, UsedInv, watches!Unused, ResumeFx
  <2>4. ASSUME NEW new \in WatchIDs, Reopened(p, w, new) PROVE UsedInv'
    BY <2>1, <2>4 DEF BaseInv, UsedInv, watches!Unused, ResumeFx, Reopened
  <2>5. UsedInv'
    BY <1>4, <2>3, <2>4, ResumeOneEffect
  <2> QED
    BY <2>1, <2>2, <2>5 DEF BaseInv, ResumeFx
<1>5. CASE Leave(p)
  <2>0. PICK w \in WatchIDs : w = calls[p].watch /\ Cancelled(w)
    BY <1>5, LeaveEffect
  <2>1. LocalInv'
    BY <1>5, LeaveEffect, IdleIsCall DEF BaseInv, LocalInv, Exists
  <2>2. UsedInv'
    <3>1. /\ \A q \in Callers : q # p => calls'[q] = calls[q]
          /\ calls'[p] = IdleCall
          /\ sessions' = sessions
      BY <1>5, LeaveEffect
    <3> QED
      BY <1>0, <2>0, <3>1, IdleIsCall DEF BaseInv, UsedInv, Cancelled
  <2> QED
    BY <1>5, <2>1, <2>2, LeaveEffect DEF BaseInv
<1> QED
  BY <1>1, <1>2, <1>3, <1>4, <1>5

LEMMA BaseStep == BaseInv /\ [Next]_vars => BaseInv'
<1> SUFFICES ASSUME BaseInv, [Next]_vars PROVE BaseInv'
  OBVIOUS
<1>1. CASE UNCHANGED vars
  BY <1>1 DEF vars, leaseVars, hubVars, history, BaseInv, TypeOK, LocalInv, UsedInv, Exists,
              watches!Unused
<1>2. CASE Elsewhere
  <2>1. TableType
    BY TypeFacts DEF BaseInv
  <2>2. TypeOK'
    BY <1>2, <2>1, ElsewhereTable DEF BaseInv, TypeOK, TableType, history
  <2>3. LocalInv'
    <3>1. /\ now \in Nat /\ now' \in Nat /\ now <= now'
          /\ UNCHANGED <<hub, acks, sessions, calls, stale>>
      BY <1>2, <2>1, <2>2, ElsewhereTable DEF TableType, TypeOK
    <3>2. stale.at \in Nat /\ StaleAfter \in Nat /\ \A s \in Sessions : stale.seen[s] \in Nat
      BY SessionAssumption DEF BaseInv, TypeOK, Stale
    <3>3. stale.sids \subseteq Sessions
      BY DEF BaseInv, TypeOK, Stale
    <3> QED
      BY <3>1, <3>2, <3>3 DEF BaseInv, LocalInv, Exists
  <2>4. UsedInv'
    BY <1>2, <2>1, ElsewhereTable DEF BaseInv, UsedInv, watches!Unused
  <2> QED
    BY <2>2, <2>3, <2>4 DEF BaseInv
<1>3. CASE StaleTick \/ StaleScan \/ StaleNext
  <2>1. LocalInv'
    BY <1>3, StaleLoopEffect DEF BaseInv, LocalInv, Exists
  <2>2. UsedInv'
    BY <1>3, StaleLoopEffect DEF BaseInv, UsedInv, watches!Unused
  <2> QED
    BY <1>3, <2>1, <2>2, StaleLoopEffect DEF BaseInv
<1>4. ASSUME NEW s \in Sessions, StaleClose(s) PROVE BaseInv'
  <2>0. s # None
    BY SessionAssumption
  <2>1. LocalInv'
    BY <1>4, <2>0, StaleCloseEffect DEF BaseInv, LocalInv, Exists
  <2>2. UsedInv'
    BY <1>4, StaleCloseEffect DEF BaseInv, UsedInv, watches!Unused
  <2> QED
    BY <1>4, <2>1, <2>2, StaleCloseEffect DEF BaseInv
<1>5. ASSUME NEW w \in WatchIDs, StaleCancel(w) PROVE BaseInv'
  <2>1. LocalInv'
    BY <1>5, StaleCancelEffect DEF BaseInv, LocalInv, Exists
  <2>2. UsedInv'
    BY <1>5, StaleCancelEffect DEF BaseInv, UsedInv, Cancelled
  <2> QED
    BY <1>5, <2>1, <2>2, StaleCancelEffect DEF BaseInv
<1> QED
  BY <1>1, <1>2, <1>3, <1>4, <1>5, BaseCallSteps, BaseHubSteps, StepCases

LEMMA BaseInvariant == Spec => []BaseInv
BY BaseInit, BaseStep, PTL DEF Spec

\* Every variable has its type, whatever requests, watch handlers and the
\* stale loop interleave (session.go:44-217, reconnect.go:11-41).
THEOREM TypeCorrect == Spec => []TypeOK
<1>1. BaseInv => TypeOK
  BY DEF BaseInv
<1> QED
  BY <1>1, BaseInvariant, PTL

\* The stale loop closes a session that is not stale only when the session was
\* seen again between the scan and the close (reconnect.go:11-25).
THEOREM ClosesStaleCorrect == Spec => ClosesStaleOnly
<1> DEFINE Fair(s) == StaleClose(s) /\ now < sessions[s].seen + StaleAfter
                        => sessions[s].seen # stale.seen[s]
<1>1. BaseInv => \A s \in Sessions : Fair(s)
  <2> SUFFICES ASSUME BaseInv, NEW s \in Sessions, StaleClose(s),
                      sessions[s].seen = stale.seen[s]
               PROVE  ~(now < sessions[s].seen + StaleAfter)
    OBVIOUS
  <2>1. now >= stale.seen[s] + StaleAfter
    BY DEF BaseInv, LocalInv, StaleClose
  <2>2. now \in Nat /\ stale.seen[s] \in Nat /\ StaleAfter \in Nat
    BY SessionAssumption DEF BaseInv, TypeOK, Stale
  <2> QED
    BY <2>1, <2>2
<1> QED
  BY <1>1, BaseInvariant, PTL DEF ClosesStaleOnly

-----------------------------------------------------------------------------
(* The keys of the subscriptions a session holds *)

\* What session s tracks, and what a Reconnect of s copied or resumed, is
\* recorded under the key it is subscribed to, which a client of s asked for;
\* a handler registers its subscription under the key it subscribed to.
KeyInv ==
  \A s \in Sessions : ~stray[s] =>
    /\ \A w \in DOMAIN sessions[s].watches :
         hub[w].key \in asked[s] /\ sessions[s].watches[w].key = hub[w].key
    /\ \A p \in Callers : calls[p].sid = s =>
         /\ calls[p].pc = "resume" =>
              \A w \in DOMAIN calls[p].todo :
                hub[w].key \in asked[s] /\ calls[p].todo[w].key = hub[w].key
         /\ \A w \in DOMAIN calls[p].made :
              hub[w].key \in asked[s] /\ calls[p].made[w].key = hub[w].key
         /\ calls[p].pc = "register" => hub[calls[p].watch].key = calls[p].key

\* The ids in a map are ids of the hub.
LEMMA Domains ==
  ASSUME BaseInv
  PROVE  /\ \A s \in Sessions : DOMAIN sessions[s].watches \subseteq WatchIDs
         /\ \A p \in Callers : /\ DOMAIN calls[p].todo \subseteq WatchIDs
                               /\ DOMAIN calls[p].made \subseteq WatchIDs
                               /\ calls[p].pc = "register" => calls[p].watch \in WatchIDs
<1>1. \A p \in Callers : calls[p].pc = "register" => calls[p].watch \in WatchIDs
  BY SessionAssumption DEF BaseInv, LocalInv, TypeOK, Call, WatchIDs
<1> QED
  BY <1>1, TypeFacts, MapsElement DEF BaseInv

LEMMA KeyStep == BaseInv /\ KeyInv /\ [Next]_vars => KeyInv'
<1> SUFFICES ASSUME BaseInv, KeyInv, [Next]_vars PROVE KeyInv'
  OBVIOUS
<1>d. /\ \A s \in Sessions : DOMAIN sessions[s].watches \subseteq WatchIDs
      /\ \A p \in Callers : /\ DOMAIN calls[p].todo \subseteq WatchIDs
                            /\ DOMAIN calls[p].made \subseteq WatchIDs
                            /\ calls[p].pc = "register" => calls[p].watch \in WatchIDs
  BY Domains
<1>1. CASE UNCHANGED vars
  BY <1>1 DEF vars, leaseVars, hubVars, history, KeyInv
<1>2. CASE Elsewhere
  BY <1>2, ElsewhereTable, TypeFacts DEF BaseInv, KeyInv, history
<1>3. ASSUME NEW p \in Callers, Light(p) PROVE KeyInv'
  BY <1>3, LightEffect DEF KeyInv, LightSessions
<1>4. ASSUME NEW p \in Callers, NEW s \in Sessions, Disconnect(p, s) \/ Close(p, s)
      PROVE  KeyInv'
  BY <1>4, DetachEffect, NoMapIsMap DEF KeyInv
<1>5. ASSUME NEW p \in Callers, NEW s \in Sessions, Reconnect(p, s) PROVE KeyInv'
  BY <1>5, ReconnectEffect, NoMapIsMap DEF KeyInv
<1>6. ASSUME NEW p \in Callers, NEW s \in Sessions, NEW key \in WatchKeys,
             NEW rev \in StartRevs, OpenWatch(p, s, key, rev)
      PROVE  KeyInv'
  <2>1. PICK w \in WatchIDs : OpenFx(p, s, key, rev, w)
    BY <1>6, OpenWatchEffect
  <2> QED
    BY <1>d, <2>1, NoMapIsMap DEF BaseInv, UsedInv, KeyInv, OpenFx
<1>7. ASSUME NEW p \in Callers, NEW s \in Sessions, NEW w \in WatchIDs, NEW rev \in 1..MaxRev,
             Ack(p, s, w, rev)
      PROVE  KeyInv'
  BY <1>7, AckRequestEffect, NoMapIsMap DEF KeyInv, AckFx
<1>8. ASSUME NEW p \in Callers, NEW w \in WatchIDs, CancelOne(p, w) PROVE KeyInv'
  BY <1>d, <1>8, CancelOneEffect DEF KeyInv, Cancelled
<1>9. ASSUME NEW p \in Callers, NEW w \in WatchIDs, ResumeOne(p, w) PROVE KeyInv'
  <2>1. ResumeFx(p, w)
    BY <1>9, ResumeOneEffect
  <2>2. ASSUME hub' = hub, calls'[p].made = calls[p].made PROVE KeyInv'
    BY <2>1, <2>2 DEF KeyInv, ResumeFx
  <2>3. ASSUME NEW new \in WatchIDs, Reopened(p, w, new) PROVE KeyInv'
    BY <1>d, <2>1, <2>3 DEF BaseInv, UsedInv, KeyInv, ResumeFx, Reopened
  <2> QED
    BY <1>9, <2>2, <2>3, ResumeOneEffect
<1>10. ASSUME NEW p \in Callers, MarkConnected(p) PROVE KeyInv'
  BY <1>10, MarkConnectedEffect DEF KeyInv
<1>11. ASSUME NEW p \in Callers, ReplaceMaps(p) PROVE KeyInv'
  BY <1>11, ReplaceMapsEffect, IdleIsCall DEF KeyInv
<1>12. ASSUME NEW p \in Callers, RegisterWatch(p) PROVE KeyInv'
  <2>1. PICK s \in Sessions, w \in WatchIDs : RegisterFx(p, s, w)
    BY <1>12, RegisterWatchEffect
  <2> QED
    BY <2>1 DEF KeyInv, RegisterFx
<1>13. ASSUME NEW p \in Callers, AckSession(p) PROVE KeyInv'
  <2>1. PICK s \in Sessions, w \in WatchIDs : AckSessionFx(p, s, w)
    BY <1>13, AckSessionEffect
  <2>2. \A t \in Sessions : ~stray'[t] =>
          /\ ~stray[t]
          /\ DOMAIN sessions'[t].watches = DOMAIN sessions[t].watches
          /\ \A v \in DOMAIN sessions[t].watches :
               sessions'[t].watches[v].key = sessions[t].watches[v].key
    <3>1. ~stray'[s] => ~stray[s] /\ w \in DOMAIN sessions[s].watches
      BY <2>1, Zenon DEF AckSessionFx
    <3>2. \A t \in Sessions : t # s => stray'[t] = stray[t] /\ sessions'[t] = sessions[t]
      BY <2>1 DEF AckSessionFx
    <3>3. w \in DOMAIN sessions[s].watches =>
            /\ DOMAIN sessions'[s].watches = DOMAIN sessions[s].watches
            /\ \A v \in DOMAIN sessions[s].watches :
                 sessions'[s].watches[v].key = sessions[s].watches[v].key
      BY <2>1 DEF AckSessionFx
    <3> QED
      BY <3>1, <3>2, <3>3
  <2>3. /\ calls'[p].pc = "idle" /\ DOMAIN calls'[p].made = {}
        /\ \A q \in Callers : q # p => calls'[q] = calls[q]
        /\ hub' = hub /\ asked' = asked
    BY <2>1, IdleIsCall DEF AckSessionFx
  <2> QED
    BY <2>2, <2>3 DEF KeyInv
<1>14. ASSUME NEW p \in Callers, Leave(p) PROVE KeyInv'
  <2>1. PICK w \in WatchIDs : w = calls[p].watch /\ Cancelled(w)
    BY <1>14, LeaveEffect
  <2> QED
    BY <1>d, <1>14, <2>1, LeaveEffect, IdleIsCall DEF KeyInv, Cancelled
<1>15. CASE StaleTick \/ StaleScan \/ StaleNext
  BY <1>15, StaleLoopEffect DEF KeyInv, history
<1>16. ASSUME NEW s \in Sessions, StaleClose(s) PROVE KeyInv'
  BY <1>16, StaleCloseEffect DEF KeyInv
<1>17. ASSUME NEW w \in WatchIDs, StaleCancel(w) PROVE KeyInv'
  BY <1>d, <1>17, StaleCancelEffect DEF KeyInv, Cancelled, history
<1> QED
  BY <1>1, <1>2, <1>3, <1>4, <1>5, <1>6, <1>7, <1>8, <1>9, <1>10, <1>11, <1>12, <1>13, <1>14,
     <1>15, <1>16, <1>17, StepCases

\* A session subscribes to the empty key, which matches everything, only if an
\* ack named a watch it does not track (session.go:115-139, 176-186).
THEOREM ResumesAskedCorrect == Spec => []ResumesAskedKeys
<1>1. Init => KeyInv
  BY NoMapIsMap, IdleIsCall DEF Init, KeyInv
<1>2. KeyInv => ResumesAskedKeys
  BY DEF KeyInv, ResumesAskedKeys
<1> QED
  BY <1>1, <1>2, KeyStep, BaseInvariant, PTL DEF Spec

-----------------------------------------------------------------------------
(* The cursors of the subscriptions a session holds *)

NoStray == \A s \in Sessions : ~stray[s]

\* Cursor c of subscription w is not behind where w started, nor behind what
\* was acknowledged, unless a call still carries that ack to the session.
Caught(w, c) ==
  /\ hub[w].from <= c
  /\ \/ acks[w] <= c
     \/ \E p \in Callers : calls[p].pc = "ack" /\ calls[p].watch = w /\ calls[p].rev >= acks[w]

\* Call p holds subscription w, which no session tracks yet.
Holds(p, w) ==
  w \in DOMAIN calls[p].made \/ (calls[p].pc = "register" /\ calls[p].watch = w)

\* A subscription is tracked by one session or held by one call.
OneHolder ==
  /\ \A s, t \in Sessions : \A w \in WatchIDs :
       w \in DOMAIN sessions[s].watches /\ w \in DOMAIN sessions[t].watches => s = t
  /\ \A s \in Sessions, p \in Callers : \A w \in WatchIDs :
       w \in DOMAIN sessions[s].watches => ~Holds(p, w)
  /\ \A p, q \in Callers : \A w \in WatchIDs : Holds(p, w) /\ Holds(q, w) => p = q

AllCaught ==
  /\ \A s \in Sessions : \A w \in DOMAIN sessions[s].watches :
       Caught(w, sessions[s].watches[w].cursor)
  /\ \A p \in Callers : \A w \in DOMAIN calls[p].made : Caught(w, calls[p].made[w].cursor)
  /\ \A p \in Callers : calls[p].pc = "register" => Caught(calls[p].watch, calls[p].rev)

CursorInv == NoStray => OneHolder /\ AllCaught

\* What is held or tracked has been issued by the hub.
LEMMA Issued ==
  ASSUME BaseInv, NEW w \in WatchIDs, watches!Unused(w)
  PROVE  /\ acks[w] = 0
         /\ \A s \in Sessions : w \notin DOMAIN sessions[s].watches
         /\ \A p \in Callers : ~Holds(p, w)
BY DEF BaseInv, UsedInv, Holds

LEMMA OneHolderStep ==
  ASSUME BaseInv, OneHolder, [Next]_vars, ~\E p \in Callers : AckSession(p)
  PROVE  OneHolder'
<1>1. CASE UNCHANGED vars
  BY <1>1 DEF vars, OneHolder, Holds
<1>2. CASE Elsewhere
  BY <1>2, ElsewhereTable, TypeFacts DEF BaseInv, OneHolder, Holds
<1>3. ASSUME NEW p \in Callers, Light(p) PROVE OneHolder'
  BY <1>3, LightEffect DEF OneHolder, Holds, LightSessions
<1>4. ASSUME NEW p \in Callers, NEW s \in Sessions, Disconnect(p, s) \/ Close(p, s)
      PROVE  OneHolder'
  BY <1>4, DetachEffect, NoMapIsMap DEF OneHolder, Holds
<1>5. ASSUME NEW p \in Callers, NEW s \in Sessions, Reconnect(p, s) PROVE OneHolder'
  BY <1>5, ReconnectEffect, NoMapIsMap DEF OneHolder, Holds
<1>6. ASSUME NEW p \in Callers, NEW s \in Sessions, NEW key \in WatchKeys,
             NEW rev \in StartRevs, OpenWatch(p, s, key, rev)
      PROVE  OneHolder'
  <2>1. PICK w \in WatchIDs : OpenFx(p, s, key, rev, w)
    BY <1>6, OpenWatchEffect
  <2>2. \A q \in Callers : \A v \in WatchIDs :
          Holds(q, v)' <=> (IF q = p THEN v = w ELSE Holds(q, v))
    BY <2>1, NoMapIsMap DEF OpenFx, Holds
  <2>3. sessions' = sessions /\ watches!Unused(w)
    BY <2>1 DEF OpenFx
  <2> QED
    BY <2>2, <2>3, Issued DEF OneHolder
<1>7. ASSUME NEW p \in Callers, NEW s \in Sessions, NEW w \in WatchIDs, NEW rev \in 1..MaxRev,
             Ack(p, s, w, rev)
      PROVE  OneHolder'
  BY <1>7, AckRequestEffect, NoMapIsMap DEF OneHolder, Holds, AckFx
<1>8. ASSUME NEW p \in Callers, NEW w \in WatchIDs, CancelOne(p, w) PROVE OneHolder'
  BY <1>8, CancelOneEffect DEF OneHolder, Holds
<1>9. ASSUME NEW p \in Callers, NEW w \in WatchIDs, ResumeOne(p, w) PROVE OneHolder'
  <2>1. ResumeFx(p, w)
    BY <1>9, ResumeOneEffect
  <2>2. ASSUME hub' = hub, calls'[p].made = calls[p].made PROVE OneHolder'
    BY <2>1, <2>2 DEF OneHolder, Holds, ResumeFx
  <2>3. ASSUME NEW new \in WatchIDs, Reopened(p, w, new) PROVE OneHolder'
    <3>1. \A q \in Callers : \A v \in WatchIDs :
            Holds(q, v)' <=> (Holds(q, v) \/ (q = p /\ v = new))
      <4>1. \A v \in WatchIDs : Holds(p, v)' <=> (Holds(p, v) \/ v = new)
        BY <2>1, <2>3 DEF ResumeFx, Reopened, Holds
      <4>2. \A q \in Callers : q # p => calls'[q] = calls[q]
        BY <2>1 DEF ResumeFx
      <4> QED
        BY <4>1, <4>2 DEF Holds
    <3>2. sessions' = sessions /\ watches!Unused(new)
      BY <2>1, <2>3 DEF ResumeFx, Reopened
    <3> QED
      BY <3>1, <3>2, Issued DEF OneHolder
  <2> QED
    BY <1>9, <2>2, <2>3, ResumeOneEffect
<1>10. ASSUME NEW p \in Callers, MarkConnected(p) PROVE OneHolder'
  BY <1>10, MarkConnectedEffect DEF OneHolder, Holds
<1>11. ASSUME NEW p \in Callers, ReplaceMaps(p) PROVE OneHolder'
  <2>1. PICK s \in Sessions : s = calls[p].sid
    BY <1>11, ReplaceMapsEffect
  <2>2. \A t \in Sessions, v \in WatchIDs :
          v \in DOMAIN sessions'[t].watches =>
            IF t = s THEN Holds(p, v) ELSE v \in DOMAIN sessions[t].watches
    BY <1>11, <2>1, ReplaceMapsEffect DEF Holds
  <2>3. \A q \in Callers, v \in WatchIDs : Holds(q, v)' => q # p /\ Holds(q, v)
    BY <1>11, ReplaceMapsEffect, IdleIsCall DEF Holds
  <2> QED
    BY <2>2, <2>3 DEF OneHolder
<1>12. ASSUME NEW p \in Callers, RegisterWatch(p) PROVE OneHolder'
  <2>1. PICK s \in Sessions, w \in WatchIDs : RegisterFx(p, s, w)
    BY <1>12, RegisterWatchEffect
  <2>2. Holds(p, w)
    BY <2>1 DEF RegisterFx, Holds
  <2>3. \A t \in Sessions, v \in WatchIDs :
          v \in DOMAIN sessions'[t].watches =>
            v \in DOMAIN sessions[t].watches \/ (t = s /\ v = w)
    BY <2>1 DEF RegisterFx
  <2>4. \A q \in Callers, v \in WatchIDs : Holds(q, v)' => q # p /\ Holds(q, v)
    BY <2>1 DEF RegisterFx, Holds, BaseInv, LocalInv
  <2> QED
    BY <2>2, <2>3, <2>4 DEF OneHolder
<1>14. ASSUME NEW p \in Callers, Leave(p) PROVE OneHolder'
  BY <1>14, LeaveEffect, IdleIsCall DEF OneHolder, Holds
<1>15. CASE StaleTick \/ StaleScan \/ StaleNext
  BY <1>15, StaleLoopEffect DEF OneHolder, Holds
<1>16. ASSUME NEW s \in Sessions, StaleClose(s) PROVE OneHolder'
  BY <1>16, StaleCloseEffect DEF OneHolder, Holds
<1>17. ASSUME NEW w \in WatchIDs, StaleCancel(w) PROVE OneHolder'
  BY <1>17, StaleCancelEffect DEF OneHolder, Holds
<1> QED
  BY <1>1, <1>2, <1>3, <1>4, <1>5, <1>6, <1>7, <1>8, <1>9, <1>10, <1>11, <1>12, <1>14,
     <1>15, <1>16, <1>17, StepCases

\* Only the end of an ack, in the session, can leave a cursor behind.
LEMMA CaughtStep ==
  ASSUME BaseInv, [Next]_vars, ~\E p \in Callers : AckSession(p),
         NEW w \in WatchIDs, ~watches!Unused(w), NEW c \in 0..MaxRev, Caught(w, c)
  PROVE  Caught(w, c)'
<1>0. acks[w] \in Nat /\ c \in Nat /\ 0 <= c
  BY SessionAssumption DEF BaseInv, TypeOK
<1>1. CASE UNCHANGED vars
  BY <1>1 DEF vars, hubVars, Caught
<1>2. CASE Elsewhere
  BY <1>2, ElsewhereTable, TypeFacts DEF BaseInv, Caught
<1>3. ASSUME NEW p \in Callers, Light(p) PROVE Caught(w, c)'
  BY <1>3, LightEffect DEF Caught
<1>4. ASSUME NEW p \in Callers, NEW s \in Sessions, Disconnect(p, s) \/ Close(p, s)
      PROVE  Caught(w, c)'
  BY <1>4, DetachEffect DEF Caught
<1>5. ASSUME NEW p \in Callers, NEW s \in Sessions, Reconnect(p, s) PROVE Caught(w, c)'
  BY <1>5, ReconnectEffect DEF Caught
<1>6. ASSUME NEW p \in Callers, NEW s \in Sessions, NEW key \in WatchKeys,
             NEW rev \in StartRevs, OpenWatch(p, s, key, rev)
      PROVE  Caught(w, c)'
  <2>1. PICK v \in WatchIDs : OpenFx(p, s, key, rev, v)
    BY <1>6, OpenWatchEffect
  <2> QED
    BY <2>1 DEF Caught, OpenFx
<1>7. ASSUME NEW p \in Callers, NEW s \in Sessions, NEW v \in WatchIDs, NEW rev \in 1..MaxRev,
             Ack(p, s, v, rev)
      PROVE  Caught(w, c)'
  <2>1. AckFx(p, s, v, rev)
    BY <1>7, AckRequestEffect
  <2>2. CASE w = v /\ rev > acks[w]
    BY <2>1, <2>2 DEF AckFx, Caught
  <2>3. CASE ~(w = v /\ rev > acks[w])
    BY <2>1, <2>3 DEF AckFx, Caught
  <2> QED
    BY <2>2, <2>3
<1>8. ASSUME NEW p \in Callers, NEW v \in WatchIDs, CancelOne(p, v) PROVE Caught(w, c)'
  BY <1>0, <1>8, CancelOneEffect DEF Caught, Cancelled
<1>9. ASSUME NEW p \in Callers, NEW v \in WatchIDs, ResumeOne(p, v) PROVE Caught(w, c)'
  <2>1. ResumeFx(p, v)
    BY <1>9, ResumeOneEffect
  <2>2. hub'[w] = hub[w]
    BY <1>9, ResumeOneEffect DEF Reopened
  <2> QED
    BY <2>1, <2>2 DEF Caught, ResumeFx
<1>10. ASSUME NEW p \in Callers, MarkConnected(p) PROVE Caught(w, c)'
  BY <1>10, MarkConnectedEffect DEF Caught
<1>11. ASSUME NEW p \in Callers, ReplaceMaps(p) PROVE Caught(w, c)'
  BY <1>11, ReplaceMapsEffect DEF Caught
<1>12. ASSUME NEW p \in Callers, RegisterWatch(p) PROVE Caught(w, c)'
  <2>1. PICK s \in Sessions, v \in WatchIDs : RegisterFx(p, s, v)
    BY <1>12, RegisterWatchEffect
  <2> QED
    BY <2>1 DEF Caught, RegisterFx
<1>14. ASSUME NEW p \in Callers, Leave(p) PROVE Caught(w, c)'
  <2>1. PICK v \in WatchIDs : v = calls[p].watch /\ Cancelled(v)
    BY <1>14, LeaveEffect
  <2> QED
    BY <1>0, <1>14, <2>1, LeaveEffect DEF Caught, Cancelled
<1>15. CASE StaleTick \/ StaleScan \/ StaleNext
  BY <1>15, StaleLoopEffect DEF Caught
<1>16. ASSUME NEW s \in Sessions, StaleClose(s) PROVE Caught(w, c)'
  BY <1>16, StaleCloseEffect DEF Caught
<1>17. ASSUME NEW v \in WatchIDs, StaleCancel(v) PROVE Caught(w, c)'
  BY <1>0, <1>17, StaleCancelEffect DEF Caught, Cancelled
<1> QED
  BY <1>1, <1>2, <1>3, <1>4, <1>5, <1>6, <1>7, <1>8, <1>9, <1>10, <1>11, <1>12, <1>14,
     <1>15, <1>16, <1>17, StepCases

\* Caught after the step, for the values w and c have before it.
CaughtNext(w, c) ==
  /\ hub'[w].from <= c
  /\ \/ acks'[w] <= c
     \/ \E p \in Callers :
          calls'[p].pc = "ack" /\ calls'[p].watch = w /\ calls'[p].rev >= acks'[w]

\* The entries of the maps of session s, of call p, and of its registration,
\* are as before.
KeepsTracked(s) ==
  /\ DOMAIN sessions'[s].watches = DOMAIN sessions[s].watches
  /\ \A w \in DOMAIN sessions[s].watches : sessions'[s].watches[w] = sessions[s].watches[w]

KeepsHeld(p) ==
  \/ DOMAIN calls'[p].made = {} /\ calls'[p].pc # "register"
  \/ /\ calls'[p].made = calls[p].made
     /\ calls'[p].pc = "register" =>
          calls[p].pc = "register" /\ calls'[p].watch = calls[p].watch /\ calls'[p].rev = calls[p].rev

LEMMA EntriesStep ==
  ASSUME BaseInv, [Next]_vars, ~\E p \in Callers : AckSession(p), AllCaught
  PROVE  AllCaught'
<1>d. /\ \A s \in Sessions : \A w \in DOMAIN sessions[s].watches :
           /\ w \in WatchIDs /\ ~watches!Unused(w)
           /\ sessions[s].watches[w].cursor \in 0..MaxRev
      /\ \A p \in Callers : \A w \in DOMAIN calls[p].made :
           /\ w \in WatchIDs /\ ~watches!Unused(w)
           /\ calls[p].made[w].cursor \in 0..MaxRev
      /\ \A p \in Callers : calls[p].pc = "register" =>
           /\ calls[p].watch \in WatchIDs /\ ~watches!Unused(calls[p].watch)
           /\ calls[p].rev \in 0..MaxRev
  <2>1. \A p \in Callers : calls[p].rev \in 0..MaxRev
    BY DEF BaseInv, TypeOK, Call
  <2> QED
    BY <2>1, Domains, TypeFacts, MapsElement DEF BaseInv, UsedInv
<1>n. \A w \in WatchIDs, c \in 0..MaxRev :
        ~watches!Unused(w) /\ Caught(w, c) => CaughtNext(w, c)
  BY CaughtStep DEF Caught, CaughtNext
<1>c. /\ \A s \in Sessions : \A w \in DOMAIN sessions[s].watches :
           \A c : c = sessions[s].watches[w].cursor => CaughtNext(w, c)
      /\ \A p \in Callers : \A w \in DOMAIN calls[p].made :
           \A c : c = calls[p].made[w].cursor => CaughtNext(w, c)
      /\ \A p \in Callers : calls[p].pc = "register" =>
           \A w, c : w = calls[p].watch /\ c = calls[p].rev => CaughtNext(w, c)
  BY <1>d, <1>n DEF AllCaught
<1> DEFINE CaughtSession(s) ==
             \A w \in DOMAIN sessions'[s].watches :
               \A c : c = sessions'[s].watches[w].cursor => CaughtNext(w, c)
           CaughtCall(p) ==
             /\ \A w \in DOMAIN calls'[p].made :
                  \A c : c = calls'[p].made[w].cursor => CaughtNext(w, c)
             /\ calls'[p].pc = "register" =>
                  \A w, c : w = calls'[p].watch /\ c = calls'[p].rev => CaughtNext(w, c)
<1> SUFFICES (\A s \in Sessions : CaughtSession(s)) /\ (\A p \in Callers : CaughtCall(p))
  BY DEF AllCaught, Caught, CaughtNext
<1>s. \A s \in Sessions : KeepsTracked(s) => CaughtSession(s)
  BY <1>c DEF KeepsTracked
<1>p. \A p \in Callers : KeepsHeld(p) => CaughtCall(p)
  BY <1>c DEF KeepsHeld
<1>q. \A p \in Callers : calls'[p] = calls[p] => CaughtCall(p)
  BY <1>c
<1> HIDE DEF CaughtSession, CaughtCall
<1>1. CASE UNCHANGED vars
  BY <1>1, <1>s, <1>q DEF vars, KeepsTracked
<1>2. CASE Elsewhere
  BY <1>2, <1>s, <1>q, ElsewhereTable, TypeFacts DEF BaseInv, KeepsTracked
<1> DEFINE Goal == (\A s \in Sessions : CaughtSession(s)) /\ (\A p \in Callers : CaughtCall(p))
<1>3. ASSUME NEW p \in Callers, Light(p) PROVE Goal
  <2>1. KeepsHeld(p)
    BY <1>3, LightEffect DEF KeepsHeld
  <2>2. \A s \in Sessions : KeepsTracked(s)
    BY <1>3, LightEffect DEF LightSessions, KeepsTracked
  <2> QED
    BY <1>3, <2>1, <2>2, <1>s, <1>p, <1>q, LightEffect
<1>4. ASSUME NEW p \in Callers, NEW s \in Sessions, Disconnect(p, s) \/ Close(p, s)
      PROVE  Goal
  <2>1. KeepsHeld(p)
    BY <1>4, DetachEffect, NoMapIsMap DEF KeepsHeld
  <2>2. \A t \in Sessions : KeepsTracked(t)
    BY <1>4, DetachEffect DEF KeepsTracked
  <2> QED
    BY <1>4, <2>1, <2>2, <1>s, <1>p, <1>q, DetachEffect
<1>5. ASSUME NEW p \in Callers, NEW s \in Sessions, Reconnect(p, s) PROVE Goal
  <2>1. KeepsHeld(p)
    BY <1>5, ReconnectEffect, NoMapIsMap DEF KeepsHeld
  <2>2. \A t \in Sessions : KeepsTracked(t)
    BY <1>5, ReconnectEffect DEF KeepsTracked
  <2> QED
    BY <1>5, <2>1, <2>2, <1>s, <1>p, <1>q, ReconnectEffect
<1>6. ASSUME NEW p \in Callers, NEW s \in Sessions, NEW key \in WatchKeys,
             NEW rev \in StartRevs, OpenWatch(p, s, key, rev)
      PROVE  Goal
  <2>1. PICK w \in WatchIDs : OpenFx(p, s, key, rev, w)
    BY <1>6, OpenWatchEffect
  <2>2. \A t \in Sessions : KeepsTracked(t)
    BY <2>1 DEF OpenFx, KeepsTracked
  <2>3. CaughtNext(w, rev)
    <3>1. acks'[w] = 0 /\ hub'[w].from = rev /\ rev \in Nat
      BY <2>1, Issued, SessionAssumption DEF OpenFx
    <3> QED
      BY <3>1 DEF CaughtNext
  <2>4. CaughtCall(p)
    BY <2>1, <2>3, NoMapIsMap DEF OpenFx, CaughtCall
  <2>5. \A q \in Callers : q # p => calls'[q] = calls[q]
    BY <2>1 DEF OpenFx
  <2> QED
    BY <2>2, <2>4, <2>5, <1>s, <1>q
<1>7. ASSUME NEW p \in Callers, NEW s \in Sessions, NEW w \in WatchIDs, NEW rev \in 1..MaxRev,
             Ack(p, s, w, rev)
      PROVE  Goal
  <2>0. AckFx(p, s, w, rev)
    BY <1>7, AckRequestEffect
  <2>1. KeepsHeld(p)
    BY <2>0, NoMapIsMap DEF AckFx, KeepsHeld
  <2>2. \A t \in Sessions : KeepsTracked(t)
    BY <2>0 DEF AckFx, KeepsTracked
  <2>3. \A q \in Callers : q # p => calls'[q] = calls[q]
    BY <2>0 DEF AckFx
  <2> QED
    BY <2>1, <2>2, <2>3, <1>s, <1>p, <1>q
<1>8. ASSUME NEW p \in Callers, NEW w \in WatchIDs, CancelOne(p, w) PROVE Goal
  <2>1. KeepsHeld(p)
    BY <1>8, CancelOneEffect DEF KeepsHeld
  <2>2. \A t \in Sessions : KeepsTracked(t)
    BY <1>8, CancelOneEffect DEF KeepsTracked
  <2> QED
    BY <1>8, <2>1, <2>2, <1>s, <1>p, <1>q, CancelOneEffect
<1>9. ASSUME NEW p \in Callers, NEW w \in WatchIDs, ResumeOne(p, w) PROVE Goal
  <2>1. ResumeFx(p, w)
    BY <1>9, ResumeOneEffect
  <2>2. \A t \in Sessions : KeepsTracked(t)
    BY <2>1 DEF ResumeFx, KeepsTracked
  <2>3. \A q \in Callers : q # p => calls'[q] = calls[q]
    BY <2>1 DEF ResumeFx
  <2>4. ASSUME hub' = hub, calls'[p].made = calls[p].made PROVE CaughtCall(p)
    <3>1. KeepsHeld(p)
      BY <2>1, <2>4 DEF ResumeFx, KeepsHeld
    <3> QED
      BY <3>1, <1>p
  <2>5. ASSUME NEW new \in WatchIDs, Reopened(p, w, new) PROVE CaughtCall(p)
    <3>1. PICK c \in 0..MaxRev : c = calls[p].todo[w].cursor
      BY <2>1, TypeFacts, MapsElement DEF ResumeFx, BaseInv
    <3>2. CaughtNext(new, c)
      <4>1. acks'[new] = 0 /\ hub'[new].from = c /\ c \in Nat
        BY <2>1, <2>5, <3>1, Issued DEF ResumeFx, Reopened
      <4> QED
        BY <4>1 DEF CaughtNext
    <3>3. /\ calls'[p].pc # "register"
          /\ DOMAIN calls'[p].made = DOMAIN calls[p].made \cup {new}
          /\ calls'[p].made[new].cursor = c
          /\ \A v \in DOMAIN calls[p].made : v # new => calls'[p].made[v] = calls[p].made[v]
      BY <2>1, <2>5, <3>1 DEF ResumeFx, Reopened
    <3> QED
      BY <3>2, <3>3, <1>c DEF CaughtCall
  <2> QED
    BY <1>9, <2>2, <2>3, <2>4, <2>5, <1>s, <1>q, ResumeOneEffect
<1>10. ASSUME NEW p \in Callers, MarkConnected(p) PROVE Goal
  <2>1. KeepsHeld(p)
    BY <1>10, MarkConnectedEffect DEF KeepsHeld
  <2>2. \A t \in Sessions : KeepsTracked(t)
    BY <1>10, MarkConnectedEffect DEF KeepsTracked
  <2> QED
    BY <1>10, <2>1, <2>2, <1>s, <1>p, <1>q, MarkConnectedEffect
<1>11. ASSUME NEW p \in Callers, ReplaceMaps(p) PROVE Goal
  <2>1. KeepsHeld(p)
    BY <1>11, ReplaceMapsEffect, IdleIsCall DEF KeepsHeld
  <2>2. PICK s \in Sessions : s = calls[p].sid
    BY <1>11, ReplaceMapsEffect
  <2>3. sessions'[s].watches = calls[p].made /\ \A t \in Sessions : t # s => sessions'[t] = sessions[t]
    BY <1>11, <2>2, ReplaceMapsEffect
  <2>4. CaughtSession(s)
    BY <2>3, <1>c DEF CaughtSession
  <2>5. \A t \in Sessions : t # s => KeepsTracked(t)
    BY <2>3 DEF KeepsTracked
  <2> QED
    BY <1>11, <2>1, <2>4, <2>5, <1>s, <1>p, <1>q, ReplaceMapsEffect
<1>12. ASSUME NEW p \in Callers, RegisterWatch(p) PROVE Goal
  <2>0. PICK s \in Sessions, w \in WatchIDs : RegisterFx(p, s, w)
    BY <1>12, RegisterWatchEffect
  <2>1. KeepsHeld(p) /\ \A q \in Callers : q # p => calls'[q] = calls[q]
    BY <2>0 DEF RegisterFx, KeepsHeld
  <2>2. \A t \in Sessions : t # s => KeepsTracked(t)
    BY <2>0 DEF RegisterFx, KeepsTracked
  <2>3. CASE sessions' = sessions
    BY <2>1, <2>2, <2>3, <1>s, <1>p, <1>q DEF KeepsTracked
  <2>4. CASE sessions' # sessions
    <3>1. PICK c : c = calls[p].rev
      OBVIOUS
    <3>2. CaughtNext(w, c)
      BY <2>0, <3>1, <1>c DEF RegisterFx
    <3>3. /\ DOMAIN sessions'[s].watches = DOMAIN sessions[s].watches \cup {w}
          /\ sessions'[s].watches[w].cursor = c
          /\ \A v \in DOMAIN sessions[s].watches :
               v # w => sessions'[s].watches[v] = sessions[s].watches[v]
      BY <2>0, <2>4, <3>1 DEF RegisterFx
    <3>4. CaughtSession(s)
      BY <3>2, <3>3, <1>c DEF CaughtSession
    <3> QED
      BY <2>1, <2>2, <3>4, <1>s, <1>p, <1>q
  <2> QED
    BY <2>3, <2>4
<1>14. ASSUME NEW p \in Callers, Leave(p) PROVE Goal
  <2>1. KeepsHeld(p)
    BY <1>14, LeaveEffect, IdleIsCall DEF KeepsHeld
  <2>2. \A t \in Sessions : KeepsTracked(t)
    BY <1>14, LeaveEffect DEF KeepsTracked
  <2> QED
    BY <1>14, <2>1, <2>2, <1>s, <1>p, <1>q, LeaveEffect
<1>15. CASE StaleTick \/ StaleScan \/ StaleNext
  BY <1>15, <1>s, <1>q, StaleLoopEffect DEF KeepsTracked
<1>16. ASSUME NEW s \in Sessions, StaleClose(s) PROVE Goal
  BY <1>16, <1>s, <1>q, StaleCloseEffect DEF KeepsTracked
<1>17. ASSUME NEW w \in WatchIDs, StaleCancel(w) PROVE Goal
  BY <1>17, <1>s, <1>q, StaleCancelEffect DEF KeepsTracked
<1> QED
  BY <1>1, <1>2, <1>3, <1>4, <1>5, <1>6, <1>7, <1>8, <1>9, <1>10, <1>11, <1>12, <1>14,
     <1>15, <1>16, <1>17, StepCases

\* The ack that reaches its session removes itself from the calls and raises
\* the one cursor that was behind it.
LEMMA AckSessionCaught ==
  ASSUME BaseInv, NEW p \in Callers, AckSession(p), NoStray', CursorInv
  PROVE  NoStray /\ OneHolder' /\ AllCaught'
<1>1. PICK s \in Sessions, w \in WatchIDs : AckSessionFx(p, s, w)
  BY AckSessionEffect
<1>2. ~stray[s] /\ w \in DOMAIN sessions[s].watches
  <2>1. ~stray'[s]
    BY DEF NoStray
  <2> QED
    BY <1>1, <2>1, Zenon DEF AckSessionFx
<1>3. NoStray
  BY <1>1, <1>2 DEF NoStray, AckSessionFx
<1>4. OneHolder /\ AllCaught
  BY <1>3 DEF CursorInv
<1>5. /\ calls'[p].pc = "idle" /\ DOMAIN calls'[p].made = {}
      /\ \A q \in Callers : q # p => calls'[q] = calls[q]
      /\ hub' = hub /\ acks' = acks
      /\ calls[p].pc = "ack" /\ calls[p].watch = w
  BY <1>1, IdleIsCall DEF AckSessionFx
<1>6. /\ \A t \in Sessions : DOMAIN sessions'[t].watches = DOMAIN sessions[t].watches
      /\ \A t \in Sessions : \A v \in DOMAIN sessions[t].watches :
           t # s \/ v # w => sessions'[t].watches[v] = sessions[t].watches[v]
  <2>1. /\ DOMAIN sessions'[s].watches = DOMAIN sessions[s].watches
        /\ \A v \in DOMAIN sessions[s].watches :
             v # w => sessions'[s].watches[v] = sessions[s].watches[v]
    BY <1>1, <1>2 DEF AckSessionFx
  <2>2. \A t \in Sessions : t # s => sessions'[t] = sessions[t]
    BY <1>1 DEF AckSessionFx
  <2> QED
    BY <2>1, <2>2
<1>7. OneHolder'
  BY <1>4, <1>5, <1>6 DEF OneHolder, Holds
<1>8. \A v, c : v # w /\ Caught(v, c) => CaughtNext(v, c)
  BY <1>5 DEF Caught, CaughtNext
<1>9. \A c : c = sessions'[s].watches[w].cursor => CaughtNext(w, c)
  <2>1. PICK b \in 0..MaxRev : b = sessions[s].watches[w].cursor
    BY <1>2, TypeFacts, MapsElement DEF BaseInv
  <2>2. PICK c \in 0..MaxRev : c = sessions'[s].watches[w].cursor
    BY <1>1, <1>2 DEF AckSessionFx
  <2>3. Caught(w, b)
    BY <1>2, <1>4, <2>1 DEF AllCaught
  <2>4. b <= c /\ calls[p].rev <= c
    BY <1>1, <1>2, <2>1, <2>2 DEF AckSessionFx
  <2>5. hub[w].from \in Nat /\ acks[w] \in Nat /\ calls[p].rev \in Nat
    BY DEF BaseInv, TypeOK, Call
  <2>6. CaughtNext(w, c)
    BY <1>5, <2>3, <2>4, <2>5 DEF Caught, CaughtNext
  <2> QED
    BY <2>2, <2>6
<1>10. AllCaught'
  <2>1. \A t \in Sessions : \A v \in DOMAIN sessions'[t].watches :
          \A c : c = sessions'[t].watches[v].cursor => CaughtNext(v, c)
    <3> TAKE t \in Sessions
    <3> TAKE v \in DOMAIN sessions'[t].watches
    <3> TAKE c
    <3>1. CASE t = s /\ v = w
      BY <3>1, <1>9
    <3>2. CASE ~(t = s /\ v = w)
      <4>1. v # w
        BY <3>2, <1>2, <1>4, <1>6 DEF OneHolder
      <4> QED
        BY <4>1, <3>2, <1>4, <1>6, <1>8 DEF AllCaught
    <3> QED
      BY <3>1, <3>2
  <2>2. \A q \in Callers :
          /\ \A v \in DOMAIN calls'[q].made :
               \A c : c = calls'[q].made[v].cursor => CaughtNext(v, c)
          /\ calls'[q].pc = "register" =>
               \A v, c : v = calls'[q].watch /\ c = calls'[q].rev => CaughtNext(v, c)
    <3> SUFFICES ASSUME NEW q \in Callers, q # p
                 PROVE  /\ \A v \in DOMAIN calls[q].made :
                             \A c : c = calls[q].made[v].cursor => CaughtNext(v, c)
                        /\ calls[q].pc = "register" =>
                             \A v, c : v = calls[q].watch /\ c = calls[q].rev => CaughtNext(v, c)
      BY <1>5
    <3>1. ~Holds(q, w)
      BY <1>2, <1>4 DEF OneHolder
    <3> QED
      BY <3>1, <1>4, <1>8 DEF AllCaught, Holds
  <2> QED
    BY <2>1, <2>2 DEF AllCaught, Caught, CaughtNext
<1> QED
  BY <1>3, <1>7, <1>10

LEMMA CursorStep == BaseInv /\ CursorInv /\ [Next]_vars => CursorInv'
<1> SUFFICES ASSUME BaseInv, CursorInv, [Next]_vars, NoStray' PROVE OneHolder' /\ AllCaught'
  BY DEF CursorInv
<1>1. CASE \E p \in Callers : AckSession(p)
  BY <1>1, AckSessionCaught
<1>2. CASE ~\E p \in Callers : AckSession(p)
  <2>1. stray' = stray
    BY <1>2, StepCases, ElsewhereTable, TypeFacts, LightEffect
    DEF vars, history, BaseInv, Disconnect, Close, Reconnect, OpenWatch, Ack, CancelOne,
        ResumeOne, MarkConnected, ReplaceMaps, RegisterWatch, Leave, StaleTick, StaleScan,
        StaleNext, StaleClose, StaleCancel
  <2> QED
    BY <1>2, <2>1, OneHolderStep, EntriesStep DEF CursorInv, NoStray
<1> QED
  BY <1>1, <1>2

\* As long as every ack names a watch that its session tracks, no cursor of a
\* session is behind the revision its subscription started from, nor behind
\* what the hub knows to be acknowledged unless that ack has yet to reach the
\* session (session.go:129-144, 154-160, 176-186).
THEOREM CursorCorrect == Spec => []CursorAhead
<1>1. Init => CursorInv
  BY NoMapIsMap, IdleIsCall DEF Init, CursorInv, OneHolder, AllCaught, Holds
<1>2. CursorInv => CursorAhead
  BY DEF CursorInv, NoStray, AllCaught, Caught, CursorAhead
<1> QED
  BY <1>1, <1>2, CursorStep, BaseInvariant, PTL DEF Spec

-----------------------------------------------------------------------------
(* Every open subscription has somebody who will cancel it *)

Undisturbed == \A s \in Sessions : ~disturbed[s]

Working(p) == calls[p].pc \in {"cancel", "renew", "resume"}

\* Undisturbed, a session is changed by one call at a time and not by the
\* stale loop meanwhile; it is reconnected from another state than connected.
SerialInv ==
  Undisturbed =>
    /\ \A p, q \in Callers :
         Working(p) /\ Working(q) /\ calls[p].sid = calls[q].sid => p = q
    /\ \A p \in Callers : Working(p) => stale.sid # calls[p].sid
    /\ \A p \in Callers : calls[p].pc = "renew" => sessions[calls[p].sid].state # "connected"
    /\ \A p \in Callers : calls[p].pc = "resume" => sessions[calls[p].sid].state = "connected"

\* Session s tracks w, is connected, and is not about to replace its maps.
KeptBy(s, w) ==
  /\ sessions[s].state = "connected"
  /\ w \in DOMAIN sessions[s].watches
  /\ \A p \in Callers : calls[p].pc = "resume" => calls[p].sid # s

\* Call p has resumed w, is to cancel it, or serves it.
HeldBy(p, w) ==
  \/ w \in DOMAIN calls[p].made
  \/ calls[p].pc = "cancel" /\ w \in DOMAIN calls[p].todo
  \/ w = calls[p].watch /\ calls[p].pc # "ack"

Anchored(w) ==
  \/ \E s \in Sessions : KeptBy(s, w)
  \/ \E p \in Callers : HeldBy(p, w)
  \/ w \in stale.ids

AnchorInv == Undisturbed => \A w \in WatchIDs : watches!IsOpen(w) => Anchored(w)

\* Undisturbed once, undisturbed before; and what it takes to stay so.
LEMMA DisturbedStep ==
  ASSUME BaseInv, [Next]_vars, Undisturbed'
  PROVE  /\ Undisturbed
         /\ \A p \in Callers, s \in Sessions : Disconnect(p, s) \/ Close(p, s) => ~Busy(s)
         /\ \A p \in Callers, s \in Sessions :
              Reconnect(p, s) => ~Busy(s) /\ sessions[s].state # "connected"
         /\ \A s \in Sessions : StaleClose(s) => ~Busy(s)
<1>u. \A s \in Sessions : ~disturbed'[s]
  BY DEF Undisturbed
<1>1. ASSUME NEW p \in Callers, NEW s \in Sessions, Disconnect(p, s) \/ Close(p, s)
      PROVE  ~Busy(s) /\ Undisturbed
  <2>1. /\ disturbed'[s] = (disturbed[s] \/ Busy(s))
        /\ \A t \in Sessions : t # s => disturbed'[t] = disturbed[t]
    BY <1>1, DetachEffect
  <2>2. ~disturbed[s] /\ ~Busy(s)
    BY <1>u, <2>1, Zenon
  <2> QED
    BY <1>u, <2>1, <2>2 DEF Undisturbed
<1>2. ASSUME NEW p \in Callers, NEW s \in Sessions, Reconnect(p, s)
      PROVE  ~Busy(s) /\ sessions[s].state # "connected" /\ Undisturbed
  <2>1. /\ disturbed'[s] = (disturbed[s] \/ Busy(s) \/ sessions[s].state = "connected")
        /\ \A t \in Sessions : t # s => disturbed'[t] = disturbed[t]
    BY <1>2, ReconnectEffect
  <2>2. ~disturbed[s] /\ ~Busy(s) /\ sessions[s].state # "connected"
    BY <1>u, <2>1, Zenon
  <2> QED
    BY <1>u, <2>1, <2>2 DEF Undisturbed
<1>3. ASSUME NEW s \in Sessions, StaleClose(s) PROVE ~Busy(s) /\ Undisturbed
  <2>1. /\ disturbed'[s] = (disturbed[s] \/ Busy(s))
        /\ \A t \in Sessions : t # s => disturbed'[t] = disturbed[t]
    BY <1>3, StaleCloseEffect
  <2>2. ~disturbed[s] /\ ~Busy(s)
    BY <1>u, <2>1, Zenon
  <2> QED
    BY <1>u, <2>1, <2>2 DEF Undisturbed
<1>4. \/ disturbed' = disturbed
      \/ \E p \in Callers, s \in Sessions : Disconnect(p, s) \/ Close(p, s) \/ Reconnect(p, s)
      \/ \E s \in Sessions : StaleClose(s)
  BY StepCases, ElsewhereTable, TypeFacts, LightEffect
  DEF vars, history, BaseInv, OpenWatch, Ack, CancelOne, ResumeOne, MarkConnected, ReplaceMaps,
      RegisterWatch, AckSession, Leave, StaleTick, StaleScan, StaleNext, StaleCancel
<1>5. Undisturbed
  BY <1>u, <1>1, <1>2, <1>3, <1>4 DEF Undisturbed
<1> QED
  BY <1>1, <1>2, <1>3, <1>5

LEMMA SerialStep == BaseInv /\ SerialInv /\ [Next]_vars => SerialInv'
<1> SUFFICES ASSUME BaseInv, SerialInv, [Next]_vars, Undisturbed' PROVE SerialInv'
  BY DEF SerialInv
<1>u. Undisturbed
  BY DisturbedStep
<1>i. \A p \in Callers : /\ Working(p) => calls[p].sid \in Sessions
                         /\ calls[p].pc \in {"renew", "resume"} => Exists(calls[p].sid)
  BY DEF BaseInv, LocalInv, Working
<1>1. CASE UNCHANGED vars
  BY <1>1, <1>u DEF vars, history, SerialInv, Working
<1>2. CASE Elsewhere
  BY <1>2, <1>u, ElsewhereTable, TypeFacts DEF BaseInv, SerialInv, Working
<1>3. ASSUME NEW p \in Callers, Light(p) PROVE SerialInv'
  BY <1>3, <1>u, <1>i, LightEffect DEF SerialInv, Working, LightSessions, Exists
<1>4. ASSUME NEW p \in Callers, NEW s \in Sessions, Disconnect(p, s) \/ Close(p, s)
      PROVE  SerialInv'
  <2>1. /\ stale.sid # s
        /\ \A q \in Callers : Working(q) => calls[q].sid # s
    BY <1>4, DisturbedStep DEF Busy, Working
  <2> QED
    BY <1>4, <1>u, <1>i, <2>1, DetachEffect DEF SerialInv, Working
<1>5. ASSUME NEW p \in Callers, NEW s \in Sessions, Reconnect(p, s) PROVE SerialInv'
  <2>1. /\ stale.sid # s
        /\ \A q \in Callers : Working(q) => calls[q].sid # s
        /\ sessions[s].state # "connected"
    BY <1>5, DisturbedStep DEF Busy, Working
  <2> QED
    BY <1>5, <1>u, <1>i, <2>1, ReconnectEffect DEF SerialInv, Working
<1>6. ASSUME NEW p \in Callers, NEW s \in Sessions, NEW key \in WatchKeys,
             NEW rev \in StartRevs, OpenWatch(p, s, key, rev)
      PROVE  SerialInv'
  <2>1. PICK w \in WatchIDs : OpenFx(p, s, key, rev, w)
    BY <1>6, OpenWatchEffect
  <2> QED
    BY <1>u, <2>1 DEF SerialInv, Working, OpenFx
<1>7. ASSUME NEW p \in Callers, NEW s \in Sessions, NEW w \in WatchIDs, NEW rev \in 1..MaxRev,
             Ack(p, s, w, rev)
      PROVE  SerialInv'
  BY <1>7, <1>u, AckRequestEffect DEF SerialInv, Working, AckFx
<1>8. ASSUME NEW p \in Callers, NEW w \in WatchIDs, CancelOne(p, w) PROVE SerialInv'
  BY <1>8, <1>u, CancelOneEffect DEF SerialInv, Working
<1>9. ASSUME NEW p \in Callers, NEW w \in WatchIDs, ResumeOne(p, w) PROVE SerialInv'
  <2>1. ResumeFx(p, w)
    BY <1>9, ResumeOneEffect
  <2> QED
    BY <1>u, <2>1 DEF SerialInv, Working, ResumeFx
<1>10. ASSUME NEW p \in Callers, MarkConnected(p) PROVE SerialInv'
  BY <1>10, <1>u, <1>i, MarkConnectedEffect DEF SerialInv, Working
<1>11. ASSUME NEW p \in Callers, ReplaceMaps(p) PROVE SerialInv'
  BY <1>11, <1>u, <1>i, ReplaceMapsEffect, IdleIsCall DEF SerialInv, Working
<1>12. ASSUME NEW p \in Callers, RegisterWatch(p) PROVE SerialInv'
  <2>1. PICK s \in Sessions, w \in WatchIDs : RegisterFx(p, s, w)
    BY <1>12, RegisterWatchEffect
  <2> QED
    BY <1>u, <1>i, <2>1 DEF SerialInv, Working, RegisterFx
<1>13. ASSUME NEW p \in Callers, AckSession(p) PROVE SerialInv'
  <2>1. PICK s \in Sessions, w \in WatchIDs : AckSessionFx(p, s, w)
    BY <1>13, AckSessionEffect
  <2> QED
    BY <1>u, <1>i, <2>1, IdleIsCall DEF SerialInv, Working, AckSessionFx
<1>14. ASSUME NEW p \in Callers, Leave(p) PROVE SerialInv'
  BY <1>14, <1>u, LeaveEffect, IdleIsCall DEF SerialInv, Working
<1>15. CASE StaleTick \/ StaleScan \/ StaleNext
  BY <1>15, <1>u, <1>i, StaleLoopEffect, SessionAssumption DEF SerialInv, Working
<1>16. ASSUME NEW s \in Sessions, StaleClose(s) PROVE SerialInv'
  <2>1. \A q \in Callers : Working(q) => calls[q].sid # s
    BY <1>16, DisturbedStep DEF Busy, Working
  <2> QED
    BY <1>16, <1>u, <1>i, <2>1, StaleCloseEffect DEF SerialInv, Working
<1>17. ASSUME NEW w \in WatchIDs, StaleCancel(w) PROVE SerialInv'
  BY <1>17, <1>u, StaleCancelEffect DEF SerialInv, Working
<1> QED
  BY <1>1, <1>2, <1>3, <1>4, <1>5, <1>6, <1>7, <1>8, <1>9, <1>10, <1>11, <1>12, <1>13, <1>14,
     <1>15, <1>16, <1>17, StepCases

LEMMA AnchorStep == BaseInv /\ SerialInv /\ AnchorInv /\ [Next]_vars => AnchorInv'
<1> SUFFICES ASSUME BaseInv, SerialInv, AnchorInv, [Next]_vars, Undisturbed',
                    NEW v \in WatchIDs, watches!IsOpen(v)'
             PROVE  Anchored(v)'
  BY DEF AnchorInv
<1>u. Undisturbed
  BY DisturbedStep
<1>a. watches!IsOpen(v) => Anchored(v)
  BY <1>u DEF AnchorInv
<1>i. /\ \A p \in Callers : calls[p].pc \notin {"register", "touch", "serve", "ack"} =>
           v # calls[p].watch
      /\ \A p \in Callers : /\ calls[p].pc # "resume" => DOMAIN calls[p].made = {}
                            /\ calls[p].pc \notin {"cancel", "resume"} => DOMAIN calls[p].todo = {}
  BY SessionAssumption DEF BaseInv, LocalInv, WatchIDs
<1>1. CASE UNCHANGED vars
  BY <1>1, <1>a DEF vars, hubVars, Anchored, KeptBy, HeldBy, watches!IsOpen
<1>2. CASE Elsewhere
  BY <1>2, <1>a, ElsewhereTable, TypeFacts
  DEF BaseInv, Anchored, KeptBy, HeldBy, watches!IsOpen
<1>3. ASSUME NEW p \in Callers, Light(p) PROVE Anchored(v)'
  BY <1>3, <1>a, <1>i, LightEffect DEF Anchored, KeptBy, HeldBy, watches!IsOpen, LightSessions
<1>4. ASSUME NEW p \in Callers, NEW s \in Sessions, Disconnect(p, s) \/ Close(p, s)
      PROVE  Anchored(v)'
  BY <1>4, <1>a, <1>i, DetachEffect DEF Anchored, KeptBy, HeldBy, watches!IsOpen
<1>5. ASSUME NEW p \in Callers, NEW s \in Sessions, Reconnect(p, s) PROVE Anchored(v)'
  BY <1>5, <1>a, <1>i, ReconnectEffect DEF Anchored, KeptBy, HeldBy, watches!IsOpen
<1>6. ASSUME NEW p \in Callers, NEW s \in Sessions, NEW key \in WatchKeys,
             NEW rev \in StartRevs, OpenWatch(p, s, key, rev)
      PROVE  Anchored(v)'
  <2>1. PICK w \in WatchIDs : OpenFx(p, s, key, rev, w)
    BY <1>6, OpenWatchEffect
  <2> QED
    BY <1>a, <1>i, <2>1 DEF OpenFx, Anchored, KeptBy, HeldBy, watches!IsOpen
<1>7. ASSUME NEW p \in Callers, NEW s \in Sessions, NEW w \in WatchIDs, NEW rev \in 1..MaxRev,
             Ack(p, s, w, rev)
      PROVE  Anchored(v)'
  BY <1>7, <1>a, <1>i, AckRequestEffect DEF AckFx, Anchored, KeptBy, HeldBy, watches!IsOpen
<1>8. ASSUME NEW p \in Callers, NEW w \in WatchIDs, CancelOne(p, w) PROVE Anchored(v)'
  <2>1. v # w /\ watches!IsOpen(v)
    BY <1>8, CancelOneEffect DEF Cancelled
  <2> QED
    BY <1>8, <2>1, <1>a, CancelOneEffect DEF Anchored, KeptBy, HeldBy
<1>9. ASSUME NEW p \in Callers, NEW w \in WatchIDs, ResumeOne(p, w) PROVE Anchored(v)'
  <2>1. ResumeFx(p, w)
    BY <1>9, ResumeOneEffect
  <2>2. ASSUME hub' = hub, calls'[p].made = calls[p].made PROVE Anchored(v)'
    BY <2>1, <2>2, <1>a DEF ResumeFx, Anchored, KeptBy, HeldBy, watches!IsOpen
  <2>3. ASSUME NEW new \in WatchIDs, Reopened(p, w, new) PROVE Anchored(v)'
    BY <2>1, <2>3, <1>a DEF ResumeFx, Reopened, Anchored, KeptBy, HeldBy, watches!IsOpen
  <2> QED
    BY <1>9, <2>2, <2>3, ResumeOneEffect
<1>10. ASSUME NEW p \in Callers, MarkConnected(p) PROVE Anchored(v)'
  <2>1. sessions[calls[p].sid].state # "connected"
    BY <1>10, <1>u, MarkConnectedEffect DEF SerialInv
  <2> QED
    BY <1>10, <2>1, <1>a, <1>i, MarkConnectedEffect DEF Anchored, KeptBy, HeldBy, watches!IsOpen
<1>11. ASSUME NEW p \in Callers, ReplaceMaps(p) PROVE Anchored(v)'
  <2>0. PICK s \in Sessions : s = calls[p].sid
    BY <1>11, ReplaceMapsEffect
  <2>1. /\ sessions[s].state = "connected"
        /\ \A q \in Callers : q # p /\ calls[q].pc = "resume" => calls[q].sid # s
    BY <1>11, <2>0, <1>u, ReplaceMapsEffect DEF SerialInv, Working
  <2> QED
    BY <1>11, <2>0, <2>1, <1>a, <1>i, ReplaceMapsEffect, IdleIsCall
    DEF Anchored, KeptBy, HeldBy, watches!IsOpen
<1>12. ASSUME NEW p \in Callers, RegisterWatch(p) PROVE Anchored(v)'
  <2>1. PICK s \in Sessions, w \in WatchIDs : RegisterFx(p, s, w)
    BY <1>12, RegisterWatchEffect
  <2> QED
    BY <2>1, <1>a DEF RegisterFx, Anchored, KeptBy, HeldBy, watches!IsOpen
<1>13. ASSUME NEW p \in Callers, AckSession(p) PROVE Anchored(v)'
  <2>1. PICK s \in Sessions, w \in WatchIDs : AckSessionFx(p, s, w)
    BY <1>13, AckSessionEffect
  <2> QED
    BY <2>1, <1>a, <1>i, IdleIsCall DEF AckSessionFx, Anchored, KeptBy, HeldBy, watches!IsOpen
<1>14. ASSUME NEW p \in Callers, Leave(p) PROVE Anchored(v)'
  <2>0. PICK w \in WatchIDs : w = calls[p].watch /\ Cancelled(w)
    BY <1>14, LeaveEffect
  <2>1. v # calls[p].watch /\ watches!IsOpen(v)
    BY <2>0 DEF Cancelled
  <2> QED
    BY <1>14, <2>1, <1>a, <1>i, LeaveEffect, IdleIsCall DEF Anchored, KeptBy, HeldBy
<1>15. CASE StaleTick \/ StaleScan \/ StaleNext
  BY <1>15, <1>a, StaleLoopEffect DEF Anchored, KeptBy, HeldBy, watches!IsOpen
<1>16. ASSUME NEW s \in Sessions, StaleClose(s) PROVE Anchored(v)'
  BY <1>16, <1>a, StaleCloseEffect DEF Anchored, KeptBy, HeldBy, watches!IsOpen
<1>17. ASSUME NEW w \in WatchIDs, StaleCancel(w) PROVE Anchored(v)'
  <2>1. v # w /\ watches!IsOpen(v)
    BY <1>17, StaleCancelEffect DEF Cancelled
  <2> QED
    BY <1>17, <2>1, <1>a, StaleCancelEffect DEF Anchored, KeptBy, HeldBy
<1> QED
  BY <1>1, <1>2, <1>3, <1>4, <1>5, <1>6, <1>7, <1>8, <1>9, <1>10, <1>11, <1>12, <1>13, <1>14,
     <1>15, <1>16, <1>17, StepCases

\* No subscription is left open in the hub with nobody to cancel it, unless a
\* session was reconnected while connected or while another call was changing
\* it (session.go:77-163, 201-217).
THEOREM NoLeakCorrect == Spec => []NoLeakedWatch
<1>1. Init => SerialInv /\ AnchorInv
  BY IdleIsCall, SessionAssumption
  DEF Init, watches!Init, SerialInv, AnchorInv, Working, watches!IsOpen, IdleStale
<1>2. AnchorInv => NoLeakedWatch
  BY DEF AnchorInv, Undisturbed, Anchored, KeptBy, HeldBy, NoLeakedWatch, Owned
<1> QED
  BY <1>1, <1>2, SerialStep, AnchorStep, BaseInvariant, PTL DEF Spec

=============================================================================
