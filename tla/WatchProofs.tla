----------------------------- MODULE WatchProofs -----------------------------
(***************************************************************************)
(* Proofs about Watch for every number of subscriptions, keys and          *)
(* revisions, and every capacity.  What the store guarantees is taken from *)
(* StoreProofs: every step of Watch is a step of the store, or leaves the  *)
(* store alone.                                                            *)
(***************************************************************************)
EXTENDS Watch, OrderLemmas, FiniteSetTheorems, TLAPS

SP == INSTANCE StoreProofs WITH Readers <- {}, Streams <- Watches

-----------------------------------------------------------------------------
(* The store below the hub *)

LEMMA StoreAssumptions ==
  /\ SP!LogCapAssumption /\ SP!ChanCapAssumption
  /\ SP!RetainAssumption /\ SP!MaxRevAssumption
BY WatchAssumption
DEF SP!LogCapAssumption, SP!ChanCapAssumption, SP!RetainAssumption, SP!MaxRevAssumption

\* Library operators are the same in every instance.
LEMMA LibraryOperators ==
  \A S : /\ store!Cardinality(S) = SP!Cardinality(S)
         /\ store!Max(S) = SP!Max(S)
         /\ store!Min(S) = SP!Min(S) /\ store!Min(S) = Min(S)
<1>1. \A S : store!Cardinality(S) = SP!Cardinality(S)
  BY DEF store!Cardinality, SP!Cardinality
<1> QED
  BY <1>1 DEF store!Max, SP!Max, store!Min, SP!Min, Min

\* The operators of the store that Watch uses are those StoreProofs is about.
LEMMA StoreOperators ==
  /\ head = SP!head
  /\ store!TypeOK <=> SP!TypeOK
  /\ \A w : store!Pending(w) = SP!Pending(w)
  /\ \A w : store!Subscribed(w) <=> SP!Subscribed(w)
  /\ \A k : store!WritesOf(k) = SP!WritesOf(k)
  /\ \A S : store!Newest(S) = SP!Newest(S)
BY LibraryOperators
DEF head, store!head, SP!head, store!TypeOK, SP!TypeOK, store!Write, SP!Write,
       store!Reader, SP!Reader, store!Stream, SP!Stream, store!Pending, SP!Pending,
       store!Subscribed, SP!Subscribed, store!WritesOf, SP!WritesOf, store!Newest, SP!Newest

LEMMA StoreWrites ==
  ASSUME StoreStep
  PROVE  \/ \E k \in Keys, del \in BOOLEAN : SP!PutOrDelete(k, del)
         \/ SP!ReclaimTick
<1>1. ASSUME NEW k \in Keys, store!Put(k) \/ store!Delete(k)
      PROVE  SP!PutOrDelete(k, FALSE) \/ SP!PutOrDelete(k, TRUE)
  BY <1>1, LibraryOperators
  DEF store!Put, store!Delete, store!PutOrDelete, SP!PutOrDelete, store!head, SP!head,
      store!AppendLog, SP!AppendLog, store!Offer, SP!Offer, store!Subscribed, SP!Subscribed,
      store!Pending, SP!Pending
<1>2. ASSUME store!ReclaimTick PROVE SP!ReclaimTick
  BY <1>2
  DEF store!ReclaimTick, SP!ReclaimTick, store!Reclaim, SP!Reclaim, store!Kept, SP!Kept,
      store!AtOrAboveFloor, SP!AtOrAboveFloor, store!Registered, SP!Registered,
      store!Dropped, SP!Dropped, store!head, SP!head
<1> QED
  BY <1>1, <1>2 DEF StoreStep

LEMMA StoreStreams ==
  ASSUME NEW w \in Watches
  PROVE  /\ store!OpenLiveStream(w) => SP!OpenLiveStream(w)
         /\ \A rev : store!OpenStream(w, rev) => SP!OpenStream(w, rev)
         /\ store!Receive(w) => SP!Receive(w)
         /\ store!CloseStream(w) => SP!CloseStream(w)
         /\ store!Unsubscribe(w) => SP!Unsubscribe(w)
<1>1. store!OpenLiveStream(w) => SP!OpenLiveStream(w)
  BY LibraryOperators
  DEF store!OpenLiveStream, SP!OpenLiveStream, store!NewStream, SP!NewStream,
         store!Snapshot, SP!Snapshot, store!VisibleAt, SP!VisibleAt, store!Newest, SP!Newest,
         store!head, SP!head, store!logVars, SP!logVars
<1>2. ASSUME NEW rev, store!OpenStream(w, rev) PROVE SP!OpenStream(w, rev)
  BY <1>2, LibraryOperators
  DEF store!OpenStream, SP!OpenStream, store!NewStream, SP!NewStream,
         store!Snapshot, SP!Snapshot, store!VisibleAt, SP!VisibleAt, store!Newest, SP!Newest,
         store!head, SP!head, store!logVars, SP!logVars, store!StreamStart, SP!StreamStart,
         store!LogEvents, SP!LogEvents
<1>3. store!Receive(w) => SP!Receive(w)
  BY LibraryOperators
  DEF store!Receive, SP!Receive, store!Pending, SP!Pending, store!logVars, SP!logVars
<1>4. store!CloseStream(w) => SP!CloseStream(w)
  BY DEF store!CloseStream, SP!CloseStream, store!logVars, SP!logVars
<1>5. store!Unsubscribe(w) => SP!Unsubscribe(w)
  BY DEF store!Unsubscribe, SP!Unsubscribe, store!logVars, SP!logVars
<1> QED
  BY <1>1, <1>2, <1>3, <1>4, <1>5

\* The invariants of the store, and its bound.
StoreInv == SP!BaseInv /\ SP!LogWindow /\ SP!SnapInv /\ head <= MaxRev

LEMMA StoreInit == Init => StoreInv
<1> SUFFICES ASSUME Init PROVE StoreInv
  OBVIOUS
<1>1. SP!Init
  BY DEF Init, store!Init, SP!Init
<1>2. SP!BaseInv
  BY <1>1, SP!TypeInit, SP!RecordsInit, StoreAssumptions DEF SP!BaseInv
<1>3. SP!LogWindow /\ head <= MaxRev
  BY <1>1, WatchAssumption DEF SP!Init, SP!LogWindow, SP!head, head, store!head
<1>4. SP!SnapInv
  BY <1>1, SP!SnapInit, StoreAssumptions
<1> QED
  BY <1>2, <1>3, <1>4 DEF StoreInv

LEMMA StoreInvStep ==
  ASSUME StoreInv, [SP!Next]_(SP!vars)
  PROVE  StoreInv'
<1>1. SP!BaseInv' /\ SP!LogWindow' /\ SP!SnapInv'
  BY SP!TypeStep, SP!RecordsStep, SP!LogStep, SP!SnapStep, StoreAssumptions
  DEF StoreInv, SP!BaseInv
<1>2. head' <= MaxRev
  <2>1. written \in Seq(SP!Write) /\ head <= MaxRev
    BY DEF StoreInv, SP!BaseInv, SP!TypeOK
  <2>2. ASSUME NEW k \in Keys, NEW del \in BOOLEAN, SP!PutOrDelete(k, del)
        PROVE  head' <= MaxRev
    BY <2>1, <2>2, WatchAssumption DEF SP!PutOrDelete, SP!head, head, store!head
  <2>3. CASE written' = written
    BY <2>1, <2>3 DEF head, store!head
  <2> QED
    BY <2>2, <2>3
    DEF SP!Next, SP!vars, SP!Put, SP!Delete, SP!BeginRead, SP!CloseReader, SP!Deregister,
        SP!ReclaimTick, SP!Reclaim, SP!OpenStream, SP!OpenLiveStream, SP!Receive,
        SP!CloseStream, SP!Unsubscribe
<1> QED
  BY <1>1, <1>2 DEF StoreInv

-----------------------------------------------------------------------------
(* The inductive invariant *)

LocalType ==
  /\ subs \in [Watches -> Sub]
  /\ \A w \in Watches : IsFiniteSet(subs[w].ch) /\ Cardinality(subs[w].ch) <= SubCap
  /\ loops \in [Watches -> Loop]
  /\ retry \in [Watches -> [Revs -> Retry]]
  /\ acks \in [Watches -> 0..MaxRev]
  /\ got \in [Watches -> Seq(Revs)]
  /\ fails \in 0..MaxFail

NotYet(w) == subs[w].state \in {"unused", "opening", "failed"}

Handling(w) == loops[w].pc \in {"check", "push", "send"}

\* Before a subscription is registered nothing runs for it.
StageInv(w) ==
  /\ NotYet(w) =>
       /\ streams[w].state = "none" /\ streams[w].sent = {}
       /\ loops[w].pc = "none" /\ loops[w].ev = 0
       /\ subs[w].left = {}
       /\ got[w] = << >>
       /\ \A rev \in Revs : retry[w][rev] = "none"
  /\ ~NotYet(w) => streams[w].state # "none"
  /\ subs[w].live /\ subs[w].state = "open" => streams[w].start >= streams[w].opened

\* An event is in one place at a time: what the delivery goroutine has yet to
\* take is above the event it took last, and what was received or is being
\* retried is at or below it, and below it while it is handling that event.
PlaceInv(w) ==
  /\ loops[w].ev <= head
  /\ Handling(w) => loops[w].ev > 0
  /\ \A rev \in subs[w].left :
       rev <= streams[w].start /\ rev > loops[w].ev /\ rev <= head
  /\ streams[w].taken <= loops[w].ev
  /\ \A rev \in store!Pending(w) : rev > loops[w].ev
  /\ \A rev \in Revs :
       rev \in Range(got[w]) \/ retry[w][rev] # "none" =>
         rev <= loops[w].ev /\ rev > subs[w].from /\ Match(w, rev)
  /\ Handling(w) => loops[w].ev \notin Range(got[w]) /\ retry[w][loops[w].ev] = "none"
  /\ \A rev \in Range(got[w]) : retry[w][rev] = "none"
  /\ IsInjective(got[w])
  /\ loops[w].pc \in {"push", "send"} =>
       loops[w].ev > subs[w].from /\ Match(w, loops[w].ev)

\* Retries move the cursor back, never below the start or up to the event that
\* the delivery goroutine is about to check.
CursorInv(w) ==
  /\ subs[w].cursor >= subs[w].from
  /\ subs[w].cursor = subs[w].from \/ subs[w].cursor <= loops[w].ev
  /\ loops[w].pc \in {"check", "push"} =>
       subs[w].cursor = subs[w].from \/ subs[w].cursor < loops[w].ev

\* What was in the snapshot or entered the channel of the stream, and is asked
\* for.
Due(w, rev) ==
  /\ rev \in SnapshotEntries(w) \cup streams[w].sent
  /\ rev > subs[w].from /\ Match(w, rev)

\* Nothing of it is lost while the subscription is open.
FlowInv(w) ==
  subs[w].state = "open" => \A rev \in Revs : Due(w, rev) => Accounted(w, rev)

WatchInv(w) == StageInv(w) /\ PlaceInv(w) /\ CursorInv(w) /\ FlowInv(w)

HubInv == StoreInv /\ LocalType /\ \A w \in Watches : WatchInv(w)

\* Nothing about subscription v changes.
Same(v) ==
  /\ subs'[v] = subs[v] /\ loops'[v] = loops[v] /\ retry'[v] = retry[v]
  /\ acks'[v] = acks[v] /\ got'[v] = got[v] /\ streams'[v] = streams[v]

LEMMA Frame ==
  ASSUME NEW v \in Watches, Same(v), written' = written, WatchInv(v)
  PROVE  WatchInv(v)'
<1>1. StageInv(v)'
  BY DEF Same, WatchInv, StageInv, NotYet
<1>2. PlaceInv(v)'
  BY DEF Same, WatchInv, PlaceInv, Handling, Match, head, store!head, store!Pending
<1>3. CursorInv(v)'
  BY DEF Same, WatchInv, CursorInv
<1>4. FlowInv(v)'
  BY DEF Same, WatchInv, FlowInv, Due, SnapshotEntries, Match, Accounted, store!Pending
<1> QED
  BY <1>1, <1>2, <1>3, <1>4 DEF WatchInv

-----------------------------------------------------------------------------
(* What each operation changes *)

Others(w) == \A v \in Watches : v # w => Same(v)

\* The request of subscription w stays as it is.
Keeps(w) ==
  subs'[w].key = subs[w].key /\ subs'[w].from = subs[w].from /\ subs'[w].live = subs[w].live

LEMMA SubscribeEffect ==
  ASSUME LocalType, NEW w \in Watches, NEW key \in WatchKeys, NEW rev \in StartRevs,
         Subscribe(w, key, rev)
  PROVE  /\ LocalType' /\ Others(w)
         /\ subs[w].state = "unused" /\ subs'[w].state = "opening"
         /\ subs'[w].from = rev /\ subs'[w].cursor = rev
         /\ subs'[w].left = subs[w].left
         /\ UNCHANGED <<written, records, log, logStart, logSize, readers, streams>>
         /\ UNCHANGED <<loops, retry, acks, got>>
<1> DEFINE b == rev >= head
<1>1. /\ subs[w].state = "unused"
      /\ subs' = [subs EXCEPT ![w].state = "opening", ![w].key = key, ![w].from = rev,
                              ![w].cursor = rev, ![w].live = b]
      /\ UNCHANGED <<written, records, log, logStart, logSize, readers, streams>>
      /\ UNCHANGED <<loops, retry, acks, got, fails>>
  BY DEF Subscribe, storeVars
<1>2. b \in BOOLEAN /\ key \in Keys \cup {AnyKey} /\ rev \in 0..MaxRev
  BY WatchAssumption
<1> HIDE DEF b
<1> DEFINE c == [subs[w] EXCEPT !.state = "opening", !.key = key, !.from = rev,
                                !.cursor = rev, !.live = b]
<1>5. subs \in [Watches -> Sub] /\ subs[w] \in Sub
  BY DEF LocalType
<1>6. c \in Sub
  BY <1>2, <1>5 DEF Sub
<1>7. /\ c.state = "opening" /\ c.from = rev /\ c.cursor = rev
      /\ c.left = subs[w].left /\ c.ch = subs[w].ch
  BY <1>5 DEF Sub
<1>8. subs' = [subs EXCEPT ![w] = c]
  BY <1>1
<1> HIDE DEF c
<1>3. /\ subs' \in [Watches -> Sub]
      /\ subs'[w].state = "opening" /\ subs'[w].from = rev /\ subs'[w].cursor = rev
      /\ subs'[w].left = subs[w].left /\ subs'[w].ch = subs[w].ch
      /\ \A v \in Watches : v # w => subs'[v] = subs[v]
  BY <1>5, <1>6, <1>7, <1>8
<1>4. LocalType'
  BY <1>1, <1>3 DEF LocalType
<1> QED
  BY <1>1, <1>3, <1>4 DEF Others, Same

\* Attach, Cancel and the end of Cancel, and a Watch that is refused.
RegistryStep(w) == Attach(w) \/ Cancel(w) \/ CancelPeer(w) \/ OpenFailed(w)

LEMMA RegistryEffect ==
  ASSUME LocalType, NEW w \in Watches, RegistryStep(w)
  PROVE  /\ LocalType' /\ Others(w) /\ Keeps(w)
         /\ subs'[w].left = subs[w].left /\ subs'[w].cursor = subs[w].cursor
         /\ subs'[w].ch = subs[w].ch
         /\ \/ subs[w].state = "open" /\ subs'[w].state = "open" /\ acks' = acks
            \/ subs[w].state = "open" /\ subs'[w].state = "closing" /\ acks'[w] = 0
            \/ subs[w].state = "closing" /\ subs'[w].state = "closed" /\ acks' = acks
            \/ subs[w].state = "opening" /\ subs'[w].state = "failed" /\ acks' = acks
         /\ UNCHANGED <<written, records, log, logStart, logSize, readers, streams>>
         /\ UNCHANGED <<loops, retry, got>>
<1>0. 0 \in 0..MaxRev
  BY WatchAssumption
<1>1. CASE Attach(w)
  <2>1. /\ subs' \in [Watches -> Sub]
        /\ subs[w].state = "open" /\ subs'[w].state = "open" /\ Keeps(w)
        /\ subs'[w].left = subs[w].left /\ subs'[w].cursor = subs[w].cursor
        /\ subs'[w].ch = subs[w].ch
        /\ \A v \in Watches : v # w => subs'[v] = subs[v]
    BY <1>1 DEF Attach, LocalType, Sub, Keeps
  <2>2. /\ UNCHANGED <<written, records, log, logStart, logSize, readers, streams>>
        /\ UNCHANGED <<loops, retry, acks, got, fails>>
    BY <1>1 DEF Attach, storeVars
  <2>3. LocalType'
    BY <2>1, <2>2 DEF LocalType
  <2> QED
    BY <2>1, <2>2, <2>3 DEF Others, Same
<1>2. CASE Cancel(w)
  <2>1. /\ subs' \in [Watches -> Sub]
        /\ subs[w].state = "open" /\ subs'[w].state = "closing" /\ Keeps(w)
        /\ subs'[w].left = subs[w].left /\ subs'[w].cursor = subs[w].cursor
        /\ subs'[w].ch = subs[w].ch
        /\ \A v \in Watches : v # w => subs'[v] = subs[v]
    BY <1>2 DEF Cancel, LocalType, Sub, Keeps
  <2>2. /\ UNCHANGED <<written, records, log, logStart, logSize, readers, streams>>
        /\ UNCHANGED <<loops, retry, got, fails>>
        /\ acks' \in [Watches -> 0..MaxRev] /\ acks'[w] = 0
        /\ \A v \in Watches : v # w => acks'[v] = acks[v]
    BY <1>0, <1>2 DEF Cancel, storeVars, LocalType
  <2>3. LocalType'
    BY <2>1, <2>2 DEF LocalType
  <2> QED
    BY <2>1, <2>2, <2>3 DEF Others, Same
<1>3. CASE CancelPeer(w)
  <2>0. PICK peer \in {"none", "up", "closed"} :
          subs' = [subs EXCEPT ![w].state = "closed", ![w].peer = peer]
    BY <1>3 DEF CancelPeer, LocalType, Sub
  <2>1. /\ subs' \in [Watches -> Sub]
        /\ subs[w].state = "closing" /\ subs'[w].state = "closed" /\ Keeps(w)
        /\ subs'[w].left = subs[w].left /\ subs'[w].cursor = subs[w].cursor
        /\ subs'[w].ch = subs[w].ch
        /\ \A v \in Watches : v # w => subs'[v] = subs[v]
    <3>1. subs \in [Watches -> Sub] /\ subs[w].state = "closing"
      BY <1>3 DEF CancelPeer, LocalType
    <3> DEFINE c == [subs[w] EXCEPT !.state = "closed", !.peer = peer]
    <3>2. c \in Sub
      BY <3>1 DEF Sub
    <3>3. /\ c.state = "closed" /\ c.key = subs[w].key /\ c.from = subs[w].from
          /\ c.live = subs[w].live /\ c.left = subs[w].left /\ c.cursor = subs[w].cursor
          /\ c.ch = subs[w].ch
      BY <3>1 DEF Sub
    <3>4. subs' = [subs EXCEPT ![w] = c]
      BY <2>0
    <3> HIDE DEF c
    <3> QED
      BY <3>1, <3>2, <3>3, <3>4 DEF Keeps
  <2>2. /\ UNCHANGED <<written, records, log, logStart, logSize, readers, streams>>
        /\ UNCHANGED <<loops, retry, acks, got, fails>>
    BY <1>3 DEF CancelPeer, storeVars
  <2>3. LocalType'
    BY <2>1, <2>2 DEF LocalType
  <2> QED
    BY <2>1, <2>2, <2>3 DEF Others, Same
<1>4. CASE OpenFailed(w)
  <2>1. /\ subs' \in [Watches -> Sub]
        /\ subs[w].state = "opening" /\ subs'[w].state = "failed" /\ Keeps(w)
        /\ subs'[w].left = subs[w].left /\ subs'[w].cursor = subs[w].cursor
        /\ subs'[w].ch = subs[w].ch
        /\ \A v \in Watches : v # w => subs'[v] = subs[v]
    BY <1>4 DEF OpenFailed, LocalType, Sub, Keeps
  <2>2. /\ UNCHANGED <<written, records, log, logStart, logSize, readers, streams>>
        /\ UNCHANGED <<loops, retry, acks, got, fails>>
    BY <1>4 DEF OpenFailed, storeVars
  <2>3. LocalType'
    BY <2>1, <2>2 DEF LocalType
  <2> QED
    BY <2>1, <2>2, <2>3 DEF Others, Same
<1> QED
  BY <1>1, <1>2, <1>3, <1>4 DEF RegistryStep

LEMMA AckEffect ==
  ASSUME LocalType, NEW w \in Watches, NEW rev \in AckRevs, Ack(w, rev)
  PROVE  /\ LocalType' /\ Others(w)
         /\ acks'[w] = rev /\ rev > acks[w]
         /\ UNCHANGED <<written, records, log, logStart, logSize, readers, streams>>
         /\ UNCHANGED <<subs, loops, retry, got>>
<1>1. rev \in 0..MaxRev
  BY WatchAssumption
<1>2. /\ UNCHANGED <<written, records, log, logStart, logSize, readers, streams>>
      /\ UNCHANGED <<subs, loops, retry, got, fails>>
      /\ acks' \in [Watches -> 0..MaxRev] /\ acks'[w] = rev /\ rev > acks[w]
      /\ \A v \in Watches : v # w => acks'[v] = acks[v]
  BY <1>1 DEF Ack, storeVars, LocalType
<1>3. LocalType'
  BY <1>2 DEF LocalType
<1> QED
  BY <1>2, <1>3 DEF Others, Same

-----------------------------------------------------------------------------
(* The delivery goroutine *)

\* The types that the steps of subscription w need.
LEMMA WatchTypes ==
  ASSUME HubInv, NEW w \in Watches
  PROVE  /\ head \in Nat /\ head <= MaxRev /\ MaxRev \in Nat
         /\ subs[w] \in Sub /\ loops[w] \in Loop /\ retry[w] \in [Revs -> Retry]
         /\ subs[w].from \in Nat /\ subs[w].cursor \in Nat /\ subs[w].left \subseteq Revs
         /\ loops[w].ev \in Nat /\ loops[w].ev <= MaxRev
         /\ got[w] \in Seq(Revs) /\ Range(got[w]) \subseteq Revs
         /\ acks[w] \in Nat
         /\ streams[w].start \in Nat /\ streams[w].taken \in Nat
         /\ streams[w].sent \subseteq 1..head
         /\ \A rev \in streams[w].sent : rev > streams[w].start
         /\ store!Pending(w) \subseteq streams[w].sent
         /\ Revs \subseteq Nat
<1>1. head \in Nat /\ head <= MaxRev /\ MaxRev \in Nat /\ Revs \subseteq Nat
  <2>1. written \in Seq(SP!Write) /\ head <= MaxRev
    BY DEF HubInv, StoreInv, SP!BaseInv, SP!TypeOK
  <2> QED
    BY <2>1, WatchAssumption DEF head, store!head, Revs
<1>2. /\ subs[w] \in Sub /\ loops[w] \in Loop /\ retry[w] \in [Revs -> Retry]
      /\ got[w] \in Seq(Revs) /\ acks[w] \in 0..MaxRev
  BY DEF HubInv, LocalType
<1>3. /\ subs[w].from \in Nat /\ subs[w].cursor \in Nat /\ subs[w].left \subseteq Revs
      /\ loops[w].ev \in Nat /\ loops[w].ev <= MaxRev /\ acks[w] \in Nat
  BY <1>1, <1>2 DEF Sub, Loop
<1>4. Range(got[w]) \subseteq Revs
  BY <1>2 DEF Range
<1>5. streams[w] \in SP!Stream /\ SP!SnapOK(w) /\ SP!head = head
  BY StoreOperators DEF HubInv, StoreInv, SP!BaseInv, SP!TypeOK, SP!SnapInv
<1>6. /\ streams[w].start \in Nat /\ streams[w].taken \in Nat
      /\ streams[w].sent \subseteq 1..head
      /\ \A rev \in streams[w].sent : rev > streams[w].start
  BY <1>5 DEF SP!Stream, SP!SnapOK
<1>7. store!Pending(w) \subseteq streams[w].sent
  BY DEF store!Pending
<1> QED
  BY <1>1, <1>2, <1>3, <1>4, <1>6, <1>7

\* What a step of w leaves alone when it changes neither its stream nor what
\* was asked for.
LEMMA DueSame ==
  ASSUME NEW w \in Watches, NEW rev, written' = written,
         streams'[w].snap = streams[w].snap, streams'[w].sent = streams[w].sent,
         subs'[w].key = subs[w].key, subs'[w].from = subs[w].from
  PROVE  (Due(w, rev)' <=> Due(w, rev)) /\ (Match(w, rev)' <=> Match(w, rev)) /\ head' = head
BY DEF Due, SnapshotEntries, Match, head, store!head

\* The delivery goroutine moves on without sending.
LEMMA GotoStep ==
  ASSUME HubInv, NEW w \in Watches, NEW pc \in {"ready", "push", "ended"}, Goto(w, pc),
         UNCHANGED <<storeVars, subs, retry, acks, got, fails>>,
         ~NotYet(w),
         pc = "push" => loops[w].pc = "check" /\ ~Skips(w, loops[w].ev),
         \/ subs[w].state # "open"
         \/ ~Handling(w)
         \/ loops[w].pc = "check" /\ (pc = "push" \/ Skips(w, loops[w].ev))
  PROVE  LocalType' /\ WatchInv(w)' /\ Others(w)
<1>1. WatchInv(w) /\ LocalType
  BY DEF HubInv
<1>2. /\ written' = written /\ streams' = streams /\ subs' = subs /\ retry' = retry
      /\ acks' = acks /\ got' = got /\ fails' = fails
  BY DEF storeVars
<1>3. PICK l : l = [loops[w] EXCEPT !.pc = pc]
  OBVIOUS
<1>4. l \in Loop /\ l.pc = pc /\ l.ev = loops[w].ev /\ loops' = [loops EXCEPT ![w] = l]
  BY <1>3, WatchTypes DEF Loop, Goto
<1>5. /\ loops'[w] = l /\ loops' \in [Watches -> Loop]
      /\ \A v \in Watches : v # w => loops'[v] = loops[v]
  BY <1>1, <1>4 DEF LocalType
<1>6. LocalType' /\ Others(w)
  BY <1>1, <1>2, <1>5 DEF LocalType, Others, Same
<1>7. \A rev : (Due(w, rev)' <=> Due(w, rev)) /\ (Match(w, rev)' <=> Match(w, rev)) /\ head' = head
  BY <1>2, DueSame
<1>8. StageInv(w)'
  BY <1>1, <1>2, <1>4, <1>5 DEF WatchInv, StageInv, NotYet
<1>9. PlaceInv(w)'
  <2>1. pc = "push" => loops[w].ev > subs[w].from /\ Match(w, loops[w].ev)
    BY <1>1, WatchTypes DEF WatchInv, CursorInv, Skips
  <2> QED
    BY <1>1, <1>2, <1>4, <1>5, <1>7, <2>1 DEF WatchInv, PlaceInv, Handling, store!Pending
<1>10. CursorInv(w)'
  BY <1>1, <1>2, <1>4, <1>5 DEF WatchInv, CursorInv
<1>11. FlowInv(w)'
  <2> SUFFICES ASSUME subs[w].state = "open", NEW rev \in Revs, Due(w, rev)
               PROVE  Accounted(w, rev)'
    BY <1>2, <1>7 DEF FlowInv
  <2>1. Accounted(w, rev)
    BY <1>1 DEF WatchInv, FlowInv
  <2>2. CASE rev = loops[w].ev /\ Handling(w)
    <3>1. ~Skips(w, rev)
      BY <1>1, WatchTypes, <2>2 DEF WatchInv, CursorInv, Skips, Due, Handling
    <3> QED
      BY <1>4, <1>5, <2>2, <3>1 DEF Accounted
  <2>3. CASE ~(rev = loops[w].ev /\ Handling(w))
    BY <1>2, <2>1, <2>3 DEF Accounted, Handling, store!Pending
  <2> QED
    BY <2>2, <2>3
<1> QED
  BY <1>6, <1>8, <1>9, <1>10, <1>11 DEF WatchInv

LEMMA TakeEntryStep ==
  ASSUME HubInv, NEW w \in Watches, TakeEntry(w)
  PROVE  LocalType' /\ WatchInv(w)' /\ Others(w)
<1>1. WatchInv(w) /\ LocalType
  BY DEF HubInv
<1>2. /\ written' = written /\ streams' = streams /\ retry' = retry
      /\ acks' = acks /\ got' = got /\ fails' = fails
      /\ loops[w].pc = "ready" /\ subs[w].left # {}
  BY DEF TakeEntry, storeVars
<1>3. PICK m : m = Min(subs[w].left)
  OBVIOUS
<1>4. m \in subs[w].left /\ \A x \in subs[w].left : m <= x
  BY <1>2, <1>3, WatchTypes, SmallestExists
<1>5. PICK c : c = [subs[w] EXCEPT !.left = @ \ {m}]
  OBVIOUS
<1>6. PICK l : l = [loops[w] EXCEPT !.pc = "check", !.ev = m]
  OBVIOUS
<1>7. /\ subs' = [subs EXCEPT ![w] = c] /\ loops' = [loops EXCEPT ![w] = l]
  BY <1>3, <1>5, <1>6 DEF TakeEntry
<1>8. /\ c \in Sub /\ c.state = subs[w].state /\ c.key = subs[w].key /\ c.from = subs[w].from
      /\ c.live = subs[w].live /\ c.left = subs[w].left \ {m} /\ c.cursor = subs[w].cursor
      /\ c.ch = subs[w].ch
  BY <1>5, WatchTypes DEF Sub
<1>9. l \in Loop /\ l.pc = "check" /\ l.ev = m
  <2>1. m \in 0..MaxRev /\ loops[w] \in Loop
    BY <1>4, WatchTypes DEF Revs
  <2> QED
    BY <1>6, <2>1 DEF Loop
<1>10. /\ subs'[w] = c /\ loops'[w] = l
       /\ \A v \in Watches : v # w => subs'[v] = subs[v] /\ loops'[v] = loops[v]
       /\ subs' \in [Watches -> Sub] /\ loops' \in [Watches -> Loop]
  BY <1>1, <1>7, <1>8, <1>9 DEF LocalType
<1>11. LocalType' /\ Others(w)
  <2>1. \A v \in Watches : subs'[v].ch = subs[v].ch
    BY <1>8, <1>10
  <2> QED
    BY <1>1, <1>2, <1>10, <2>1 DEF LocalType, Others, Same
<1>12. \A rev : (Due(w, rev)' <=> Due(w, rev)) /\ (Match(w, rev)' <=> Match(w, rev)) /\ head' = head
  BY <1>2, <1>8, <1>10, DueSame
<1>13. /\ ~NotYet(w)
       /\ m \in Nat /\ m > loops[w].ev /\ m <= head /\ m <= streams[w].start /\ m \in Revs
  BY <1>1, <1>2, <1>4, WatchTypes DEF WatchInv, StageInv, PlaceInv, NotYet
<1>14. StageInv(w)'
  BY <1>1, <1>2, <1>8, <1>10, <1>13 DEF WatchInv, StageInv, NotYet
<1>15. PlaceInv(w)'
  <2>1. /\ m <= head /\ m > 0
        /\ \A rev \in c.left : rev <= streams[w].start /\ rev > m /\ rev <= head
    <3>1. \A rev \in subs[w].left : rev \in Nat /\ rev <= streams[w].start /\ rev <= head
      BY <1>1, WatchTypes DEF WatchInv, PlaceInv
    <3>2. loops[w].ev \in Nat
      BY WatchTypes
    <3> QED
      BY <1>4, <1>8, <1>13, <3>1, <3>2
  <2>2. /\ streams[w].taken <= m
        /\ \A rev \in store!Pending(w) : rev > m
    BY <1>1, <1>13, WatchTypes DEF WatchInv, PlaceInv
  <2>3. /\ \A rev \in Revs :
             rev \in Range(got[w]) \/ retry[w][rev] # "none" =>
               rev <= m /\ rev > subs[w].from /\ Match(w, rev)
        /\ m \notin Range(got[w]) /\ retry[w][m] = "none"
    <3>1. \A rev \in Revs :
            rev \in Range(got[w]) \/ retry[w][rev] # "none" =>
              rev <= loops[w].ev /\ rev > subs[w].from /\ Match(w, rev)
      BY <1>1 DEF WatchInv, PlaceInv
    <3>2. /\ loops[w].ev \in Nat /\ m \in Nat /\ m > loops[w].ev /\ m \in Revs
          /\ \A rev \in Revs : rev \in Nat
      BY <1>13, WatchTypes
    <3>3. \A rev \in Revs : rev <= loops[w].ev => rev <= m /\ rev # m
      BY <3>2
    <3> QED
      BY <3>1, <3>2, <3>3
  <2>4. /\ \A rev \in Range(got[w]) : retry[w][rev] = "none"
        /\ IsInjective(got[w])
    BY <1>1 DEF WatchInv, PlaceInv
  <2> QED
    BY <1>2, <1>8, <1>9, <1>10, <1>12, <2>1, <2>2, <2>3, <2>4
    DEF PlaceInv, Handling, store!Pending
<1>16. CursorInv(w)'
  BY <1>1, <1>2, <1>8, <1>9, <1>10, <1>13, WatchTypes DEF WatchInv, CursorInv
<1>17. FlowInv(w)'
  <2> SUFFICES ASSUME subs[w].state = "open", NEW rev \in Revs, Due(w, rev)
               PROVE  Accounted(w, rev)'
    BY <1>8, <1>10, <1>12 DEF FlowInv
  <2>1. Accounted(w, rev)
    BY <1>1 DEF WatchInv, FlowInv
  <2>2. CASE rev = m
    BY <1>9, <1>10, <2>2 DEF Accounted
  <2>3. CASE rev # m
    BY <1>2, <1>8, <1>10, <2>1, <2>3 DEF Accounted, store!Pending
  <2> QED
    BY <2>2, <2>3
<1> QED
  BY <1>11, <1>14, <1>15, <1>16, <1>17 DEF WatchInv

LEMMA TakeEventStep ==
  ASSUME HubInv, NEW w \in Watches, TakeEvent(w)
  PROVE  LocalType' /\ WatchInv(w)' /\ Others(w)
<1>1. WatchInv(w) /\ LocalType
  BY DEF HubInv
<1>2. /\ written' = written /\ subs' = subs /\ retry' = retry
      /\ acks' = acks /\ got' = got /\ fails' = fails
      /\ loops[w].pc = "ready" /\ subs[w].left = {} /\ store!Pending(w) # {}
  BY DEF TakeEvent, store!Receive
<1>3. PICK m : m = Min(store!Pending(w))
  OBVIOUS
<1>4. m \in store!Pending(w) /\ \A x \in store!Pending(w) : m <= x
  <2>1. store!Pending(w) \subseteq Nat
    BY WatchTypes
  <2> QED
    BY <1>2, <1>3, <2>1, SmallestExists
<1>6. PICK l : l = [loops[w] EXCEPT !.pc = "check", !.ev = m]
  OBVIOUS
<1>7. loops' = [loops EXCEPT ![w] = l] /\ streams' = [streams EXCEPT ![w].taken = m]
  BY <1>3, <1>6, LibraryOperators DEF TakeEvent, store!Receive
<1>8. m \in Nat /\ m <= head /\ m > streams[w].taken /\ m > loops[w].ev /\ m \in Revs
      /\ m \in streams[w].sent
  BY <1>1, <1>4, WatchTypes DEF WatchInv, PlaceInv, store!Pending, Revs
<1>9. l \in Loop /\ l.pc = "check" /\ l.ev = m
  <2>1. m \in 0..MaxRev /\ loops[w] \in Loop
    BY <1>8, WatchTypes DEF Revs
  <2> QED
    BY <1>6, <2>1 DEF Loop
<1>10. /\ loops'[w] = l /\ loops' \in [Watches -> Loop]
       /\ \A v \in Watches : v # w => loops'[v] = loops[v]
  BY <1>1, <1>7, <1>9 DEF LocalType
<1>5. /\ streams'[w].state = streams[w].state /\ streams'[w].start = streams[w].start
      /\ streams'[w].opened = streams[w].opened /\ streams'[w].snap = streams[w].snap
      /\ streams'[w].sent = streams[w].sent /\ streams'[w].taken = m
      /\ \A v \in Watches : v # w => streams'[v] = streams[v]
  <2>1. streams \in [Watches -> SP!Stream]
    BY DEF HubInv, StoreInv, SP!BaseInv, SP!TypeOK
  <2> QED
    BY <1>7, <2>1 DEF SP!Stream
<1>11. LocalType' /\ Others(w)
  BY <1>1, <1>2, <1>5, <1>10 DEF LocalType, Others, Same
<1>12. \A rev : (Due(w, rev)' <=> Due(w, rev)) /\ (Match(w, rev)' <=> Match(w, rev)) /\ head' = head
  BY <1>2, <1>5, DueSame
<1>13. store!Pending(w)' = store!Pending(w) \ {m} /\ \A rev \in store!Pending(w)' : rev > m
  <2>1. store!Pending(w)' = {rev \in streams[w].sent : rev > m}
    BY <1>5 DEF store!Pending
  <2>2. \A rev \in streams[w].sent : rev > m <=> rev > streams[w].taken /\ rev # m
    BY <1>4, <1>8, WatchTypes DEF store!Pending
  <2> QED
    BY <2>1, <2>2 DEF store!Pending
<1>14. ~NotYet(w)
  BY <1>1, <1>2 DEF WatchInv, StageInv
<1>15. StageInv(w)'
  BY <1>1, <1>2, <1>5, <1>10, <1>14 DEF WatchInv, StageInv, NotYet
<1>16. PlaceInv(w)'
  <2>3. /\ \A rev \in Revs :
             rev \in Range(got[w]) \/ retry[w][rev] # "none" =>
               rev <= m /\ rev > subs[w].from /\ Match(w, rev)
        /\ m \notin Range(got[w]) /\ retry[w][m] = "none"
    <3>1. \A rev \in Revs :
            rev \in Range(got[w]) \/ retry[w][rev] # "none" =>
              rev <= loops[w].ev /\ rev > subs[w].from /\ Match(w, rev)
      BY <1>1 DEF WatchInv, PlaceInv
    <3>2. /\ loops[w].ev \in Nat /\ m \in Nat /\ m > loops[w].ev /\ m \in Revs
          /\ \A rev \in Revs : rev \in Nat
      BY <1>8, WatchTypes
    <3>3. \A rev \in Revs : rev <= loops[w].ev => rev <= m /\ rev # m
      BY <3>2
    <3> QED
      BY <3>1, <3>2, <3>3
  <2>4. /\ \A rev \in Range(got[w]) : retry[w][rev] = "none"
        /\ IsInjective(got[w])
    BY <1>1 DEF WatchInv, PlaceInv
  <2>5. m > 0 /\ m <= m
    BY <1>8, WatchTypes
  <2> QED
    BY <1>2, <1>5, <1>8, <1>9, <1>10, <1>12, <1>13, <2>3, <2>4, <2>5
    DEF PlaceInv, Handling
<1>17. CursorInv(w)'
  BY <1>1, <1>2, <1>8, <1>9, <1>10, WatchTypes DEF WatchInv, CursorInv
<1>18. FlowInv(w)'
  <2> SUFFICES ASSUME subs[w].state = "open", NEW rev \in Revs, Due(w, rev)
               PROVE  Accounted(w, rev)'
    BY <1>2, <1>12 DEF FlowInv
  <2>1. Accounted(w, rev)
    BY <1>1 DEF WatchInv, FlowInv
  <2>2. CASE rev = m
    BY <1>9, <1>10, <2>2 DEF Accounted
  <2>3. CASE rev # m
    BY <1>2, <1>10, <1>13, <2>1, <2>3 DEF Accounted
  <2> QED
    BY <2>2, <2>3
<1> QED
  BY <1>11, <1>15, <1>16, <1>17, <1>18 DEF WatchInv

\* push moves the cursor up to the event.
LEMMA PushStep ==
  ASSUME HubInv, NEW w \in Watches, Push(w), ~Closed(w)
  PROVE  LocalType' /\ WatchInv(w)' /\ Others(w)
<1>1. WatchInv(w) /\ LocalType
  BY DEF HubInv
<1> DEFINE b == subs[w].peer # "none"
<1>2. /\ written' = written /\ streams' = streams /\ retry' = retry
      /\ acks' = acks /\ got' = got /\ fails' = fails
      /\ loops[w].pc = "push"
      /\ subs' = [subs EXCEPT ![w].cursor = loops[w].ev]
      /\ loops' = [loops EXCEPT ![w].pc = "send", ![w].toPeer = b]
  BY DEF Push, storeVars
<1>3. b \in BOOLEAN
  OBVIOUS
<1> HIDE DEF b
<1>5. PICK c : c = [subs[w] EXCEPT !.cursor = loops[w].ev]
  OBVIOUS
<1>6. PICK l : l = [loops[w] EXCEPT !.pc = "send", !.toPeer = b]
  OBVIOUS
<1>7. /\ subs' = [subs EXCEPT ![w] = c] /\ loops' = [loops EXCEPT ![w] = l]
  BY <1>2, <1>5, <1>6
<1>8. /\ c \in Sub /\ c.state = subs[w].state /\ c.key = subs[w].key /\ c.from = subs[w].from
      /\ c.live = subs[w].live /\ c.left = subs[w].left /\ c.cursor = loops[w].ev
      /\ c.ch = subs[w].ch
  <2>1. loops[w].ev \in 0..MaxRev /\ subs[w] \in Sub
    BY WatchTypes
  <2> QED
    BY <1>5, <2>1 DEF Sub
<1>9. l \in Loop /\ l.pc = "send" /\ l.ev = loops[w].ev
  BY <1>3, <1>6, WatchTypes DEF Loop, Revs
<1>10. /\ subs'[w] = c /\ loops'[w] = l
       /\ \A v \in Watches : v # w => subs'[v] = subs[v] /\ loops'[v] = loops[v]
       /\ subs' \in [Watches -> Sub] /\ loops' \in [Watches -> Loop]
  BY <1>1, <1>7, <1>8, <1>9 DEF LocalType
<1>11. LocalType' /\ Others(w)
  <2>1. \A v \in Watches : subs'[v].ch = subs[v].ch
    BY <1>8, <1>10
  <2> QED
    BY <1>1, <1>2, <1>10, <2>1 DEF LocalType, Others, Same
<1>12. \A rev : (Due(w, rev)' <=> Due(w, rev)) /\ (Match(w, rev)' <=> Match(w, rev)) /\ head' = head
  BY <1>2, <1>8, <1>10, DueSame
<1>13. ~NotYet(w)
  BY <1>1, <1>2 DEF WatchInv, StageInv
<1>14. StageInv(w)'
  BY <1>1, <1>2, <1>8, <1>10, <1>13 DEF WatchInv, StageInv, NotYet
<1>15. PlaceInv(w)'
  BY <1>1, <1>2, <1>8, <1>9, <1>10, <1>12 DEF WatchInv, PlaceInv, Handling, store!Pending
<1>16. CursorInv(w)'
  BY <1>1, <1>2, <1>8, <1>9, <1>10, WatchTypes DEF WatchInv, CursorInv, PlaceInv
<1>17. FlowInv(w)'
  <2> SUFFICES ASSUME subs[w].state = "open", NEW rev \in Revs, Due(w, rev)
               PROVE  Accounted(w, rev)'
    BY <1>8, <1>10, <1>12 DEF FlowInv
  <2>1. Accounted(w, rev)
    BY <1>1 DEF WatchInv, FlowInv
  <2> QED
    BY <1>2, <1>8, <1>9, <1>10, <2>1 DEF Accounted, store!Pending
<1> QED
  BY <1>11, <1>14, <1>15, <1>16, <1>17 DEF WatchInv

-----------------------------------------------------------------------------
(* Sending *)

\* What the peer has received after one more event.
LEMMA AppendEvent ==
  ASSUME NEW S, NEW s \in Seq(S), NEW e \in S
  PROVE  /\ Append(s, e) \in Seq(S)
         /\ Range(Append(s, e)) = Range(s) \cup {e}
         /\ IsInjective(s) /\ e \notin Range(s) => IsInjective(Append(s, e))
<1>1. /\ Append(s, e) \in Seq(S) /\ DOMAIN s = 1..Len(s) /\ Len(s) \in Nat
      /\ DOMAIN Append(s, e) = 1..(Len(s) + 1)
      /\ Append(s, e)[Len(s) + 1] = e
      /\ \A i \in 1..Len(s) : Append(s, e)[i] = s[i]
  OBVIOUS
<1> DEFINE t == Append(s, e)
           n == Len(s)
<1> HIDE DEF t, n
<1>2. /\ DOMAIN s = 1..n /\ n \in Nat /\ DOMAIN t = 1..(n + 1) /\ t[n + 1] = e
      /\ \A i \in 1..n : t[i] = s[i]
  BY <1>1 DEF t, n
<1>3. Range(t) = Range(s) \cup {e}
  <2>1. Range(t) \subseteq Range(s) \cup {e}
    <3> SUFFICES ASSUME NEW i \in 1..(n + 1) PROVE t[i] \in Range(s) \cup {e}
      BY <1>2 DEF Range
    <3>1. i \in 1..n \/ i = n + 1
      BY <1>2
    <3> QED
      BY <1>2, <3>1 DEF Range
  <2>2. Range(s) \subseteq Range(t)
    <3> SUFFICES ASSUME NEW i \in 1..n PROVE s[i] \in Range(t)
      BY <1>2 DEF Range
    <3>1. i \in 1..(n + 1)
      BY <1>2
    <3> QED
      BY <1>2, <3>1 DEF Range
  <2>3. e \in Range(t)
    <3>1. n + 1 \in 1..(n + 1)
      BY <1>2
    <3> QED
      BY <1>2, <3>1 DEF Range
  <2> QED
    BY <2>1, <2>2, <2>3
<1>4. ASSUME IsInjective(s), e \notin Range(s) PROVE IsInjective(t)
  <2> SUFFICES ASSUME NEW i \in 1..(n + 1), NEW j \in 1..(n + 1), t[i] = t[j] PROVE i = j
    BY <1>2 DEF IsInjective
  <2>1. \A k \in 1..n : s[k] # e
    BY <1>2, <1>4 DEF Range
  <2>2. \A k \in 1..(n + 1) : k \in 1..n \/ k = n + 1
    BY <1>2
  <2>3. CASE i \in 1..n /\ j \in 1..n
    BY <1>2, <1>4, <2>3 DEF IsInjective
  <2>4. CASE i = n + 1 \/ j = n + 1
    BY <1>2, <2>1, <2>2, <2>4
  <2> QED
    BY <2>2, <2>3, <2>4
<1> QED
  BY <1>1, <1>3, <1>4 DEF t

LEMMA SentEffect ==
  ASSUME LocalType, NEW w \in Watches, NEW rev \in Revs, Sent(w, rev)
  PROVE  /\ got' \in [Watches -> Seq(Revs)] /\ fails' = fails
         /\ Range(got'[w]) = Range(got[w]) \cup {rev}
         /\ IsInjective(got[w]) /\ rev \notin Range(got[w]) => IsInjective(got'[w])
         /\ \A v \in Watches : v # w => got'[v] = got[v]
<1>1. got \in [Watches -> Seq(Revs)]
  BY DEF LocalType
<1>2. PICK g : g = Append(got[w], rev)
  OBVIOUS
<1>3. got' = [got EXCEPT ![w] = g] /\ fails' = fails
  BY <1>2 DEF Sent
<1>4. PICK s : s = got[w]
  OBVIOUS
<1>5. s \in Seq(Revs)
  BY <1>1, <1>4
<1>6. /\ g \in Seq(Revs) /\ Range(g) = Range(s) \cup {rev}
      /\ IsInjective(s) /\ rev \notin Range(s) => IsInjective(g)
  BY <1>2, <1>4, <1>5, AppendEvent
<1>7. got'[w] = g /\ got' \in [Watches -> Seq(Revs)] /\ \A v \in Watches : v # w => got'[v] = got[v]
  BY <1>1, <1>3, <1>6
<1> QED
  BY <1>3, <1>4, <1>6, <1>7

LEMMA FailedEffect ==
  ASSUME LocalType, NEW w \in Watches, SendFailed(w)
  PROVE  got' = got /\ fails' \in 0..MaxFail
BY WatchAssumption DEF SendFailed, LocalType

LEMMA RetryEffect ==
  ASSUME LocalType, NEW w \in Watches, NEW rev \in Revs, NEW x \in Retry,
         retry' = [retry EXCEPT ![w][rev] = x]
  PROVE  /\ retry' \in [Watches -> [Revs -> Retry]]
         /\ retry'[w][rev] = x
         /\ \A e \in Revs : e # rev => retry'[w][e] = retry[w][e]
         /\ \A v \in Watches : v # w => retry'[v] = retry[v]
BY DEF LocalType

\* The delivery goroutine is done with its event: it went to the channel or to
\* the peer (the sets into and sent), or to a retry (state x).
Done(w, ev, into, sent, x) ==
  /\ into \subseteq {ev} /\ sent \subseteq {ev} /\ x \in Retry
  /\ sent = {ev} => x = "none"
  /\ subs[w].state = "open" => ev \in into \/ ev \in sent \/ x # "none"
  /\ subs' \in [Watches -> Sub]
  /\ \A v \in Watches : IsFiniteSet(subs'[v].ch) /\ Cardinality(subs'[v].ch) <= SubCap
  /\ \A v \in Watches : v # w => subs'[v] = subs[v]
  /\ Keeps(w) /\ subs'[w].state = subs[w].state /\ subs'[w].left = subs[w].left
  /\ subs'[w].cursor = subs[w].cursor /\ subs'[w].ch = subs[w].ch \cup into
  /\ got' \in [Watches -> Seq(Revs)]
  /\ Range(got'[w]) = Range(got[w]) \cup sent /\ IsInjective(got'[w])
  /\ \A v \in Watches : v # w => got'[v] = got[v]
  /\ retry' \in [Watches -> [Revs -> Retry]] /\ retry'[w][ev] = x
  /\ \A e \in Revs : e # ev => retry'[w][e] = retry[w][e]
  /\ \A v \in Watches : v # w => retry'[v] = retry[v]
  /\ acks' = acks /\ fails' \in 0..MaxFail

LEMMA SendDone ==
  ASSUME HubInv, NEW w \in Watches, loops[w].pc = "send", Goto(w, "ready"),
         written' = written, streams' = streams,
         NEW ev, ev = loops[w].ev, NEW into, NEW sent, NEW x, Done(w, ev, into, sent, x)
  PROVE  LocalType' /\ WatchInv(w)' /\ Others(w)
<1> USE DEF Done
<1>1. WatchInv(w) /\ LocalType
  BY DEF HubInv
<1>2. PICK l : l = [loops[w] EXCEPT !.pc = "ready"]
  OBVIOUS
<1>3. l \in Loop /\ l.pc = "ready" /\ l.ev = ev /\ loops' = [loops EXCEPT ![w] = l]
  BY <1>2, WatchTypes DEF Loop, Goto
<1>4. /\ loops'[w] = l /\ loops' \in [Watches -> Loop]
      /\ \A v \in Watches : v # w => loops'[v] = loops[v]
  BY <1>1, <1>3 DEF LocalType
<1>5. LocalType' /\ Others(w)
  BY <1>1, <1>4 DEF LocalType, Others, Same
<1>6. \A rev : (Due(w, rev)' <=> Due(w, rev)) /\ (Match(w, rev)' <=> Match(w, rev)) /\ head' = head
  BY DueSame DEF Keeps
<1>7. ~NotYet(w)
  BY <1>1 DEF WatchInv, StageInv
<1>8. StageInv(w)'
  BY <1>1, <1>7 DEF WatchInv, StageInv, NotYet, Keeps
<1>9. ev \in Nat /\ ev > 0 /\ ev \in Revs /\ ev > subs[w].from /\ Match(w, ev)
  BY <1>1, WatchTypes DEF WatchInv, PlaceInv, Handling, Revs
<1>10. PlaceInv(w)'
  <2>1. /\ ev <= head
        /\ \A rev \in subs[w].left : rev <= streams[w].start /\ rev > ev /\ rev <= head
        /\ streams[w].taken <= ev
        /\ \A rev \in store!Pending(w) : rev > ev
    BY <1>1 DEF WatchInv, PlaceInv
  <2>2. \A rev \in Revs : rev \in Range(got'[w]) \/ retry'[w][rev] # "none" =>
           rev <= ev /\ rev > subs[w].from /\ Match(w, rev)
    <3>1. \A rev \in Revs : rev \in Range(got[w]) \/ retry[w][rev] # "none" =>
             rev <= ev /\ rev > subs[w].from /\ Match(w, rev)
      BY <1>1 DEF WatchInv, PlaceInv
    <3>2. ev <= ev
      BY <1>9
    <3> QED
      BY <1>9, <3>1, <3>2
  <2>3. \A rev \in Range(got'[w]) : retry'[w][rev] = "none"
    <3>1. /\ \A rev \in Range(got[w]) : retry[w][rev] = "none" /\ rev \in Revs
          /\ ev \notin Range(got[w])
      BY <1>1, WatchTypes DEF WatchInv, PlaceInv, Handling
    <3> SUFFICES ASSUME NEW rev \in Range(got'[w]) PROVE retry'[w][rev] = "none"
      OBVIOUS
    <3>2. CASE rev \in Range(got[w])
      BY <3>1, <3>2
    <3>3. CASE rev \in sent
      <4>1. rev = ev /\ sent = {ev}
        BY <3>3
      <4> QED
        BY <4>1
    <3> QED
      BY <3>2, <3>3
  <2> QED
    BY <1>3, <1>4, <1>6, <2>1, <2>2, <2>3 DEF PlaceInv, Handling, Keeps, store!Pending
<1>11. CursorInv(w)'
  BY <1>1, <1>3, <1>4 DEF WatchInv, CursorInv, Keeps
<1>12. FlowInv(w)'
  <2> SUFFICES ASSUME subs[w].state = "open", NEW rev \in Revs, Due(w, rev)
               PROVE  Accounted(w, rev)'
    BY <1>6 DEF FlowInv
  <2>1. Accounted(w, rev)
    BY <1>1 DEF WatchInv, FlowInv
  <2>2. CASE rev = ev
    BY <2>2 DEF Accounted
  <2>3. CASE rev # ev
    BY <2>1, <2>3 DEF Accounted, store!Pending
  <2> QED
    BY <2>2, <2>3
<1> QED
  BY <1>5, <1>8, <1>10, <1>11, <1>12 DEF WatchInv

LEMMA SendToPeerStep ==
  ASSUME HubInv, NEW w \in Watches, SendToPeer(w)
  PROVE  LocalType' /\ WatchInv(w)' /\ Others(w)
<1>1. WatchInv(w) /\ LocalType
  BY DEF HubInv
<1>2. /\ written' = written /\ streams' = streams /\ subs' = subs /\ acks' = acks
      /\ loops[w].pc = "send" /\ Goto(w, "ready")
  BY DEF SendToPeer, storeVars
<1>3. PICK ev : ev = loops[w].ev
  OBVIOUS
<1>4. /\ ev \in Revs /\ ev \notin Range(got[w]) /\ retry[w][ev] = "none" /\ IsInjective(got[w])
  BY <1>1, <1>2, <1>3, WatchTypes DEF WatchInv, PlaceInv, Handling, Revs
<1>5. /\ subs' \in [Watches -> Sub]
      /\ \A v \in Watches : IsFiniteSet(subs'[v].ch) /\ Cardinality(subs'[v].ch) <= SubCap
      /\ \A v \in Watches : v # w => subs'[v] = subs[v]
      /\ Keeps(w) /\ subs'[w].state = subs[w].state /\ subs'[w].left = subs[w].left
      /\ subs'[w].cursor = subs[w].cursor /\ subs'[w].ch = subs[w].ch \cup {}
  BY <1>1, <1>2 DEF LocalType, Keeps
<1>6. CASE Sent(w, loops[w].ev) /\ UNCHANGED retry
  <2>1. /\ got' \in [Watches -> Seq(Revs)] /\ fails' = fails
        /\ Range(got'[w]) = Range(got[w]) \cup {ev}
        /\ IsInjective(got'[w])
        /\ \A v \in Watches : v # w => got'[v] = got[v]
    BY <1>1, <1>3, <1>4, <1>6, SentEffect
  <2>2. /\ retry' \in [Watches -> [Revs -> Retry]] /\ retry'[w][ev] = "none"
        /\ \A e \in Revs : e # ev => retry'[w][e] = retry[w][e]
        /\ \A v \in Watches : v # w => retry'[v] = retry[v]
        /\ fails' \in 0..MaxFail
    BY <1>1, <1>4, <1>6, <2>1 DEF LocalType
  <2>3. "none" \in Retry /\ {ev} \subseteq {ev} /\ {} \subseteq {ev} /\ ev \in {ev}
    BY DEF Retry
  <2>4. Done(w, ev, {}, {ev}, "none")
    BY <1>2, <1>5, <2>1, <2>2, <2>3 DEF Done
  <2> QED
    BY <1>2, <1>3, <2>4, SendDone
<1>7. CASE SendFailed(w) /\ ScheduleRetry(w, loops[w].ev)
  <2>1. got' = got /\ fails' \in 0..MaxFail
    BY <1>1, <1>7, FailedEffect
  <2>2. PICK x : x = IF Closed(w) THEN "none" ELSE "waiting"
    OBVIOUS
  <2>3. x \in Retry /\ (subs[w].state = "open" => x # "none")
    BY <2>2 DEF Retry, Closed
  <2>4. retry' = [retry EXCEPT ![w][ev] = x]
    BY <1>3, <1>7, <2>2 DEF ScheduleRetry
  <2>5. /\ retry' \in [Watches -> [Revs -> Retry]]
        /\ retry'[w][ev] = x
        /\ \A e \in Revs : e # ev => retry'[w][e] = retry[w][e]
        /\ \A v \in Watches : v # w => retry'[v] = retry[v]
    BY <1>1, <1>4, <2>3, <2>4, RetryEffect
  <2>6. /\ got' \in [Watches -> Seq(Revs)] /\ Range(got'[w]) = Range(got[w]) \cup {}
        /\ IsInjective(got'[w]) /\ \A v \in Watches : v # w => got'[v] = got[v]
    BY <1>1, <1>4, <2>1 DEF LocalType
  <2>7. {} \subseteq {ev} /\ {} # {ev}
    OBVIOUS
  <2>8. Done(w, ev, {}, {}, x)
    BY <1>2, <1>5, <2>1, <2>3, <2>5, <2>6, <2>7 DEF Done
  <2> QED
    BY <1>2, <1>3, <2>8, SendDone
<1> QED
  BY <1>6, <1>7 DEF SendToPeer

LEMMA SendToChanStep ==
  ASSUME HubInv, NEW w \in Watches, loops[w].pc = "send", Cardinality(subs[w].ch) < SubCap,
         subs' = [subs EXCEPT ![w].ch = @ \cup {loops[w].ev}], Goto(w, "ready"),
         UNCHANGED <<storeVars, retry, acks, got, fails>>
  PROVE  LocalType' /\ WatchInv(w)' /\ Others(w)
<1>1. WatchInv(w) /\ LocalType
  BY DEF HubInv
<1>2. /\ written' = written /\ streams' = streams /\ acks' = acks
      /\ retry' = retry /\ got' = got /\ fails' = fails
  BY DEF storeVars
<1>3. PICK ev : ev = loops[w].ev
  OBVIOUS
<1>4. /\ ev \in Revs /\ retry[w][ev] = "none" /\ IsInjective(got[w])
  BY <1>1, <1>3, WatchTypes DEF WatchInv, PlaceInv, Handling, Revs
<1>5. PICK c : c = [subs[w] EXCEPT !.ch = @ \cup {ev}]
  OBVIOUS
<1>6. /\ c \in Sub /\ c.state = subs[w].state /\ c.key = subs[w].key /\ c.from = subs[w].from
      /\ c.live = subs[w].live /\ c.left = subs[w].left /\ c.cursor = subs[w].cursor
      /\ c.ch = subs[w].ch \cup {ev}
  BY <1>4, <1>5, WatchTypes DEF Sub
<1>7. IsFiniteSet(c.ch) /\ Cardinality(c.ch) <= SubCap
  <2>1. IsFiniteSet(subs[w].ch)
    BY <1>1 DEF LocalType
  <2>2. PICK S : S = subs[w].ch
    OBVIOUS
  <2>3. /\ IsFiniteSet(S \cup {ev})
        /\ Cardinality(S \cup {ev}) = IF ev \in S THEN Cardinality(S) ELSE Cardinality(S) + 1
        /\ Cardinality(S) \in Nat
    BY <2>1, <2>2, FS_AddElement, FS_CardinalityType
  <2> QED
    BY <1>6, <2>2, <2>3, WatchAssumption
<1>8. /\ subs'[w] = c /\ subs' \in [Watches -> Sub]
      /\ \A v \in Watches : v # w => subs'[v] = subs[v]
  <2>1. subs' = [subs EXCEPT ![w] = c]
    BY <1>3, <1>5
  <2> QED
    BY <1>1, <1>6, <2>1 DEF LocalType
<1>9. /\ \A v \in Watches : IsFiniteSet(subs'[v].ch) /\ Cardinality(subs'[v].ch) <= SubCap
      /\ Keeps(w) /\ subs'[w].state = subs[w].state /\ subs'[w].left = subs[w].left
      /\ subs'[w].cursor = subs[w].cursor /\ subs'[w].ch = subs[w].ch \cup {ev}
  BY <1>1, <1>6, <1>7, <1>8 DEF LocalType, Keeps
<1>10. /\ retry' \in [Watches -> [Revs -> Retry]] /\ retry'[w][ev] = "none"
       /\ \A e \in Revs : e # ev => retry'[w][e] = retry[w][e]
       /\ \A v \in Watches : v # w => retry'[v] = retry[v]
       /\ got' \in [Watches -> Seq(Revs)] /\ Range(got'[w]) = Range(got[w]) \cup {}
       /\ IsInjective(got'[w]) /\ \A v \in Watches : v # w => got'[v] = got[v]
       /\ fails' \in 0..MaxFail
  BY <1>1, <1>2, <1>4 DEF LocalType
<1>11. "none" \in Retry /\ {ev} \subseteq {ev} /\ {} \subseteq {ev} /\ {} # {ev} /\ ev \in {ev}
  BY DEF Retry
<1>12. Done(w, ev, {ev}, {}, "none")
  BY <1>2, <1>8, <1>9, <1>10, <1>11 DEF Done
<1> QED
  BY <1>2, <1>3, <1>12, SendDone

-----------------------------------------------------------------------------
(* Retries *)

\* The retry goroutine of event rev goes to state x; the peer has received the
\* event (sent is not empty), or the cursor has moved back to it, or neither.
Retried(w, rev, sent, x) ==
  /\ retry[w][rev] # "none"
  /\ sent \subseteq {rev}
  /\ x \in Retry /\ (sent = {rev} => x = "none")
  /\ subs[w].state = "open" => x # "none" \/ rev \in sent \/ rev <= acks[w]
  /\ retry' = [retry EXCEPT ![w][rev] = x]
  /\ \/ subs' = subs
     \/ subs' = [subs EXCEPT ![w].cursor = rev]
  /\ \/ sent = {} /\ got' = got /\ fails' \in 0..MaxFail
     \/ sent = {rev} /\ Sent(w, rev)
  /\ UNCHANGED <<storeVars, loops, acks>>

LEMMA RetriedStep ==
  ASSUME HubInv, NEW w \in Watches, NEW rev \in Revs, NEW sent, NEW x, Retried(w, rev, sent, x)
  PROVE  LocalType' /\ WatchInv(w)' /\ Others(w)
<1>1. WatchInv(w) /\ LocalType
  BY DEF HubInv
<1>2. /\ written' = written /\ streams' = streams /\ loops' = loops /\ acks' = acks
      /\ retry[w][rev] # "none" /\ sent \subseteq {rev} /\ x \in Retry
      /\ sent = {rev} => x = "none"
      /\ retry' = [retry EXCEPT ![w][rev] = x]
  BY DEF Retried, storeVars
<1>3. /\ retry' \in [Watches -> [Revs -> Retry]]
      /\ retry'[w][rev] = x
      /\ \A e \in Revs : e # rev => retry'[w][e] = retry[w][e]
      /\ \A v \in Watches : v # w => retry'[v] = retry[v]
  BY <1>1, <1>2, RetryEffect
<1>4. /\ rev \notin Range(got[w]) /\ IsInjective(got[w])
      /\ rev <= loops[w].ev /\ rev > subs[w].from /\ Match(w, rev)
      /\ Handling(w) => rev # loops[w].ev
      /\ ~NotYet(w)
  BY <1>1, <1>2 DEF WatchInv, PlaceInv, StageInv
<1>5. /\ got' \in [Watches -> Seq(Revs)] /\ fails' \in 0..MaxFail
      /\ Range(got'[w]) = Range(got[w]) \cup sent /\ IsInjective(got'[w])
      /\ \A v \in Watches : v # w => got'[v] = got[v]
  <2>1. CASE sent = {} /\ got' = got /\ fails' \in 0..MaxFail
    BY <1>1, <1>4, <2>1 DEF LocalType
  <2>2. CASE sent = {rev} /\ Sent(w, rev)
    <3>1. fails' = fails /\ fails \in 0..MaxFail
      BY <1>1, <2>2 DEF Sent, LocalType
    <3> QED
      BY <1>1, <1>4, <2>2, <3>1, SentEffect
  <2> QED
    BY <2>1, <2>2 DEF Retried
<1>6. /\ subs' \in [Watches -> Sub]
      /\ \A v \in Watches : v # w => subs'[v] = subs[v]
      /\ Keeps(w) /\ subs'[w].state = subs[w].state /\ subs'[w].left = subs[w].left
      /\ subs'[w].ch = subs[w].ch
      /\ subs'[w].cursor = subs[w].cursor \/ subs'[w].cursor = rev
  <2>1. CASE subs' = subs
    BY <1>1, <2>1 DEF LocalType, Keeps
  <2>2. CASE subs' = [subs EXCEPT ![w].cursor = rev]
    <3>1. PICK c : c = [subs[w] EXCEPT !.cursor = rev]
      OBVIOUS
    <3>2. rev \in 0..MaxRev /\ subs[w] \in Sub
      BY WatchTypes DEF Revs
    <3>3. /\ c \in Sub /\ c.state = subs[w].state /\ c.key = subs[w].key
          /\ c.from = subs[w].from /\ c.live = subs[w].live /\ c.left = subs[w].left
          /\ c.cursor = rev /\ c.ch = subs[w].ch
      BY <3>1, <3>2 DEF Sub
    <3>4. subs' = [subs EXCEPT ![w] = c]
      BY <2>2, <3>1
    <3> QED
      BY <1>1, <3>3, <3>4 DEF LocalType, Keeps
  <2> QED
    BY <2>1, <2>2 DEF Retried
<1>7. LocalType' /\ Others(w)
  <2>1. \A v \in Watches : subs'[v].ch = subs[v].ch
    BY <1>6
  <2> QED
    BY <1>1, <1>2, <1>3, <1>5, <1>6, <2>1 DEF LocalType, Others, Same
<1>8. \A e : (Due(w, e)' <=> Due(w, e)) /\ (Match(w, e)' <=> Match(w, e)) /\ head' = head
  BY <1>2, <1>6, DueSame DEF Keeps
<1>9. StageInv(w)'
  BY <1>1, <1>2, <1>4, <1>6 DEF WatchInv, StageInv, NotYet, Keeps
<1>10. PlaceInv(w)'
  <2>1. \A e \in Revs : e \in Range(got'[w]) \/ retry'[w][e] # "none" =>
           e <= loops[w].ev /\ e > subs[w].from /\ Match(w, e)
    <3>1. \A e \in Revs : e \in Range(got[w]) \/ retry[w][e] # "none" =>
             e <= loops[w].ev /\ e > subs[w].from /\ Match(w, e)
      BY <1>1 DEF WatchInv, PlaceInv
    <3> QED
      BY <1>2, <1>3, <1>4, <1>5, <3>1
  <2>2. \A e \in Range(got'[w]) : retry'[w][e] = "none"
    <3>1. \A e \in Range(got[w]) : retry[w][e] = "none" /\ e \in Revs
      BY <1>1, WatchTypes DEF WatchInv, PlaceInv
    <3> SUFFICES ASSUME NEW e \in Range(got'[w]) PROVE retry'[w][e] = "none"
      OBVIOUS
    <3>2. CASE e \in Range(got[w])
      BY <1>3, <1>4, <3>1, <3>2
    <3>3. CASE e \in sent
      <4>1. e = rev /\ sent = {rev}
        BY <1>2, <3>3
      <4> QED
        BY <1>2, <1>3, <4>1
    <3> QED
      BY <1>5, <3>2, <3>3
  <2>3. Handling(w) => loops[w].ev \notin Range(got'[w]) /\ retry'[w][loops[w].ev] = "none"
    <3> SUFFICES ASSUME Handling(w)
                 PROVE  loops[w].ev \notin Range(got'[w]) /\ retry'[w][loops[w].ev] = "none"
      OBVIOUS
    <3>1. /\ loops[w].ev \notin Range(got[w]) /\ retry[w][loops[w].ev] = "none"
          /\ loops[w].ev > 0 /\ loops[w].ev \in Revs
      BY <1>1, WatchTypes DEF WatchInv, PlaceInv, Revs
    <3> QED
      BY <1>2, <1>3, <1>4, <1>5, <3>1
  <2> QED
    BY <1>1, <1>2, <1>5, <1>6, <1>8, <2>1, <2>2, <2>3
    DEF WatchInv, PlaceInv, Handling, Keeps, store!Pending
<1>11. CursorInv(w)'
  <2>1. rev >= subs[w].from /\ (Handling(w) => rev < loops[w].ev)
    BY <1>4, WatchTypes
  <2> QED
    BY <1>1, <1>2, <1>4, <1>6, <2>1 DEF WatchInv, CursorInv, Keeps, Handling
<1>12. FlowInv(w)'
  <2> SUFFICES ASSUME subs[w].state = "open", NEW e \in Revs, Due(w, e)
               PROVE  Accounted(w, e)'
    BY <1>6, <1>8 DEF FlowInv
  <2>1. Accounted(w, e)
    BY <1>1 DEF WatchInv, FlowInv
  <2>2. CASE e = rev
    BY <1>2, <1>3, <1>5, <2>2 DEF Accounted, Retried
  <2>3. CASE e # rev
    BY <1>2, <1>3, <1>5, <1>6, <2>1, <2>3 DEF Accounted, store!Pending
  <2> QED
    BY <2>2, <2>3
<1> QED
  BY <1>7, <1>9, <1>10, <1>11, <1>12 DEF WatchInv

LEMMA RetryStepInv ==
  ASSUME HubInv, NEW w \in Watches, NEW rev \in Revs, RetryStep(w, rev)
  PROVE  LocalType' /\ WatchInv(w)' /\ Others(w) /\ UNCHANGED storeVars
<1>1. LocalType
  BY DEF HubInv
<1>2. fails \in 0..MaxFail
  BY <1>1 DEF LocalType
<1>3. \E sent \in {{}, {rev}}, x \in Retry : Retried(w, rev, sent, x)
  <2>1. CASE RetryWake(w, rev)
    <3>1. PICK x : x = IF Closed(w) THEN "none" ELSE "check"
      OBVIOUS
    <3>2. x \in Retry /\ (subs[w].state = "open" => x # "none")
      BY <3>1 DEF Retry, Closed
    <3>3. Retried(w, rev, {}, x)
      BY <1>2, <2>1, <3>1, <3>2 DEF RetryWake, GotoRetry, Retried
    <3> QED
      BY <3>2, <3>3
  <2>2. CASE RetryCheck(w, rev)
    <3>1. PICK x : x = IF rev <= acks[w] THEN "none" ELSE "push"
      OBVIOUS
    <3>2. x \in Retry /\ (x # "none" \/ rev <= acks[w])
      BY <3>1 DEF Retry
    <3>3. Retried(w, rev, {}, x)
      BY <1>2, <2>2, <3>1, <3>2 DEF RetryCheck, GotoRetry, Retried
    <3> QED
      BY <3>2, <3>3
  <2>3. CASE RetryPush(w, rev)
    <3>1. "none" \in Retry /\ "send" \in Retry
      BY DEF Retry
    <3>2. CASE Closed(w)
      <4>1. Retried(w, rev, {}, "none")
        BY <1>2, <2>3, <3>1, <3>2 DEF RetryPush, GotoRetry, Retried, Closed
      <4> QED
        BY <3>1, <4>1
    <3>3. CASE ~Closed(w)
      <4>1. Retried(w, rev, {}, "send")
        BY <1>2, <2>3, <3>1, <3>3 DEF RetryPush, GotoRetry, Retried
      <4> QED
        BY <3>1, <4>1
    <3> QED
      BY <3>2, <3>3
  <2>4. CASE RetrySend(w, rev)
    <3>1. "none" \in Retry
      BY DEF Retry
    <3>2. CASE Sent(w, rev) /\ GotoRetry(w, rev, "none")
      <4>1. Retried(w, rev, {rev}, "none")
        BY <2>4, <3>1, <3>2 DEF RetrySend, GotoRetry, Retried
      <4> QED
        BY <3>1, <4>1
    <3>3. CASE SendFailed(w) /\ ScheduleRetry(w, rev)
      <4>1. got' = got /\ fails' \in 0..MaxFail
        BY <1>1, <3>3, FailedEffect
      <4>2. PICK x : x = IF Closed(w) THEN "none" ELSE "waiting"
        OBVIOUS
      <4>3. x \in Retry /\ (subs[w].state = "open" => x # "none")
        BY <4>2 DEF Retry, Closed
      <4>4. Retried(w, rev, {}, x)
        BY <2>4, <3>3, <4>1, <4>2, <4>3 DEF RetrySend, ScheduleRetry, Retried
      <4> QED
        BY <4>3, <4>4
    <3> QED
      BY <2>4, <3>2, <3>3 DEF RetrySend
  <2> QED
    BY <2>1, <2>2, <2>3, <2>4 DEF RetryStep
<1>4. PICK sent \in {{}, {rev}}, x \in Retry : Retried(w, rev, sent, x)
  BY <1>3
<1> QED
  BY <1>4, RetriedStep DEF Retried

-----------------------------------------------------------------------------
(* All of LoopStep, and the calls of clients *)

LEMMA LoopStepInv ==
  ASSUME HubInv, NEW w \in Watches, LoopStep(w)
  PROVE  LocalType' /\ WatchInv(w)' /\ Others(w) /\ written' = written
<1>1. WatchInv(w) /\ LocalType
  BY DEF HubInv
<1>2. written' = written
  BY DEF LoopStep, TakeEntry, TakeEvent, StreamEnded, CheckEvent, Push, SendToPeer, SendToChan,
         storeVars, store!Receive
<1>3. loops[w].pc # "none" => ~NotYet(w)
  BY <1>1 DEF WatchInv, StageInv
<1>4. CASE TakeEntry(w)
  BY <1>2, <1>4, TakeEntryStep
<1>5. CASE TakeEvent(w)
  BY <1>2, <1>5, TakeEventStep
<1>6. CASE StreamEnded(w)
  <2>1. /\ Goto(w, "ended") /\ UNCHANGED <<storeVars, subs, retry, acks, got, fails>>
        /\ ~Handling(w) /\ ~NotYet(w)
    BY <1>3, <1>6 DEF StreamEnded, Handling
  <2> QED
    BY <1>2, <2>1, GotoStep
<1>7. CASE CheckEvent(w)
  <2>1. /\ UNCHANGED <<storeVars, subs, retry, acks, got, fails>>
        /\ loops[w].pc = "check" /\ ~NotYet(w)
    BY <1>3, <1>7 DEF CheckEvent
  <2>2. CASE Skips(w, loops[w].ev)
    <3>1. Goto(w, "ready")
      BY <1>7, <2>2 DEF CheckEvent
    <3> QED
      BY <1>2, <2>1, <2>2, <3>1, GotoStep
  <2>3. CASE ~Skips(w, loops[w].ev)
    <3>1. Goto(w, "push")
      BY <1>7, <2>3 DEF CheckEvent
    <3> QED
      BY <1>2, <2>1, <2>3, <3>1, GotoStep
  <2> QED
    BY <2>2, <2>3
<1>8. CASE Push(w)
  <2>1. CASE Closed(w)
    <3>1. /\ Goto(w, "ended") /\ UNCHANGED <<storeVars, subs, retry, acks, got, fails>>
          /\ subs[w].state # "open" /\ ~NotYet(w)
      BY <1>8, <2>1 DEF Push, Closed, NotYet
    <3> QED
      BY <1>2, <3>1, GotoStep
  <2> QED
    BY <1>2, <1>8, <2>1, PushStep
<1>9. CASE SendToPeer(w)
  BY <1>2, <1>9, SendToPeerStep
<1>10. CASE SendToChan(w)
  <2>1. CASE Closed(w) /\ Goto(w, "ended") /\ UNCHANGED subs
    <3>1. /\ Goto(w, "ended") /\ UNCHANGED <<storeVars, subs, retry, acks, got, fails>>
          /\ subs[w].state # "open" /\ ~NotYet(w)
      BY <1>10, <2>1 DEF SendToChan, Closed, NotYet
    <3> QED
      BY <1>2, <3>1, GotoStep
  <2>2. CASE /\ Cardinality(subs[w].ch) < SubCap
             /\ subs' = [subs EXCEPT ![w].ch = @ \cup {loops[w].ev}]
             /\ Goto(w, "ready")
    <3>1. loops[w].pc = "send" /\ UNCHANGED <<storeVars, retry, acks, got, fails>>
      BY <1>10 DEF SendToChan
    <3> QED
      BY <1>2, <2>2, <3>1, SendToChanStep
  <2> QED
    BY <1>10, <2>1, <2>2 DEF SendToChan
<1> QED
  BY <1>4, <1>5, <1>6, <1>7, <1>8, <1>9, <1>10 DEF LoopStep

LEMMA SubscribeInv ==
  ASSUME HubInv, NEW w \in Watches, NEW key \in WatchKeys, NEW rev \in StartRevs,
         Subscribe(w, key, rev)
  PROVE  WatchInv(w)'
<1>1. WatchInv(w) /\ LocalType
  BY DEF HubInv
<1>2. /\ subs[w].state = "unused" /\ subs'[w].state = "opening"
      /\ subs'[w].from = rev /\ subs'[w].cursor = rev /\ subs'[w].left = subs[w].left
      /\ written' = written /\ streams' = streams
      /\ loops' = loops /\ retry' = retry /\ acks' = acks /\ got' = got
  BY <1>1, SubscribeEffect
<1>3. /\ streams[w].state = "none" /\ streams[w].sent = {}
      /\ loops[w].pc = "none" /\ loops[w].ev = 0
      /\ subs[w].left = {} /\ got[w] = << >>
      /\ \A e \in Revs : retry[w][e] = "none"
  BY <1>1, <1>2 DEF WatchInv, StageInv, NotYet
<1>4. StageInv(w)'
  BY <1>2, <1>3 DEF StageInv, NotYet
<1>5. PlaceInv(w)'
  <2>1. Range(got[w]) = {} /\ IsInjective(got[w])
    BY <1>3 DEF Range, IsInjective
  <2>2. head' = head /\ 0 <= head /\ streams[w].taken <= 0
    BY <1>1, <1>2, <1>3, WatchTypes DEF head, store!head, WatchInv, PlaceInv
  <2>3. store!Pending(w)' = {}
    BY <1>2, <1>3 DEF store!Pending
  <2> QED
    BY <1>2, <1>3, <2>1, <2>2, <2>3 DEF PlaceInv, Handling
<1>6. CursorInv(w)'
  BY <1>2, <1>3, WatchAssumption DEF CursorInv
<1>7. FlowInv(w)'
  BY <1>2 DEF FlowInv
<1> QED
  BY <1>4, <1>5, <1>6, <1>7 DEF WatchInv

LEMMA RegistryInv ==
  ASSUME HubInv, NEW w \in Watches, RegistryStep(w)
  PROVE  WatchInv(w)'
<1>1. WatchInv(w) /\ LocalType
  BY DEF HubInv
<1>2. /\ Keeps(w)
      /\ subs'[w].left = subs[w].left /\ subs'[w].cursor = subs[w].cursor
      /\ subs'[w].ch = subs[w].ch
      /\ \/ subs[w].state = "open" /\ subs'[w].state = "open" /\ acks' = acks
         \/ subs[w].state = "open" /\ subs'[w].state = "closing" /\ acks'[w] = 0
         \/ subs[w].state = "closing" /\ subs'[w].state = "closed" /\ acks' = acks
         \/ subs[w].state = "opening" /\ subs'[w].state = "failed" /\ acks' = acks
      /\ written' = written /\ streams' = streams
      /\ loops' = loops /\ retry' = retry /\ got' = got
  BY <1>1, RegistryEffect
<1>3. \A e : (Due(w, e)' <=> Due(w, e)) /\ (Match(w, e)' <=> Match(w, e)) /\ head' = head
  BY <1>2, DueSame DEF Keeps
<1>4. StageInv(w)'
  BY <1>1, <1>2 DEF WatchInv, StageInv, NotYet, Keeps
<1>5. PlaceInv(w)'
  BY <1>1, <1>2, <1>3 DEF WatchInv, PlaceInv, Handling, Keeps, store!Pending
<1>6. CursorInv(w)'
  BY <1>1, <1>2 DEF WatchInv, CursorInv, Keeps
<1>7. FlowInv(w)'
  <2> SUFFICES ASSUME subs'[w].state = "open", NEW e \in Revs, Due(w, e)
               PROVE  Accounted(w, e)'
    BY <1>3 DEF FlowInv
  <2>1. Accounted(w, e) /\ acks' = acks
    BY <1>1, <1>2 DEF WatchInv, FlowInv
  <2> QED
    BY <1>2, <2>1 DEF Accounted, store!Pending
<1> QED
  BY <1>4, <1>5, <1>6, <1>7 DEF WatchInv

LEMMA AckInv ==
  ASSUME HubInv, NEW w \in Watches, NEW rev \in AckRevs, Ack(w, rev)
  PROVE  WatchInv(w)'
<1>1. WatchInv(w) /\ LocalType
  BY DEF HubInv
<1>2. /\ acks'[w] = rev /\ rev > acks[w]
      /\ written' = written /\ streams' = streams /\ subs' = subs
      /\ loops' = loops /\ retry' = retry /\ got' = got
  BY <1>1, AckEffect
<1>3. \A e : (Due(w, e)' <=> Due(w, e)) /\ (Match(w, e)' <=> Match(w, e)) /\ head' = head
  BY <1>2, DueSame
<1>4. StageInv(w)'
  BY <1>1, <1>2 DEF WatchInv, StageInv, NotYet
<1>5. PlaceInv(w)'
  BY <1>1, <1>2, <1>3 DEF WatchInv, PlaceInv, Handling, store!Pending
<1>6. CursorInv(w)'
  BY <1>1, <1>2 DEF WatchInv, CursorInv
<1>7. FlowInv(w)'
  <2> SUFFICES ASSUME subs[w].state = "open", NEW e \in Revs, Due(w, e)
               PROVE  Accounted(w, e)'
    BY <1>2, <1>3 DEF FlowInv
  <2>1. Accounted(w, e)
    BY <1>1, <1>2 DEF WatchInv, FlowInv
  <2>2. e <= acks[w] => e <= acks'[w]
    <3>1. rev \in Nat /\ e \in Nat /\ acks[w] \in Nat
      BY WatchTypes, WatchAssumption DEF Revs
    <3> QED
      BY <1>2, <3>1
  <2> QED
    BY <1>2, <2>1, <2>2 DEF Accounted, store!Pending
<1> QED
  BY <1>4, <1>5, <1>6, <1>7 DEF WatchInv

\* Stream.Close changes no more than the state of the stream.
LEMMA CancelStreamInv ==
  ASSUME HubInv, NEW w \in Watches, CancelStream(w)
  PROVE  LocalType' /\ WatchInv(w)' /\ Others(w) /\ written' = written
<1>1. WatchInv(w) /\ LocalType
  BY DEF HubInv
<1>2. /\ written' = written /\ subs' = subs /\ loops' = loops /\ retry' = retry
      /\ acks' = acks /\ got' = got /\ fails' = fails /\ subs[w].state = "closing"
  BY DEF CancelStream, store!CloseStream, store!Unsubscribe
<1>3. /\ streams'[w].state # "none"
      /\ streams'[w].start = streams[w].start /\ streams'[w].taken = streams[w].taken
      /\ streams'[w].snap = streams[w].snap /\ streams'[w].sent = streams[w].sent
      /\ \A v \in Watches : v # w => streams'[v] = streams[v]
  <2>1. streams \in [Watches -> SP!Stream]
    BY DEF HubInv, StoreInv, SP!BaseInv, SP!TypeOK
  <2> QED
    BY <2>1 DEF CancelStream, store!CloseStream, store!Unsubscribe, SP!Stream
<1>4. LocalType' /\ Others(w)
  BY <1>1, <1>2, <1>3 DEF LocalType, Others, Same
<1>5. \A e : (Due(w, e)' <=> Due(w, e)) /\ (Match(w, e)' <=> Match(w, e)) /\ head' = head
  BY <1>2, <1>3, DueSame
<1>6. StageInv(w)'
  BY <1>1, <1>2, <1>3 DEF WatchInv, StageInv, NotYet
<1>7. PlaceInv(w)'
  BY <1>1, <1>2, <1>3, <1>5 DEF WatchInv, PlaceInv, Handling, store!Pending
<1>8. CursorInv(w)' /\ FlowInv(w)'
  BY <1>1, <1>2 DEF WatchInv, CursorInv, FlowInv
<1> QED
  BY <1>2, <1>4, <1>6, <1>7, <1>8 DEF WatchInv

-----------------------------------------------------------------------------
(* The store and the invariant *)

\* Every step of the hub is a step of the store, or leaves it alone.
LEMMA StoreSteps ==
  ASSUME HubInv, [Next]_vars
  PROVE  [SP!Next]_(SP!vars)
<1>1. CASE UNCHANGED storeVars
  BY <1>1 DEF storeVars, SP!vars
<1>2. CASE StoreStep
  <2>1. ASSUME NEW k \in Keys, NEW del \in BOOLEAN, SP!PutOrDelete(k, del) PROVE SP!Next
    <3>1. del = TRUE \/ del = FALSE
      OBVIOUS
    <3> QED
      BY <2>1, <3>1 DEF SP!Next, SP!Put, SP!Delete
  <2> QED
    BY <1>2, <2>1, StoreWrites DEF SP!Next
<1>3. ASSUME NEW w \in Watches, OpenSub(w) PROVE SP!Next
  <2>1. CASE subs[w].live /\ store!OpenLiveStream(w)
    BY <2>1, StoreStreams DEF SP!Next
  <2>2. CASE store!OpenStream(w, subs[w].from)
    <3>1. SP!OpenStream(w, subs[w].from)
      BY <2>2, StoreStreams
    <3>2. subs[w].from \in 0..SP!head
      BY <3>1, WatchTypes, StoreOperators DEF SP!OpenStream
    <3> QED
      BY <3>1, <3>2 DEF SP!Next
  <2> QED
    BY <1>3, <2>1, <2>2 DEF OpenSub
<1>4. ASSUME NEW w \in Watches, TakeEvent(w) PROVE SP!Next
  BY <1>4, StoreStreams DEF TakeEvent, SP!Next
<1>5. ASSUME NEW w \in Watches, CancelStream(w) PROVE SP!Next
  BY <1>5, StoreStreams DEF CancelStream, SP!Next
<1>6. CASE UNCHANGED vars
  BY <1>1, <1>6 DEF vars
<1>7. ASSUME NEW w \in Watches, NEW key \in WatchKeys, NEW rev \in StartRevs, Subscribe(w, key, rev)
      PROVE  UNCHANGED storeVars
  BY <1>7 DEF Subscribe
<1>8. ASSUME NEW w \in Watches,
             \/ OpenFailed(w) \/ Attach(w) \/ Cancel(w) \/ CancelPeer(w)
             \/ \E rev \in AckRevs : Ack(w, rev)
      PROVE  UNCHANGED storeVars
  BY <1>8 DEF OpenFailed, Attach, Cancel, CancelPeer, Ack
<1>9. ASSUME NEW w \in Watches, NEW rev \in Revs, RetryStep(w, rev)
      PROVE  UNCHANGED storeVars
  BY <1>9 DEF RetryStep, RetryWake, RetryCheck, RetryPush, RetrySend
<1>10. ASSUME NEW w \in Watches, LoopStep(w), ~TakeEvent(w)
       PROVE  UNCHANGED storeVars
  BY <1>10 DEF LoopStep, TakeEntry, StreamEnded, CheckEvent, Push, SendToPeer, SendToChan
<1> QED
  BY <1>1, <1>2, <1>3, <1>4, <1>5, <1>6, <1>7, <1>8, <1>9, <1>10
  DEF Next, OpenStep, CancelStep

\* The new subscription starts with the snapshot of its stream, all of it ahead
\* of the delivery goroutine.
LEMMA OpenSubInv ==
  ASSUME HubInv, StoreInv', NEW w \in Watches, OpenSub(w)
  PROVE  LocalType' /\ WatchInv(w)' /\ Others(w) /\ written' = written
<1>1. WatchInv(w) /\ LocalType
  BY DEF HubInv
<1>2. /\ written' = written /\ retry' = retry /\ acks' = acks /\ got' = got /\ fails' = fails
      /\ subs[w].state = "opening"
      /\ subs' = [subs EXCEPT ![w].state = "open", ![w].left = SnapshotEntries(w)']
      /\ loops' = [loops EXCEPT ![w].pc = "ready"]
  BY DEF OpenSub, StartLoop, store!OpenLiveStream, store!OpenStream
<1>3. /\ streams[w].state = "none" /\ streams[w].sent = {}
      /\ loops[w].pc = "none" /\ loops[w].ev = 0
      /\ subs[w].left = {} /\ got[w] = << >>
      /\ \A e \in Revs : retry[w][e] = "none"
  BY <1>1, <1>2 DEF WatchInv, StageInv, NotYet
<1>4. /\ streams'[w].state = "live" /\ streams'[w].taken = 0
      /\ subs[w].live => streams'[w].start >= streams'[w].opened
      /\ \A v \in Watches : v # w => streams'[v] = streams[v]
  <2>1. streams \in [Watches -> SP!Stream] /\ head \in Nat
    BY WatchTypes DEF HubInv, StoreInv, SP!BaseInv, SP!TypeOK
  <2>2. CASE subs[w].live /\ store!OpenLiveStream(w)
    BY <2>1, <2>2 DEF store!OpenLiveStream, store!NewStream, head
  <2>3. CASE ~subs[w].live /\ store!OpenStream(w, subs[w].from)
    BY <2>1, <2>3 DEF store!OpenStream, store!NewStream
  <2> QED
    BY <2>2, <2>3 DEF OpenSub
<1>5. head' = head /\ head \in Nat /\ head <= MaxRev /\ MaxRev \in Nat
  BY <1>2, WatchTypes DEF head, store!head
<1>6. /\ streams'[w].sent \subseteq 1..head
      /\ \A rev \in SnapshotEntries(w)' :
           rev \in Nat /\ rev > 0 /\ rev <= head /\ rev <= streams'[w].start /\ rev \in Revs
  <2>1. SP!SnapOK(w)' /\ streams'[w] \in SP!Stream /\ SP!head' = head
    <3>1. SP!head' = head'
      BY DEF SP!head, head, store!head
    <3> QED
      BY <1>5, <3>1 DEF StoreInv, SP!BaseInv, SP!TypeOK, SP!SnapInv
  <2>2. /\ streams'[w].sent \subseteq 1..head
        /\ \A k \in Keys : /\ streams'[w].snap[k] <= streams'[w].start
                           /\ streams'[w].snap[k] = 0 \/ streams'[w].snap[k] \in 1..head
    BY <2>1 DEF SP!SnapOK, SP!WritesOf
  <2>3. streams'[w].snap \in [Keys -> Nat]
    BY <2>1 DEF SP!Stream
  <2>4. ASSUME NEW rev \in SnapshotEntries(w)'
        PROVE  rev \in Nat /\ rev > 0 /\ rev <= head /\ rev <= streams'[w].start /\ rev \in Revs
    <3>1. PICK k \in Keys : rev = streams'[w].snap[k]
      BY <2>3, <2>4 DEF SnapshotEntries, Range
    <3>2. rev > 0
      BY <2>4 DEF SnapshotEntries
    <3> QED
      BY <1>5, <2>2, <2>3, <3>1, <3>2 DEF Revs
  <2> QED
    BY <2>2, <2>4
<1>7. PICK E : E = SnapshotEntries(w)'
  OBVIOUS
<1>8. PICK c : c = [subs[w] EXCEPT !.state = "open", !.left = E]
  OBVIOUS
<1>9. PICK l : l = [loops[w] EXCEPT !.pc = "ready"]
  OBVIOUS
<1>10. subs' = [subs EXCEPT ![w] = c] /\ loops' = [loops EXCEPT ![w] = l]
  BY <1>2, <1>7, <1>8, <1>9
<1>11. /\ c \in Sub /\ c.state = "open" /\ c.key = subs[w].key /\ c.from = subs[w].from
       /\ c.live = subs[w].live /\ c.left = E /\ c.cursor = subs[w].cursor
       /\ c.ch = subs[w].ch
  <2>1. E \subseteq Revs /\ subs[w] \in Sub
    BY <1>6, <1>7, WatchTypes
  <2> QED
    BY <1>8, <2>1 DEF Sub
<1>12. l \in Loop /\ l.pc = "ready" /\ l.ev = 0
  BY <1>3, <1>9, WatchTypes DEF Loop
<1>13. /\ subs'[w] = c /\ loops'[w] = l
       /\ \A v \in Watches : v # w => subs'[v] = subs[v] /\ loops'[v] = loops[v]
       /\ subs' \in [Watches -> Sub] /\ loops' \in [Watches -> Loop]
  BY <1>1, <1>10, <1>11, <1>12 DEF LocalType
<1>14. LocalType' /\ Others(w)
  <2>1. \A v \in Watches : subs'[v].ch = subs[v].ch
    BY <1>11, <1>13
  <2> QED
    BY <1>1, <1>2, <1>4, <1>13, <2>1 DEF LocalType, Others, Same
<1>15. StageInv(w)'
  BY <1>4, <1>11, <1>13 DEF StageInv, NotYet
<1>16. PlaceInv(w)'
  <2>1. Range(got[w]) = {} /\ IsInjective(got[w])
    BY <1>3 DEF Range, IsInjective
  <2>2. \A rev \in store!Pending(w)' : rev > 0
    BY <1>4 DEF store!Pending
  <2>3. /\ 0 <= head
        /\ \A rev \in E : rev <= streams'[w].start /\ rev > 0 /\ rev <= head
    BY <1>5, <1>6, <1>7
  <2>4. /\ loops'[w].ev = 0 /\ ~Handling(w)' /\ loops'[w].pc = "ready"
        /\ subs'[w].left = E /\ streams'[w].taken <= 0
    BY <1>4, <1>11, <1>12, <1>13 DEF Handling
  <2>5. /\ Range(got'[w]) = {} /\ IsInjective(got'[w])
        /\ \A e \in Revs : retry'[w][e] = "none"
    BY <1>2, <1>3, <2>1
  <2> QED
    BY <1>5, <2>2, <2>3, <2>4, <2>5 DEF PlaceInv
<1>17. CursorInv(w)'
  BY <1>1, <1>3, <1>11, <1>12, <1>13 DEF WatchInv, CursorInv
<1>18. FlowInv(w)'
  <2> SUFFICES ASSUME NEW rev \in Revs, Due(w, rev)' PROVE Accounted(w, rev)'
    BY DEF FlowInv
  <2>1. CASE rev \in E
    BY <1>11, <1>13, <2>1 DEF Accounted
  <2>2. CASE rev \in streams'[w].sent
    BY <1>4, <2>2 DEF Accounted, store!Pending, Revs
  <2> QED
    BY <1>7, <2>1, <2>2 DEF Due
<1> QED
  BY <1>2, <1>14, <1>15, <1>16, <1>17, <1>18 DEF WatchInv

\* A write is offered to every stream, and enters a channel behind what was
\* offered before.
LEMMA OfferEffect ==
  ASSUME HubInv, NEW k \in Keys, NEW del \in BOOLEAN, SP!PutOrDelete(k, del), NEW v \in Watches
  PROVE  /\ head' = head + 1
         /\ \A rev \in 1..head : written'[rev] = written[rev]
         /\ streams'[v].start = streams[v].start /\ streams'[v].opened = streams[v].opened
         /\ streams'[v].snap = streams[v].snap /\ streams'[v].taken = streams[v].taken
         /\ streams'[v].sent \subseteq streams[v].sent \cup {head + 1}
         /\ streams[v].sent \subseteq streams'[v].sent
         /\ streams'[v].state = "none" <=> streams[v].state = "none"
         /\ streams[v].state = "none" => streams'[v].sent = streams[v].sent
<1>1. written \in Seq(SP!Write) /\ streams \in [Watches -> SP!Stream] /\ SP!head = head
  BY StoreOperators DEF HubInv, StoreInv, SP!BaseInv, SP!TypeOK
<1>2. /\ written' = Append(written, [key |-> k, del |-> del])
      /\ streams' = [s \in Watches |-> SP!Offer(s, head + 1)]
  BY <1>1 DEF SP!PutOrDelete
<1>3. head' = head + 1 /\ \A rev \in 1..head : written'[rev] = written[rev]
  BY <1>1, <1>2 DEF head, store!head, SP!Write
<1>4. streams'[v] = SP!Offer(v, head + 1) /\ streams[v] \in SP!Stream
  BY <1>1, <1>2
<1> QED
  BY <1>3, <1>4 DEF SP!Offer, SP!Subscribed, SP!Stream

LEMMA StoreStepInv ==
  ASSUME HubInv, StoreStep
  PROVE  LocalType' /\ \A v \in Watches : WatchInv(v)'
<1>1. LocalType /\ \A v \in Watches : WatchInv(v)
  BY DEF HubInv
<1>2. /\ subs' = subs /\ loops' = loops /\ retry' = retry
      /\ acks' = acks /\ got' = got /\ fails' = fails
  BY DEF StoreStep
<1>3. LocalType'
  BY <1>1, <1>2 DEF LocalType
<1>4. ASSUME SP!ReclaimTick, NEW v \in Watches PROVE WatchInv(v)'
  <2>1. written' = written /\ streams' = streams
    BY <1>4 DEF SP!ReclaimTick, SP!Reclaim
  <2> QED
    BY <1>1, <1>2, <2>1, Frame DEF Same
<1>5. ASSUME NEW k \in Keys, NEW del \in BOOLEAN, SP!PutOrDelete(k, del), NEW v \in Watches
      PROVE  WatchInv(v)'
  <2>1. /\ head' = head + 1
        /\ \A rev \in 1..head : written'[rev] = written[rev]
        /\ streams'[v].start = streams[v].start /\ streams'[v].opened = streams[v].opened
        /\ streams'[v].snap = streams[v].snap /\ streams'[v].taken = streams[v].taken
        /\ streams'[v].sent \subseteq streams[v].sent \cup {head + 1}
        /\ streams[v].sent \subseteq streams'[v].sent
        /\ streams'[v].state = "none" <=> streams[v].state = "none"
        /\ streams[v].state = "none" => streams'[v].sent = streams[v].sent
    BY <1>5, OfferEffect
  <2>2. WatchInv(v)
    BY <1>1
  <2>3. /\ head \in Nat /\ loops[v].ev \in Nat /\ loops[v].ev <= head
        /\ streams[v].taken \in Nat /\ streams[v].taken <= loops[v].ev
        /\ \A rev \in Revs : rev \in Nat /\ rev > 0
    BY <2>2, WatchTypes DEF WatchInv, PlaceInv, Revs
  <2>4. \A rev \in Revs : rev <= head => (Match(v, rev)' <=> Match(v, rev))
    <3>1. \A rev \in Revs : rev <= head => written'[rev] = written[rev]
      BY <2>1, <2>3
    <3> QED
      BY <1>2, <3>1 DEF Match
  <2>5. store!Pending(v)' \subseteq store!Pending(v) \cup {head + 1}
    BY <2>1 DEF store!Pending
  <2>6. StageInv(v)'
    BY <1>2, <2>1, <2>2 DEF WatchInv, StageInv, NotYet
  <2>7. PlaceInv(v)'
    <3>1. loops[v].ev <= head + 1
      BY <2>3
    <3>2. \A rev \in subs[v].left : rev <= streams[v].start /\ rev > loops[v].ev /\ rev <= head + 1
      <4>1. \A rev \in subs[v].left :
              rev \in Nat /\ rev <= streams[v].start /\ rev > loops[v].ev /\ rev <= head
        BY <2>2, WatchTypes DEF WatchInv, PlaceInv
      <4> QED
        BY <2>3, <4>1
    <3>3. \A rev \in store!Pending(v)' : rev > loops[v].ev
      <4>1. head + 1 > loops[v].ev
        BY <2>3
      <4> QED
        BY <2>2, <2>5, <4>1 DEF WatchInv, PlaceInv
    <3>4. \A rev \in Revs : rev \in Range(got[v]) \/ retry[v][rev] # "none" =>
             rev <= loops[v].ev /\ rev > subs[v].from /\ Match(v, rev)'
      <4>1. \A rev \in Revs : rev \in Range(got[v]) \/ retry[v][rev] # "none" =>
               rev <= loops[v].ev /\ rev <= head /\ rev > subs[v].from /\ Match(v, rev)
        BY <2>2, <2>3 DEF WatchInv, PlaceInv
      <4> QED
        BY <2>4, <4>1
    <3>5. loops[v].pc \in {"push", "send"} =>
            loops[v].ev > subs[v].from /\ Match(v, loops[v].ev)'
      <4>1. loops[v].pc \in {"push", "send"} =>
              loops[v].ev \in Revs /\ loops[v].ev > subs[v].from /\ Match(v, loops[v].ev)
        BY <2>2, <2>3, WatchTypes DEF WatchInv, PlaceInv, Handling, Revs
      <4>2. PICK ev : ev = loops[v].ev
        OBVIOUS
      <4>3. ev \in Revs => (Match(v, ev)' <=> Match(v, ev))
        BY <2>3, <2>4, <4>2
      <4>4. Match(v, ev)' => Match(v, loops[v].ev)'
        BY <1>2, <4>2 DEF Match
      <4> QED
        BY <4>1, <4>2, <4>3, <4>4
    <3>6. /\ Handling(v) => loops[v].ev > 0
          /\ Handling(v) => loops[v].ev \notin Range(got[v]) /\ retry[v][loops[v].ev] = "none"
          /\ \A rev \in Range(got[v]) : retry[v][rev] = "none"
          /\ IsInjective(got[v])
      BY <2>2 DEF WatchInv, PlaceInv
    <3> QED
      BY <1>2, <2>1, <2>3, <3>1, <3>2, <3>3, <3>4, <3>5, <3>6 DEF PlaceInv, Handling
  <2>8. CursorInv(v)'
    BY <1>2, <2>2 DEF WatchInv, CursorInv
  <2>9. FlowInv(v)'
    <3> SUFFICES ASSUME subs[v].state = "open", NEW rev \in Revs, Due(v, rev)'
                 PROVE  Accounted(v, rev)'
      BY <1>2 DEF FlowInv
    <3>1. CASE rev \in streams'[v].sent /\ rev \notin streams[v].sent
      <4>1. rev = head + 1 /\ rev > streams'[v].taken
        BY <2>1, <2>3, <3>1
      <4> QED
        BY <3>1, <4>1 DEF Accounted, store!Pending
    <3>2. CASE rev \notin streams'[v].sent \/ rev \in streams[v].sent
      <4>1. rev <= head
        <5>1. CASE rev \in streams[v].sent
          BY <2>3, <5>1, WatchTypes
        <5>2. CASE rev \in SnapshotEntries(v)'
          <6>1. SP!SnapOK(v) /\ streams[v] \in SP!Stream /\ SP!head = head
            BY StoreOperators DEF HubInv, StoreInv, SP!BaseInv, SP!TypeOK, SP!SnapInv
          <6>2. streams[v].snap \in [Keys -> Nat]
            BY <6>1 DEF SP!Stream
          <6>3. PICK j \in Keys : rev = streams[v].snap[j]
            BY <2>1, <5>2, <6>2 DEF SnapshotEntries, Range
          <6>4. streams[v].snap[j] = 0 \/ streams[v].snap[j] \in 1..head
            BY <6>1 DEF SP!SnapOK, SP!WritesOf
          <6> QED
            BY <2>3, <6>3, <6>4
        <5> QED
          BY <3>2, <5>1, <5>2 DEF Due
      <4>2. written'[rev] = written[rev]
        BY <2>1, <2>3, <4>1
      <4>3. Due(v, rev)
        BY <1>2, <2>1, <3>2, <4>2 DEF Due, SnapshotEntries, Match
      <4>4. Accounted(v, rev)
        BY <2>2, <4>3 DEF WatchInv, FlowInv
      <4> QED
        BY <1>2, <2>1, <4>4 DEF Accounted, store!Pending
    <3> QED
      BY <3>1, <3>2
  <2> QED
    BY <2>6, <2>7, <2>8, <2>9 DEF WatchInv
<1> QED
  BY <1>3, <1>4, <1>5, StoreWrites

LEMMA HubInit == Init => HubInv
<1> SUFFICES ASSUME Init PROVE HubInv
  OBVIOUS
<1>1. StoreInv
  BY StoreInit
<1>2. LocalType
  <2>1. IsFiniteSet({}) /\ Cardinality({}) = 0
    BY FS_EmptySet
  <2>2. \A w \in Watches : subs[w].ch = {}
    BY DEF Init
  <2>3. \A w \in Watches : IsFiniteSet(subs[w].ch) /\ Cardinality(subs[w].ch) <= SubCap
    BY <2>1, <2>2, WatchAssumption
  <2>4. subs \in [Watches -> Sub] /\ loops \in [Watches -> Loop]
    BY WatchAssumption DEF Init, Sub, Loop
  <2>5. /\ retry \in [Watches -> [Revs -> Retry]] /\ acks \in [Watches -> 0..MaxRev]
        /\ got \in [Watches -> Seq(Revs)] /\ fails \in 0..MaxFail
    BY WatchAssumption DEF Init, Retry
  <2> QED
    BY <2>3, <2>4, <2>5 DEF LocalType
<1>3. ASSUME NEW w \in Watches PROVE WatchInv(w)
  <2>1. /\ subs[w].state = "unused" /\ subs[w].from = 0 /\ subs[w].left = {} /\ subs[w].cursor = 0
        /\ loops[w].pc = "none" /\ loops[w].ev = 0 /\ got[w] = << >>
        /\ \A rev \in Revs : retry[w][rev] = "none"
    BY DEF Init
  <2>2. streams[w].state = "none" /\ streams[w].sent = {} /\ streams[w].taken = 0 /\ head = 0
    BY DEF Init, store!Init, head, store!head
  <2>3. Range(got[w]) = {} /\ IsInjective(got[w]) /\ store!Pending(w) = {}
    BY <2>1, <2>2 DEF Range, IsInjective, store!Pending
  <2> QED
    BY <2>1, <2>2, <2>3 DEF WatchInv, StageInv, PlaceInv, CursorInv, FlowInv, NotYet, Handling
<1> QED
  BY <1>1, <1>2, <1>3 DEF HubInv

LEMMA HubStep == HubInv /\ [Next]_vars => HubInv'
<1> SUFFICES ASSUME HubInv, [Next]_vars PROVE HubInv'
  OBVIOUS
<1>1. StoreInv'
  BY StoreSteps, StoreInvStep DEF HubInv
<1> SUFFICES LocalType' /\ \A v \in Watches : WatchInv(v)'
  BY <1>1 DEF HubInv
<1>2. LocalType /\ \A v \in Watches : WatchInv(v)
  BY DEF HubInv
<1>3. ASSUME NEW w \in Watches, WatchInv(w)', Others(w), written' = written
      PROVE  \A v \in Watches : WatchInv(v)'
  BY <1>2, <1>3, Frame DEF Others
<1>4. CASE StoreStep
  BY <1>4, StoreStepInv
<1>5. ASSUME NEW w \in Watches, NEW key \in WatchKeys, NEW rev \in StartRevs, Subscribe(w, key, rev)
      PROVE  LocalType' /\ \A v \in Watches : WatchInv(v)'
  <2>1. LocalType' /\ Others(w) /\ written' = written
    BY <1>2, <1>5, SubscribeEffect
  <2> QED
    BY <1>3, <1>5, <2>1, SubscribeInv
<1>6. ASSUME NEW w \in Watches, RegistryStep(w)
      PROVE  LocalType' /\ \A v \in Watches : WatchInv(v)'
  <2>1. LocalType' /\ Others(w) /\ written' = written
    BY <1>2, <1>6, RegistryEffect
  <2> QED
    BY <1>3, <1>6, <2>1, RegistryInv
<1>7. ASSUME NEW w \in Watches, NEW rev \in AckRevs, Ack(w, rev)
      PROVE  LocalType' /\ \A v \in Watches : WatchInv(v)'
  <2>1. LocalType' /\ Others(w) /\ written' = written
    BY <1>2, <1>7, AckEffect
  <2> QED
    BY <1>3, <1>7, <2>1, AckInv
<1>8. ASSUME NEW w \in Watches, NEW rev \in Revs, RetryStep(w, rev)
      PROVE  LocalType' /\ \A v \in Watches : WatchInv(v)'
  <2>1. LocalType' /\ WatchInv(w)' /\ Others(w) /\ written' = written
    BY <1>8, RetryStepInv DEF storeVars
  <2> QED
    BY <1>3, <2>1
<1>9. ASSUME NEW w \in Watches, OpenSub(w) \/ LoopStep(w) \/ CancelStream(w)
      PROVE  LocalType' /\ \A v \in Watches : WatchInv(v)'
  <2>1. LocalType' /\ WatchInv(w)' /\ Others(w) /\ written' = written
    BY <1>1, <1>9, OpenSubInv, LoopStepInv, CancelStreamInv
  <2> QED
    BY <1>3, <2>1
<1>10. CASE UNCHANGED vars
  <2>1. LocalType'
    BY <1>2, <1>10 DEF LocalType, vars
  <2>2. \A v \in Watches : Same(v) /\ written' = written
    BY <1>10 DEF vars, storeVars, Same
  <2> QED
    BY <1>2, <2>1, <2>2, Frame
<1> QED
  BY <1>4, <1>5, <1>6, <1>7, <1>8, <1>9, <1>10 DEF Next, OpenStep, CancelStep, RegistryStep

LEMMA HubInvariant == Spec => []HubInv
BY HubInit, HubStep, PTL DEF Spec

-----------------------------------------------------------------------------
(* Theorems *)

\* Every variable of the hub has its type for any number of subscriptions, and
\* no subscription's channel is ever filled beyond its capacity
\* (watch.go:203-216).
THEOREM TypeCorrect == Spec => []TypeOK
<1>1. HubInv => TypeOK
  <2> SUFFICES ASSUME HubInv PROVE TypeOK
    OBVIOUS
  <2>1. store!TypeOK
    BY StoreOperators DEF HubInv, StoreInv, SP!BaseInv
  <2> QED
    BY <2>1 DEF HubInv, LocalType, TypeOK
<1> QED
  BY <1>1, HubInvariant, PTL

\* A client gets events of its key, each at most once, however retries, the
\* delivery goroutine and the snapshot interleave and whatever the retries do
\* to the cursor (watch.go:150-252).
THEOREM DeliveredOnceCorrect == Spec => []DeliveredOnce
<1>1. HubInv => DeliveredOnce
  <2> SUFFICES ASSUME HubInv, NEW w \in Watches
               PROVE  /\ IsInjective(got[w])
                      /\ \A rev \in Range(got[w]) :
                           rev <= head /\ Match(w, rev)
    BY DEF DeliveredOnce
  <2>1. PlaceInv(w)
    BY DEF HubInv, WatchInv
  <2>2. ASSUME NEW rev \in Range(got[w])
        PROVE  rev <= head /\ Match(w, rev)
    <3>1. rev \in Revs /\ rev \in Nat /\ loops[w].ev \in Nat /\ head \in Nat
      BY <2>2, WatchTypes
    <3> QED
      BY <2>1, <2>2, <3>1 DEF PlaceInv
  <2> QED
    BY <2>1, <2>2 DEF PlaceInv
<1> QED
  BY <1>1, HubInvariant, PTL

\* What an open subscription is to deliver is what its stream brought it: the
\* snapshot of a stream that asked for no history names the value each key had
\* when it was opened, and a subscribed stream is sent all that follows.
LEMMA OwedIsDue ==
  ASSUME HubInv, SP!StreamInv, NEW w \in Watches, subs[w].state = "open", NEW rev \in Owed(w)
  PROVE  rev \in Revs /\ Due(w, rev)
<1>1. /\ rev \in 1..head /\ rev > subs[w].from /\ Match(w, rev)
      /\ \/ store!Subscribed(w) /\ rev > streams[w].start + 1
         \/ rev \in streams[w].sent
         \/ /\ subs[w].live
            /\ ~written[rev].del
            /\ rev = store!Newest({v \in store!WritesOf(written[rev].key) : v <= streams[w].opened})
  BY DEF Owed
<1>2. head \in Nat /\ head <= MaxRev /\ MaxRev \in Nat /\ streams[w].start \in Nat
  BY WatchTypes
<1>3. rev \in Revs /\ rev \in Nat /\ rev > 0 /\ rev <= head
  BY <1>1, <1>2 DEF Revs
<1>4. CASE store!Subscribed(w) /\ rev > streams[w].start + 1
  <2>1. SP!Subscribed(w) /\ SP!head = head
    BY <1>4, StoreOperators
  <2>2. (streams[w].start + 2)..head \subseteq streams[w].sent
    BY <2>1 DEF SP!StreamInv, SP!NoInnerGap
  <2>3. rev \in (streams[w].start + 2)..head
    BY <1>2, <1>3, <1>4
  <2> QED
    BY <1>1, <1>3, <2>2, <2>3 DEF Due
<1>5. CASE rev \in streams[w].sent
  BY <1>1, <1>3, <1>5 DEF Due
<1>6. CASE /\ subs[w].live
           /\ ~written[rev].del
           /\ rev = store!Newest({v \in store!WritesOf(written[rev].key) : v <= streams[w].opened})
  <2>1. SP!SnapOK(w) /\ streams[w] \in SP!Stream /\ SP!head = head /\ written \in Seq(SP!Write)
    BY StoreOperators DEF HubInv, StoreInv, SP!BaseInv, SP!TypeOK, SP!SnapInv
  <2>2. written[rev] \in SP!Write
    BY <1>1, <2>1 DEF head, store!head
  <2>3. PICK k \in Keys : k = written[rev].key
    BY <2>2 DEF SP!Write
  <2>4. streams[w].state # "none" /\ streams[w].start >= streams[w].opened
    BY <1>6 DEF HubInv, WatchInv, StageInv, NotYet
  <2>5. /\ streams[w].start = streams[w].opened
        /\ \A v \in SP!WritesOf(k) : v <= streams[w].opened => v <= streams[w].snap[k]
        /\ streams[w].snap[k] <= streams[w].start
        /\ streams[w].snap[k] = 0 \/ streams[w].snap[k] \in SP!WritesOf(k)
        /\ streams[w].opened <= head
    BY <2>1, <2>4 DEF SP!SnapOK
  <2>6. streams[w].snap \in [Keys -> Nat] /\ streams[w].opened \in Nat
    BY <2>1 DEF SP!Stream
  <2>7. PICK S : S = {v \in SP!WritesOf(k) : v <= streams[w].opened}
    OBVIOUS
  <2>8. S \subseteq 1..head /\ S \in SUBSET Nat /\ \A v \in S : v <= head
    BY <1>2, <2>1, <2>7 DEF SP!WritesOf
  <2>9. rev = SP!Newest(S)
    BY <1>6, <2>3, <2>7, StoreOperators
  <2>10. S # {} /\ rev \in S /\ \A x \in S : x <= rev
    <3>1. /\ S = {} => SP!Newest(S) = 0
          /\ S # {} => SP!Newest(S) \in S /\ \A x \in S : x <= SP!Newest(S)
      BY <1>2, <2>8, SP!NewestOf, StoreAssumptions
    <3> QED
      BY <1>3, <2>9, <3>1
  <2>11. streams[w].snap[k] = rev
    <3>1. rev <= streams[w].snap[k]
      BY <2>5, <2>7, <2>10
    <3>2. streams[w].snap[k] \in Nat /\ streams[w].snap[k] # 0
      BY <1>3, <2>6, <3>1
    <3>3. streams[w].snap[k] \in S
      BY <2>5, <2>7, <3>2
    <3> QED
      BY <1>3, <2>10, <3>1, <3>2, <3>3
  <2>12. rev \in SnapshotEntries(w)
    BY <1>3, <1>6, <2>6, <2>11 DEF SnapshotEntries, Range
  <2> QED
    BY <1>1, <1>3, <2>12 DEF Due
<1> QED
  BY <1>1, <1>4, <1>5, <1>6

\* No event is lost between the store and the client of an open subscription:
\* whatever sends fail, whatever is written while Watch opens the stream, and
\* however full the channels are, each event owed was received, acknowledged,
\* or is in one place on its way (watch.go:74-83, 158-190, 193-252).  As for the
\* streams below it, the log must keep two revisions behind the head.
THEOREM EventAccountedCorrect ==
  ASSUME Retain >= 2
  PROVE  Spec => []EventAccounted
<1>1. Init => SP!StreamInv
  BY DEF Init, store!Init, SP!StreamInv, SP!NoInnerGap, SP!Subscribed, SP!head
<1>2. HubInv /\ SP!StreamInv /\ [Next]_vars => SP!StreamInv'
  <2> SUFFICES ASSUME HubInv, SP!StreamInv, [Next]_vars PROVE SP!StreamInv'
    OBVIOUS
  <2>1. [SP!Next]_(SP!vars)
    BY StoreSteps
  <2>2. SP!BaseInv /\ SP!LogWindow
    BY DEF HubInv, StoreInv
  <2> QED
    BY <2>1, <2>2, SP!StreamStep, StoreAssumptions
<1>3. HubInv /\ SP!StreamInv => EventAccounted
  <2> SUFFICES ASSUME HubInv, SP!StreamInv, NEW w \in Watches, subs[w].state = "open",
                      NEW rev \in Owed(w)
               PROVE  Accounted(w, rev)
    BY DEF EventAccounted
  <2>1. rev \in Revs /\ Due(w, rev)
    BY OwedIsDue
  <2> QED
    BY <2>1 DEF HubInv, WatchInv, FlowInv
<1> QED
  BY <1>1, <1>2, <1>3, HubInvariant, PTL DEF Spec

-----------------------------------------------------------------------------
(* The registry *)

\* The registry entry of a subscription whose stage, key and start stay.
LEMMA EntryKept ==
  ASSUME NEW v \in Watches, subs'[v].state = subs[v].state,
         subs'[v].key = subs[v].key, subs'[v].from = subs[v].from
  PROVE  hub'[v] = hub[v]
BY DEF hub, Closed

LEMMA HubFunction ==
  /\ hub = [v \in Watches |-> hub[v]]
  /\ hub' = [v \in Watches |-> hub'[v]]
BY DEF hub

\* The goroutines of a subscription never touch its stage, key or start.
LEMMA WorkersKeepRequest ==
  ASSUME LocalType, NEW w \in Watches,
         LoopStep(w) \/ \E rev \in Revs : RetryStep(w, rev)
  PROVE  /\ acks' = acks
         /\ \A v \in Watches : subs'[v].state = subs[v].state /\ subs'[v].key = subs[v].key
                                 /\ subs'[v].from = subs[v].from
<1>1. acks' = acks
  BY DEF LoopStep, TakeEntry, TakeEvent, StreamEnded, CheckEvent, Push, SendToPeer, SendToChan,
         RetryStep, RetryWake, RetryCheck, RetryPush, RetrySend
<1>2. \/ subs' = subs
      \/ \E x : subs' = [subs EXCEPT ![w].left = x]
      \/ \E x : subs' = [subs EXCEPT ![w].cursor = x]
      \/ \E x : subs' = [subs EXCEPT ![w].ch = x]
  <2>1. CASE TakeEntry(w)
    BY <2>1 DEF TakeEntry
  <2>2. CASE SendToChan(w)
    BY <2>2 DEF SendToChan
  <2> QED
    BY <2>1, <2>2
    DEF LoopStep, TakeEvent, StreamEnded, CheckEvent, Push, SendToPeer,
        RetryStep, RetryWake, RetryCheck, RetryPush, RetrySend
<1>3. subs \in [Watches -> Sub]
  BY DEF LocalType
<1> QED
  BY <1>1, <1>2, <1>3 DEF Sub

\* The hub implements the registry of HubSpec, for any number of subscriptions:
\* a subscription is registered once, keeps its key and start, and is cancelled
\* at most once; its acknowledged cursor only advances until then
\* (watch.go:61-141).
THEOREM WatchRefinesHub == Spec => RefinesHubSpec
<1>1. Init => Registry!Init
  BY DEF Init, Registry!Init, hub, Closed
<1>2. HubInv /\ [Next]_vars => [Registry!Next]_(Registry!hubVars)
  <2> SUFFICES ASSUME HubInv, [Next]_vars PROVE [Registry!Next]_(Registry!hubVars)
    OBVIOUS
  <2>1. LocalType /\ subs \in [Watches -> Sub] /\ acks \in [Watches -> 0..MaxRev]
    BY DEF HubInv, LocalType
  <2>2. ASSUME acks' = acks, \A v \in Watches : hub'[v] = hub[v]
        PROVE  UNCHANGED Registry!hubVars
    BY <2>2, HubFunction DEF Registry!hubVars
  <2>3. ASSUME subs' = subs, acks' = acks PROVE UNCHANGED Registry!hubVars
    BY <2>2, <2>3, EntryKept
  <2>4. CASE StoreStep \/ UNCHANGED vars
    BY <2>3, <2>4 DEF StoreStep, vars
  <2>5. ASSUME NEW w \in Watches, NEW key \in WatchKeys, NEW rev \in StartRevs,
               Subscribe(w, key, rev)
        PROVE  UNCHANGED Registry!hubVars
    <3>1. /\ Others(w) /\ acks' = acks
          /\ subs[w].state = "unused" /\ subs'[w].state = "opening"
      BY <2>1, <2>5, SubscribeEffect
    <3>2. hub'[w] = hub[w]
      BY <3>1 DEF hub
    <3>3. \A v \in Watches : v # w => hub'[v] = hub[v]
      BY <3>1, EntryKept DEF Others, Same
    <3> QED
      BY <2>2, <3>1, <3>2, <3>3
  <2>6. ASSUME NEW w \in Watches, RegistryStep(w), ~Cancel(w)
        PROVE  UNCHANGED Registry!hubVars
    <3>1. Others(w) /\ Keeps(w)
      BY <2>1, <2>6, RegistryEffect
    <3>2. /\ acks' = acks
          /\ \/ subs[w].state = "open" /\ subs'[w].state = "open"
             \/ subs[w].state = "closing" /\ subs'[w].state = "closed"
             \/ subs[w].state = "opening" /\ subs'[w].state = "failed"
      <4>1. acks' = acks /\ (subs[w].state # "open" \/ Attach(w))
        BY <2>6 DEF RegistryStep, Attach, CancelPeer, OpenFailed
      <4>2. CASE Attach(w)
        BY <2>1, <4>1, <4>2 DEF Attach, Sub
      <4>3. CASE subs[w].state # "open"
        BY <2>1, <2>6, <4>1, <4>3, RegistryEffect
      <4> QED
        BY <4>1, <4>2, <4>3
    <3>3. hub'[w] = hub[w]
      BY <3>1, <3>2 DEF hub, Keeps, Closed
    <3>4. \A v \in Watches : v # w => hub'[v] = hub[v]
      BY <3>1, EntryKept DEF Others, Same
    <3> QED
      BY <2>2, <3>2, <3>3, <3>4
  <2>7. ASSUME NEW w \in Watches, Cancel(w)
        PROVE  Registry!Cancel(w)
    <3>1. /\ Others(w) /\ Keeps(w) /\ acks'[w] = 0
          /\ subs[w].state = "open" /\ subs'[w].state = "closing"
      <4>1. Others(w) /\ Keeps(w)
        BY <2>1, <2>7, RegistryEffect DEF RegistryStep
      <4>2. acks'[w] = 0 /\ subs[w].state = "open" /\ subs'[w].state = "closing"
        BY <2>1, <2>7 DEF Cancel, Sub
      <4> QED
        BY <4>1, <4>2
    <3>2. acks' = [acks EXCEPT ![w] = 0]
      BY <2>7 DEF Cancel
    <3>3. /\ hub[w] = [state |-> "open", key |-> subs[w].key, from |-> subs[w].from]
          /\ hub'[w] = [state |-> "closed", key |-> subs[w].key, from |-> subs[w].from]
      BY <3>1 DEF hub, Closed, Keeps
    <3>4. hub'[w] = [hub[w] EXCEPT !.state = "closed"]
      BY <3>3
    <3>5. \A v \in Watches : v # w => hub'[v] = hub[v]
      BY <3>1, EntryKept DEF Others, Same
    <3>6. hub' = [hub EXCEPT ![w].state = "closed"]
      BY <3>4, <3>5, HubFunction
    <3> QED
      BY <3>2, <3>3, <3>6 DEF Registry!Cancel, Registry!IsOpen
  <2>8. ASSUME NEW w \in Watches, NEW rev \in AckRevs, Ack(w, rev)
        PROVE  Registry!Ack(w, rev) /\ rev \in 0..MaxRev
    <3>1. /\ subs' = subs /\ acks' = [acks EXCEPT ![w] = rev] /\ rev > acks[w]
      BY <2>8 DEF Ack
    <3>2. \A v \in Watches : hub'[v] = hub[v]
      BY <3>1, EntryKept
    <3>3. hub' = hub
      BY <3>2, HubFunction
    <3>4. acks' = [acks EXCEPT ![w] = IF rev > @ THEN rev ELSE @]
      BY <2>1, <3>1
    <3>5. rev \in 0..MaxRev
      BY WatchAssumption
    <3> QED
      BY <3>3, <3>4, <3>5 DEF Registry!Ack
  <2>9. ASSUME NEW w \in Watches,
               LoopStep(w) \/ \E rev \in Revs : RetryStep(w, rev)
        PROVE  UNCHANGED Registry!hubVars
    BY <2>1, <2>2, <2>9, WorkersKeepRequest, EntryKept
  <2>10. ASSUME NEW w \in Watches, CancelStream(w)
         PROVE  UNCHANGED Registry!hubVars
    BY <2>3, <2>10 DEF CancelStream
  <2>11. ASSUME NEW w \in Watches, OpenSub(w)
         PROVE  Registry!Open(w, subs[w].key, subs[w].from)
    <3>1. /\ subs[w].state = "opening" /\ acks' = acks
          /\ subs' = [subs EXCEPT ![w].state = "open", ![w].left = SnapshotEntries(w)']
      BY <2>11 DEF OpenSub, StartLoop
    <3>2. PICK E : E = SnapshotEntries(w)'
      OBVIOUS
    <3>3. PICK c : c = [subs[w] EXCEPT !.state = "open", !.left = E]
      OBVIOUS
    <3>4. c.state = "open" /\ c.key = subs[w].key /\ c.from = subs[w].from
      BY <2>1, <3>3 DEF Sub
    <3>5. subs' = [subs EXCEPT ![w] = c]
      BY <3>1, <3>2, <3>3
    <3>6. subs'[w] = c /\ \A v \in Watches : v # w => subs'[v] = subs[v]
      BY <2>1, <3>5
    <3>7. /\ hub[w] = [state |-> "unused", key |-> AnyKey, from |-> 0]
          /\ hub'[w] = [state |-> "open", key |-> subs[w].key, from |-> subs[w].from]
      BY <3>1, <3>4, <3>6 DEF hub, Closed
    <3>8. \A v \in Watches : v # w => hub'[v] = hub[v]
      BY <3>6, EntryKept
    <3>9. hub' = [hub EXCEPT ![w] = [state |-> "open", key |-> subs[w].key, from |-> subs[w].from]]
      BY <3>7, <3>8, HubFunction
    <3> QED
      BY <3>1, <3>7, <3>9 DEF Registry!Open, Registry!Unused
  <2>12. ASSUME NEW w \in Watches, OpenSub(w) PROVE Registry!Next
    <3>1. subs[w].key \in Keys \cup {AnyKey} /\ subs[w].from \in 0..MaxRev
      BY <2>1 DEF Sub
    <3> QED
      BY <2>11, <2>12, <3>1 DEF Registry!Next
  <2>13. ASSUME NEW w \in Watches, Cancel(w) \/ \E rev \in AckRevs : Ack(w, rev)
         PROVE  Registry!Next
    BY <2>7, <2>8, <2>13 DEF Registry!Next
  <2> QED
    BY <2>4, <2>5, <2>6, <2>9, <2>10, <2>12, <2>13
    DEF Next, OpenStep, CancelStep, RegistryStep
<1> QED
  BY <1>1, <1>2, HubInvariant, PTL DEF Spec, RefinesHubSpec, Registry!Spec
=============================================================================
