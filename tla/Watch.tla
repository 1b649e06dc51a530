-------------------------------- MODULE Watch --------------------------------
(***************************************************************************)
(* The watch hub of internal/watch on top of the store: subscribing, the   *)
(* delivery goroutine of every subscription, the peer that events are sent *)
(* through once one is attached, retries of failed sends, acknowledgements *)
(* and cancellation.                                                       *)
(*                                                                         *)
(* An event is named by its revision.  w.mu is held through Watch, which   *)
(* reads the head and opens a stream in two regions of the store; a        *)
(* delivery goroutine and its retry goroutines synchronise on sub.mu one   *)
(* region at a time.  sub.closed is read under retryMu and written under   *)
(* sub.mu, a race without effect: a retry goroutine started by a stale     *)
(* read ends at the closed done channel.  The server's context ends only   *)
(* with the process and is left out.                                       *)
(***************************************************************************)
EXTENDS Naturals, Sequences, FiniteSets, FiniteSetsExt, Functions

CONSTANTS
  Keys, LogCap, ChanCap, Retain, Slack, MaxRev,   \* of Store
  Watches,   \* subscription ids
  AnyKey,    \* the empty key, which matches every event
  SubCap,    \* capacity of a subscription's own channel (256)
  WatchKeys, \* keys clients subscribe to
  StartRevs, \* revisions they start from
  AckRevs,   \* revisions they acknowledge
  MaxFail    \* bound: sends that fail while the peer is open

ASSUME WatchAssumption ==
  /\ LogCap \in Nat \ {0} /\ ChanCap \in Nat \ {0}
  /\ Retain \in Nat /\ Slack \in Nat /\ MaxRev \in Nat
  /\ AnyKey \notin Keys
  /\ WatchKeys \subseteq Keys \cup {AnyKey}
  /\ StartRevs \subseteq 0..MaxRev
  /\ AckRevs \subseteq 1..MaxRev
  /\ SubCap \in Nat
  /\ MaxFail \in Nat

VARIABLES
  written, records, log, logStart, logSize, readers, streams,   \* of Store
  subs,      \* subs[w]: the subscription
  loops,     \* loops[w]: the delivery goroutine of w
  retry,     \* retry[w][rev]: the retry goroutine of event rev
  acks,      \* acks[w]: the acknowledged cursor
  got,       \* got[w]: the events the peer received, in order
  fails      \* failed sends so far

store == INSTANCE Store WITH Readers <- {}, Streams <- Watches

storeVars == <<written, records, log, logStart, logSize, readers, streams>>
vars == <<storeVars, subs, loops, retry, acks, got, fails>>

-----------------------------------------------------------------------------
(* Types and helpers *)

Revs == 1..MaxRev

\* "opening": Watch has compared startRev with the head; "closing": Cancel
\* has left w.mu and is closing the stream and the peer.
Sub == [state : {"unused", "opening", "failed", "open", "closing", "closed"},
        key : Keys \cup {AnyKey},
        from : 0..MaxRev,              \* startRev
        live : BOOLEAN,                \* startRev was at or above the head
        left : SUBSET Revs,            \* snapshot entries not yet looked at
        cursor : 0..MaxRev,
        peer : {"none", "up", "closed"},
        ch : SUBSET Revs]              \* events in the subscription's channel

\* toPeer: a peer was attached when push read it.
Loop == [pc : {"none", "ready", "check", "push", "send", "ended"},
         ev : 0..MaxRev, toPeer : BOOLEAN]

Retry == {"none", "waiting", "check", "push", "send"}

head == store!head

\* Event.Match
Match(w, rev) == subs[w].key = AnyKey \/ written[rev].key = subs[w].key

Closed(w) == subs[w].state \in {"closing", "closed"}

\* w.mu is held by a call of Watch.
HubLocked == \E w \in Watches : subs[w].state = "opening"

\* The revisions of the live entries of a stream's snapshot (snapshotEntries);
\* they are delivered in revision order.
SnapshotEntries(w) ==
  {rev \in Range(streams[w].snap) : rev > 0 /\ ~written[rev].del}

-----------------------------------------------------------------------------
(* Watch, Attach, Ack *)

\* startRev is compared with the head.
Subscribe(w, key, rev) ==
  /\ ~HubLocked
  /\ subs[w].state = "unused"
  /\ subs' = [subs EXCEPT ![w].state = "opening", ![w].key = key, ![w].from = rev,
                          ![w].cursor = rev, ![w].live = (rev >= head)]
  /\ UNCHANGED <<storeVars, loops, retry, acks, got, fails>>

\* Mutant of StartLoop: the snapshot of the stream is not looked at.
StartLoopNoSnapshot(w) ==
  /\ subs' = [subs EXCEPT ![w].state = "open"]
  /\ loops' = [loops EXCEPT ![w].pc = "ready"]

\* The subscription is registered and its delivery goroutine started.
StartLoop(w) ==
  /\ subs' = [subs EXCEPT ![w].state = "open", ![w].left = SnapshotEntries(w)']
  /\ loops' = [loops EXCEPT ![w].pc = "ready"]

\* The stream is opened; writes may have happened since the comparison.
OpenSub(w) ==
  /\ subs[w].state = "opening"
  /\ \/ subs[w].live /\ store!OpenLiveStream(w)
     \/ ~subs[w].live /\ store!OpenStream(w, subs[w].from)
  /\ StartLoop(w)
  /\ UNCHANGED <<retry, acks, got, fails>>

\* OpenStream refuses a replay that does not fit; Watch returns the error.
OpenFailed(w) ==
  /\ subs[w].state = "opening"
  /\ ~subs[w].live
  /\ Cardinality(store!LogEvents(store!StreamStart(subs[w].from))) > ChanCap
  /\ subs' = [subs EXCEPT ![w].state = "failed"]
  /\ UNCHANGED <<storeVars, loops, retry, acks, got, fails>>

Attach(w) ==
  /\ ~HubLocked
  /\ subs[w].state = "open"
  /\ subs[w].peer = "none"
  /\ subs' = [subs EXCEPT ![w].peer = "up"]
  /\ UNCHANGED <<storeVars, loops, retry, acks, got, fails>>

\* Any revision is accepted, for any id.
Ack(w, rev) ==
  /\ ~HubLocked
  /\ rev > acks[w]
  /\ acks' = [acks EXCEPT ![w] = rev]
  /\ UNCHANGED <<storeVars, subs, loops, retry, got, fails>>

-----------------------------------------------------------------------------
(* Cancel *)

\* Mutant of Cancel: the acknowledged cursor stays behind.
CancelKeepsAck(w) ==
  /\ ~HubLocked
  /\ subs[w].state = "open"
  /\ subs' = [subs EXCEPT ![w].state = "closing"]
  /\ UNCHANGED <<storeVars, loops, retry, acks, got, fails>>

Cancel(w) ==
  /\ ~HubLocked
  /\ subs[w].state = "open"
  /\ subs' = [subs EXCEPT ![w].state = "closing"]
  /\ acks' = [acks EXCEPT ![w] = 0]
  /\ UNCHANGED <<storeVars, loops, retry, got, fails>>

\* Mutant of CancelStream: Close returns after its first region.
CancelHalfStream(w) ==
  /\ subs[w].state = "closing"
  /\ store!CloseStream(w)
  /\ UNCHANGED <<subs, loops, retry, acks, got, fails>>

\* Stream.Close, in its two regions.
CancelStream(w) ==
  /\ subs[w].state = "closing"
  /\ store!CloseStream(w) \/ store!Unsubscribe(w)
  /\ UNCHANGED <<subs, loops, retry, acks, got, fails>>

\* Stream.Close has returned, at once for a dropped stream; the peer is closed.
CancelPeer(w) ==
  /\ subs[w].state = "closing"
  /\ streams[w].state \in {"closed", "dropped"}
  /\ subs' = [subs EXCEPT ![w].state = "closed",
                          ![w].peer = IF @ = "up" THEN "closed" ELSE @]
  /\ UNCHANGED <<storeVars, loops, retry, acks, got, fails>>

-----------------------------------------------------------------------------
(* Sending, in the delivery goroutine and in a retry *)

\* peer.Send succeeds.
Sent(w, rev) ==
  /\ subs[w].peer = "up"
  /\ got' = [got EXCEPT ![w] = Append(@, rev)]
  /\ UNCHANGED fails

\* peer.Send fails: the peer is closed or the client cannot be written to.
SendFailed(w) ==
  /\ \/ subs[w].peer = "closed" /\ UNCHANGED fails
     \/ fails < MaxFail /\ fails' = fails + 1
  /\ UNCHANGED got

\* scheduleRetry
ScheduleRetry(w, rev) ==
  retry' = [retry EXCEPT ![w][rev] = IF Closed(w) THEN "none" ELSE "waiting"]

-----------------------------------------------------------------------------
(* The delivery goroutine *)

Goto(w, pc) == loops' = [loops EXCEPT ![w].pc = pc]

\* The next snapshot entry, and after them the next event of the stream.
TakeEntry(w) ==
  /\ loops[w].pc = "ready"
  /\ subs[w].left # {}
  /\ subs' = [subs EXCEPT ![w].left = @ \ {Min(@)}]
  /\ loops' = [loops EXCEPT ![w].pc = "check", ![w].ev = Min(subs[w].left)]
  /\ UNCHANGED <<storeVars, retry, acks, got, fails>>

TakeEvent(w) ==
  /\ loops[w].pc = "ready"
  /\ subs[w].left = {}
  /\ store!Receive(w)
  /\ loops' = [loops EXCEPT ![w].pc = "check", ![w].ev = Min(store!Pending(w))]
  /\ UNCHANGED <<subs, retry, acks, got, fails>>

\* A closed channel that has been drained ends the loop, which closes sub.ch.
StreamEnded(w) ==
  /\ loops[w].pc = "ready"
  /\ subs[w].left = {}
  /\ store!Pending(w) = {}
  /\ streams[w].state = "closed"
  /\ Goto(w, "ended")
  /\ UNCHANGED <<storeVars, subs, retry, acks, got, fails>>

\* An event at or below the cursor, or of another key, is skipped.
Skips(w, rev) == rev <= subs[w].cursor \/ ~Match(w, rev)

CheckEvent(w) ==
  /\ loops[w].pc = "check"
  /\ Goto(w, IF Skips(w, loops[w].ev) THEN "ready" ELSE "push")
  /\ UNCHANGED <<storeVars, subs, retry, acks, got, fails>>

\* The locked region of push.
Push(w) ==
  /\ loops[w].pc = "push"
  /\ \/ Closed(w) /\ Goto(w, "ended") /\ UNCHANGED subs
     \/ /\ ~Closed(w)
        /\ subs' = [subs EXCEPT ![w].cursor = loops[w].ev]
        /\ loops' = [loops EXCEPT ![w].pc = "send",
                                  ![w].toPeer = (subs[w].peer # "none")]
  /\ UNCHANGED <<storeVars, retry, acks, got, fails>>

SendToPeer(w) ==
  /\ loops[w].pc = "send"
  /\ loops[w].toPeer
  /\ \/ Sent(w, loops[w].ev) /\ UNCHANGED retry
     \/ SendFailed(w) /\ ScheduleRetry(w, loops[w].ev)
  /\ Goto(w, "ready")
  /\ UNCHANGED <<storeVars, subs, acks>>

\* Mutant of SendToChan: the channel has no limit.
SendToChanUnbounded(w) ==
  /\ loops[w].pc = "send"
  /\ ~loops[w].toPeer
  /\ subs' = [subs EXCEPT ![w].ch = @ \cup {loops[w].ev}]
  /\ Goto(w, "ready")
  /\ UNCHANGED <<storeVars, retry, acks, got, fails>>

\* Without a peer the event goes to sub.ch, which the server never reads; a
\* goroutine that waits for room there ends only with the subscription.
SendToChan(w) ==
  /\ loops[w].pc = "send"
  /\ ~loops[w].toPeer
  /\ \/ /\ Cardinality(subs[w].ch) < SubCap
        /\ subs' = [subs EXCEPT ![w].ch = @ \cup {loops[w].ev}]
        /\ Goto(w, "ready")
     \/ Closed(w) /\ Goto(w, "ended") /\ UNCHANGED subs
  /\ UNCHANGED <<storeVars, retry, acks, got, fails>>

-----------------------------------------------------------------------------
(* Retries *)

GotoRetry(w, rev, pc) == retry' = [retry EXCEPT ![w][rev] = pc]

\* Mutant of RetryWake: the goroutine waits for done only.
RetryWakeAtEnd(w, rev) ==
  /\ retry[w][rev] = "waiting"
  /\ Closed(w)
  /\ GotoRetry(w, rev, "none")
  /\ UNCHANGED <<storeVars, subs, loops, acks, got, fails>>

\* After retryLag, or when done is closed: the event leaves sub.retries.
RetryWake(w, rev) ==
  /\ retry[w][rev] = "waiting"
  /\ GotoRetry(w, rev, IF Closed(w) THEN "none" ELSE "check")
  /\ UNCHANGED <<storeVars, subs, loops, acks, got, fails>>

\* An event at or below the acknowledged cursor is given up.
RetryCheck(w, rev) ==
  /\ ~HubLocked
  /\ retry[w][rev] = "check"
  /\ GotoRetry(w, rev, IF rev <= acks[w] THEN "none" ELSE "push")
  /\ UNCHANGED <<storeVars, subs, loops, acks, got, fails>>

\* push again; the cursor moves back to this event.
RetryPush(w, rev) ==
  /\ retry[w][rev] = "push"
  /\ \/ Closed(w) /\ GotoRetry(w, rev, "none") /\ UNCHANGED subs
     \/ ~Closed(w) /\ GotoRetry(w, rev, "send") /\ subs' = [subs EXCEPT ![w].cursor = rev]
  /\ UNCHANGED <<storeVars, loops, acks, got, fails>>

\* Mutant of RetrySend: the goroutine goes round again after a success.
RetrySendTwice(w, rev) ==
  /\ retry[w][rev] = "send"
  /\ \/ Sent(w, rev)
     \/ SendFailed(w)
  /\ ScheduleRetry(w, rev)
  /\ UNCHANGED <<storeVars, subs, loops, acks>>

RetrySend(w, rev) ==
  /\ retry[w][rev] = "send"
  /\ \/ Sent(w, rev) /\ GotoRetry(w, rev, "none")
     \/ SendFailed(w) /\ ScheduleRetry(w, rev)
  /\ UNCHANGED <<storeVars, subs, loops, acks>>

-----------------------------------------------------------------------------
(* Specification *)

Init ==
  /\ store!Init
  /\ subs = [w \in Watches |->
       [state |-> "unused", key |-> AnyKey, from |-> 0, live |-> FALSE, left |-> {},
        cursor |-> 0, peer |-> "none", ch |-> {}]]
  /\ loops = [w \in Watches |-> [pc |-> "none", ev |-> 0, toPeer |-> FALSE]]
  /\ retry = [w \in Watches |-> [rev \in Revs |-> "none"]]
  /\ acks = [w \in Watches |-> 0]
  /\ got = [w \in Watches |-> << >>]
  /\ fails = 0

\* Clients of the store, and its reclaimer.
StoreStep ==
  /\ \/ \E k \in Keys : store!Put(k) \/ store!Delete(k)
     \/ store!ReclaimTick
  /\ UNCHANGED <<subs, loops, retry, acks, got, fails>>

LoopStep(w) ==
  \/ TakeEntry(w) \/ TakeEvent(w) \/ StreamEnded(w)
  \/ CheckEvent(w) \/ Push(w) \/ SendToPeer(w) \/ SendToChan(w)

RetryStep(w, rev) ==
  \/ RetryWake(w, rev) \/ RetryCheck(w, rev)
  \/ RetryPush(w, rev) \/ RetrySend(w, rev)

OpenStep(w) == OpenSub(w) \/ OpenFailed(w)

CancelStep(w) == CancelStream(w) \/ CancelPeer(w)

Next ==
  \/ StoreStep
  \/ \E w \in Watches, key \in WatchKeys, rev \in StartRevs : Subscribe(w, key, rev)
  \/ \E w \in Watches :
       \/ OpenStep(w) \/ Attach(w)
       \/ \E rev \in AckRevs : Ack(w, rev)
       \/ \E rev \in Revs : RetryStep(w, rev)
       \/ Cancel(w) \/ CancelStep(w)
       \/ LoopStep(w)

Spec == Init /\ [][Next]_vars

\* Goroutines that can run do: the delivery loop, some retry, and a call of
\* Watch or Cancel that has begun.  Sends fail at most MaxFail times.
Fairness ==
  \A w \in Watches :
    /\ WF_vars(LoopStep(w))
    /\ WF_vars(OpenStep(w) \/ CancelStep(w))
    /\ WF_vars(\E rev \in Revs : RetryStep(w, rev))

FairSpec == Spec /\ Fairness

-----------------------------------------------------------------------------
(* Properties *)

\* Every variable has its type, and a subscription's channel never holds more
\* than it has room for.
TypeOK ==
  /\ store!TypeOK
  /\ subs \in [Watches -> Sub]
  /\ \A w \in Watches : Cardinality(subs[w].ch) <= SubCap
  /\ loops \in [Watches -> Loop]
  /\ retry \in [Watches -> [Revs -> Retry]]
  /\ acks \in [Watches -> 0..MaxRev]
  /\ got \in [Watches -> Seq(Revs)]
  /\ fails \in 0..MaxFail

\* What a client sees: events of the key it asked for that were written, each
\* at most once, although a retry moves the cursor back and snapshot, stream
\* and retries are sent by different goroutines (watch.go:150-252).
DeliveredOnce ==
  \A w \in Watches :
    /\ IsInjective(got[w])
    /\ \A rev \in Range(got[w]) :
         rev <= head /\ Match(w, rev)

\* The events an open subscription is to deliver: those of its key written
\* after the start revision and after its stream was opened, those the stream
\* replays, and, when it asked for no history, the value each key had at that
\* moment even if it was written after the head was read.  What the snapshot
\* has at or below the start revision is not among them: the cursor starts
\* there and the entries are skipped (watch.go:68, 162-167), although the
\* comment of Watch announces them (watch.go:58-60).  (The first event after
\* the start of a replay can be missing from the log; deletions and
\* overwritten values from the time between are not in the snapshot.)
Owed(w) ==
  LET st == streams[w]
  IN  {rev \in 1..head :
         /\ rev > subs[w].from
         /\ Match(w, rev)
         /\ \/ store!Subscribed(w) /\ rev > st.start + 1
            \/ rev \in st.sent
            \/ /\ subs[w].live
               /\ ~written[rev].del
               /\ rev = store!Newest({v \in store!WritesOf(written[rev].key) : v <= st.opened})}

\* Where an event that is not lost can be.
Accounted(w, rev) ==
  \/ rev \in Range(got[w])
  \/ rev \in subs[w].left \cup store!Pending(w) \cup subs[w].ch
  \/ rev = loops[w].ev /\ loops[w].pc \in {"check", "push", "send"}
  \/ retry[w][rev] # "none"
  \/ rev <= acks[w]

\* No event is lost on its way through the hub: until the subscription is
\* cancelled, each event it is to deliver was received, acknowledged by the
\* client, or is in one place on its way, whatever sends fail and whatever is
\* written between reading the head and opening the stream
\* (watch.go:74-83, 158-190, 193-252).
EventAccounted ==
  \A w \in Watches :
    subs[w].state = "open" => \A rev \in Owed(w) : Accounted(w, rev)

\* The delivery goroutine waits for room in the channel nobody reads.
Blocked(w) ==
  /\ loops[w].pc = "send"
  /\ ~loops[w].toPeer
  /\ Cardinality(subs[w].ch) >= SubCap

\* Once a peer is attached, every event that the delivery goroutine has not
\* taken yet reaches it, unless the client acknowledges past it or cancels; a
\* goroutine already blocked on the unread channel is the exception
\* (watch.go:172-190, 203-216, 232-251, api.go:331-337).
EventuallyReceived ==
  \A w \in Watches, rev \in Revs :
    /\ subs[w].state = "open"
    /\ subs[w].peer = "up"
    /\ rev \in Owed(w) \cap (subs[w].left \cup store!Pending(w))
    ~> \/ rev \in Range(got[w])
       \/ rev <= acks[w]
       \/ Closed(w)
       \/ Blocked(w)

\* After Cancel the delivery goroutine ends and its channel is closed, also
\* when it was waiting for room or in the middle of a send; a stream that the
\* store dropped is the exception, for nobody closes its channel, although
\* watch.go:119 says that Cancel "closes its channel"
\* (watch.go:120-141, 172-179, 209-216, store.go:201-213).
CancelEndsLoop ==
  \A w \in Watches :
    Closed(w) ~> loops[w].pc = "ended" \/ streams[w].state = "dropped"

\* The registry that sessions rely on.
hub == [w \in Watches |->
          IF subs[w].state \in {"unused", "opening", "failed"}
          THEN [state |-> "unused", key |-> AnyKey, from |-> 0]
          ELSE [state |-> IF Closed(w) THEN "closed" ELSE "open",
                key |-> subs[w].key, from |-> subs[w].from]]

Registry == INSTANCE HubSpec WITH KeySet <- Keys \cup {AnyKey}, NoKey <- AnyKey,
                                  Revs <- 0..MaxRev

\* The hub implements the registry of HubSpec: subscriptions keep their key and
\* start and are cancelled once, and acknowledged cursors only advance until
\* then (watch.go:61-141).
RefinesHubSpec == Registry!Spec

-----------------------------------------------------------------------------
(* Claims of the source that the code does not keep *)

\* watch.go:58-60: Watch delivers a snapshot "followed by live increments, each
\* with a monotonic cursor".
MonotonicCursor ==
  \A w \in Watches : \A i, j \in DOMAIN got[w] : i < j => got[w][i] < got[w][j]
=============================================================================
