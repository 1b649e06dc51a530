-------------------------------- MODULE Store --------------------------------
(***************************************************************************)
(* The in-process MVCC store of internal/store: versioned records, the     *)
(* bounded change log (a ring of logCap events), open readers, the         *)
(* reclaimer, and live change streams with bounded channels.               *)
(*                                                                         *)
(* Every operation of store.Store runs under s.mu, so each is one action.  *)
(* A write is identified by the revision it got: versions, log slots and   *)
(* channel contents carry revisions, and written[rev] says what the write  *)
(* did (payload bytes are left out).  A version slice is in revision order *)
(* because it only grows by appending head + 1, so it is a set here.       *)
(***************************************************************************)
EXTENDS Naturals, Sequences, FiniteSets, FiniteSetsExt

CONSTANTS
  Keys,      \* keys clients write
  LogCap,    \* capacity of the change log (s.logCap)
  ChanCap,   \* capacity of a stream's channel (512 in newStreamLocked)
  Readers,   \* read transactions; each is opened at most once
  Streams,   \* change streams; each is opened at most once
  Retain,    \* cfg.RetainRevisions
  Slack,     \* the "+ 8" of reclaimLoop
  MaxRev     \* bound: number of writes

ASSUME LogCapAssumption == LogCap \in Nat \ {0}
ASSUME ChanCapAssumption == ChanCap \in Nat \ {0}
ASSUME RetainAssumption == Retain \in Nat /\ Slack \in Nat
ASSUME MaxRevAssumption == MaxRev \in Nat

VARIABLES
  written,   \* written[rev]: the write that was given revision rev
  records,   \* records[k]: revisions of k's retained versions
  log,       \* the ring; a slot holds the revision of its event, 0 if unused
  logStart,  \* s.logStart
  logSize,   \* s.logSize
  readers,   \* state of every read transaction
  streams    \* state of every stream

vars == <<written, records, log, logStart, logSize, readers, streams>>

logVars == <<log, logStart, logSize>>

-----------------------------------------------------------------------------
(* Types and derived state *)

Write == [key : Keys, del : BOOLEAN]

\* "closing": Close has set r.closed but not yet left s.readers.
Reader == [state : {"none", "open", "closing", "closed"}, rev : Nat]

\* snap: the snapshot taken at start; sent: every revision ever placed in the
\* channel; taken: the last one the consumer received (the channel is FIFO and
\* revisions enter it in order); opened: the head when the stream was opened.
\* "closing": Close has set st.closed but not yet left s.streams;
\* "closed": the channel is closed; "dropped": broadcastLocked unregistered
\* the stream because its channel was full, and nobody closes that channel.
Stream == [state : {"none", "live", "closing", "dropped", "closed"},
           start : Nat, opened : Nat, snap : [Keys -> Nat],
           sent : SUBSET Nat, taken : Nat]

head == Len(written)

Registered(r) == readers[r].state \in {"open", "closing"}

Subscribed(s) == streams[s].state \in {"live", "closing"}

\* Revisions waiting in the channel of stream s.
Pending(s) == {rev \in streams[s].sent : rev > streams[s].taken}

\* Largest element of a set of revisions, 0 for the empty set.
Newest(revs) == IF revs = {} THEN 0 ELSE Max(revs)

\* Reference: the revisions of the writes of k, in the history of all writes.
WritesOf(k) == {rev \in 1..head : written[rev].key = k}

-----------------------------------------------------------------------------
(* Reads *)

\* sort.Search for the last version at or below rev; 0 when there is none.
VisibleAt(k, rev) == Newest({v \in records[k] : v <= rev})

\* Mutant of Get: a tombstone is returned like a value.
GetWithTombstones(k) == Newest(records[k])

\* Store.Get: the newest version of k unless it is a tombstone.
Get(k) ==
  LET latest == Newest(records[k])
  IN  IF latest = 0 \/ written[latest].del THEN 0 ELSE latest

\* Reader.GetAt for a reader that is not closed; minRev is the pinned revision.
GetAt(r, k) ==
  LET v == VisibleAt(k, readers[r].rev)
  IN  CASE v = 0               -> "ErrKeyMissing"
        [] 0 < v /\ v < readers[r].rev -> "ErrVersionReclaimed"
        [] OTHER               -> "found"

\* Store.snapshotLocked: the version of every key visible at rev.
Snapshot(rev) ==
  [k \in Keys |-> VisibleAt(k, IF rev > head THEN head ELSE rev)]

-----------------------------------------------------------------------------
(* Writes *)

\* Mutants of AppendLog: the full ring is not evicted from; the slot is off by
\* one against the slot logEventsLocked reads.
AppendLogNoEvict(rev) ==
  /\ log' = [log EXCEPT ![(rev - 1) % LogCap] = rev]
  /\ logSize' = logSize + 1
  /\ UNCHANGED logStart

AppendLogShifted(rev) ==
  /\ log' = [log EXCEPT ![rev % LogCap] = rev]
  /\ IF logSize = LogCap
     THEN logStart' = logStart + 1 /\ UNCHANGED logSize
     ELSE logSize' = logSize + 1 /\ UNCHANGED logStart

\* appendLogLocked
AppendLog(rev) ==
  /\ log' = [log EXCEPT ![(rev - 1) % LogCap] = rev]
  /\ IF logSize = LogCap
     THEN logStart' = logStart + 1 /\ UNCHANGED logSize
     ELSE logSize' = logSize + 1 /\ UNCHANGED logStart

\* Mutant of Offer: an event that does not fit is skipped, the stream stays.
OfferSkipping(s, rev) ==
  IF Subscribed(s) /\ rev > streams[s].start /\ Cardinality(Pending(s)) < ChanCap
  THEN [streams[s] EXCEPT !.sent = @ \cup {rev}]
  ELSE streams[s]

\* broadcastLocked for one stream: a full channel drops the stream.
Offer(s, rev) ==
  LET st == streams[s]
  IN  IF ~Subscribed(s) \/ rev <= st.start
      THEN st
      ELSE IF Cardinality(Pending(s)) < ChanCap
           THEN [st EXCEPT !.sent = @ \cup {rev}]
           ELSE [st EXCEPT !.state = "dropped"]

\* The common body of Put and Delete.
PutOrDelete(k, del) ==
  LET rev == head + 1
  IN  /\ head < MaxRev
      /\ written' = Append(written, [key |-> k, del |-> del])
      /\ records' = [records EXCEPT ![k] = @ \cup {rev}]
      /\ AppendLog(rev)
      /\ streams' = [s \in Streams |-> Offer(s, rev)]
      /\ UNCHANGED readers

Put(k) == PutOrDelete(k, FALSE)

Delete(k) == PutOrDelete(k, TRUE)

-----------------------------------------------------------------------------
(* Readers and the reclaimer *)

\* BeginRead; its caller read rev from CurrentRev, possibly some writes ago.
BeginRead(r, rev) ==
  /\ readers[r].state = "none"
  /\ rev <= head
  /\ readers' = [readers EXCEPT ![r] = [state |-> "open", rev |-> rev]]
  /\ UNCHANGED <<written, records, logVars, streams>>

\* Reader.Close, first half: r.closed is set under r.mu.
CloseReader(r) ==
  /\ readers[r].state = "open"
  /\ readers' = [readers EXCEPT ![r].state = "closing"]
  /\ UNCHANGED <<written, records, logVars, streams>>

\* Reader.Close, second half: the reader leaves s.readers under s.mu.
Deregister(r) ==
  /\ readers[r].state = "closing"
  /\ readers' = [readers EXCEPT ![r].state = "closed"]
  /\ UNCHANGED <<written, records, logVars, streams>>

\* Mutant of AtOrAboveFloor: the reclaimer does not look at the readers.
AboveHead(v) == v >= head

\* A version is at or above minActiveRevLocked, the least of the head and the
\* revisions of the registered readers.
AtOrAboveFloor(v) ==
  v >= head \/ \E r \in Readers : Registered(r) /\ v >= readers[r].rev

\* Mutant of Kept: the newest version of a key gets no exception.
KeptAboveFloor(k, before) == {v \in records[k] : v > before \/ AtOrAboveFloor(v)}

\* The versions of k that Reclaim(before) keeps.
Kept(k, before) ==
  {v \in records[k] : \/ v > before
                      \/ AtOrAboveFloor(v)
                      \/ \A w \in records[k] : w <= v}

\* The log prefix that Reclaim(before) drops.
Dropped(before) ==
  IF logSize > 0 /\ before >= logStart
  THEN IF before - logStart + 1 > logSize THEN logSize ELSE before - logStart + 1
  ELSE 0

Reclaim(before) ==
  /\ records' = [k \in Keys |-> Kept(k, before)]
  /\ logStart' = logStart + Dropped(before)
  /\ logSize' = logSize - Dropped(before)
  /\ UNCHANGED <<written, log, readers, streams>>

\* One tick of reclaimLoop: it reads a head above Retain + Slack, and other
\* goroutines may write before Reclaim takes the lock.
ReclaimTick ==
  \E seen \in (Retain + Slack + 1)..head : Reclaim(seen - Retain)

-----------------------------------------------------------------------------
(* Streams *)

\* logEventsLocked: the logged revisions above after.
LogEvents(after) ==
  IF logSize = 0 \/ after >= head
  THEN {}
  ELSE LET first == IF after >= logStart THEN after + 1 ELSE logStart
       IN  {rev \in first..head : log[(rev - 1) % LogCap] = rev}

\* The revision a stream asked for at rev really starts from.
StreamStart(rev) ==
  IF logSize > 0 /\ rev + 1 < logStart THEN logStart - 1 ELSE rev

NewStream(start, replay) ==
  [state |-> "live", start |-> start, opened |-> head, snap |-> Snapshot(start),
   sent |-> replay, taken |-> 0]

\* A replay that does not fit the channel is refused and changes nothing.
OpenStream(s, rev) ==
  LET start == StreamStart(rev)
  IN  /\ streams[s].state = "none"
      /\ rev <= head
      /\ Cardinality(LogEvents(start)) <= ChanCap
      /\ streams' = [streams EXCEPT ![s] = NewStream(start, LogEvents(start))]
      /\ UNCHANGED <<written, records, logVars, readers>>

\* Mutant of OpenLiveStream: the first event counted as delivered is one late.
OpenLiveStreamLate(s) ==
  /\ streams[s].state = "none"
  /\ streams' = [streams EXCEPT ![s] = NewStream(head + 1, {})]
  /\ UNCHANGED <<written, records, logVars, readers>>

OpenLiveStream(s) ==
  /\ streams[s].state = "none"
  /\ streams' = [streams EXCEPT ![s] = NewStream(head, {})]
  /\ UNCHANGED <<written, records, logVars, readers>>

\* The consumer receives the oldest event of the channel.
Receive(s) ==
  /\ Pending(s) # {}
  /\ streams' = [streams EXCEPT ![s].taken = Min(Pending(s))]
  /\ UNCHANGED <<written, records, logVars, readers>>

\* Stream.Close, first half: st.closed is set under st.mu.  A dropped stream
\* already has it set, so closing one changes nothing.
CloseStream(s) ==
  /\ streams[s].state = "live"
  /\ streams' = [streams EXCEPT ![s].state = "closing"]
  /\ UNCHANGED <<written, records, logVars, readers>>

\* Stream.Close, second half, under s.mu: a stream that is still registered
\* is unregistered and its channel closed.
Unsubscribe(s) ==
  /\ streams[s].state = "closing"
  /\ streams' = [streams EXCEPT ![s].state = "closed"]
  /\ UNCHANGED <<written, records, logVars, readers>>

-----------------------------------------------------------------------------
(* Specification *)

Init ==
  /\ written = << >>
  /\ records = [k \in Keys |-> {}]
  /\ log = [i \in 0..(LogCap - 1) |-> 0]
  /\ logStart = 0
  /\ logSize = 0
  /\ readers = [r \in Readers |-> [state |-> "none", rev |-> 0]]
  /\ streams = [s \in Streams |->
       [state |-> "none", start |-> 0, opened |-> 0,
        snap |-> [k \in Keys |-> 0], sent |-> {}, taken |-> 0]]

Next ==
  \/ \E k \in Keys : Put(k) \/ Delete(k)
  \/ \E r \in Readers, rev \in 0..head : BeginRead(r, rev)
  \/ \E r \in Readers : CloseReader(r) \/ Deregister(r)
  \/ ReclaimTick
  \/ \E s \in Streams, rev \in 0..head : OpenStream(s, rev)
  \/ \E s \in Streams : OpenLiveStream(s) \/ Receive(s)
                           \/ CloseStream(s) \/ Unsubscribe(s)

Spec == Init /\ [][Next]_vars

-----------------------------------------------------------------------------
(* Properties *)

\* Every variable has its type; the log never counts more events than its
\* ring has slots (store.go:173-181).
TypeOK ==
  /\ written \in Seq(Write)
  /\ records \in [Keys -> SUBSET Nat]
  /\ log \in [0..(LogCap - 1) -> Nat]
  /\ logStart \in Nat
  /\ logSize \in 0..LogCap
  /\ readers \in [Readers -> Reader]
  /\ streams \in [Streams -> Stream]

\* The bookkeeping of the change log agrees with its ring through wraparound
\* and truncation: the window ends at the head, and the newest LogCap events
\* sit in the slots where logEventsLocked looks for them (store.go:173-199).
LogWindow ==
  /\ logStart + logSize = head
  /\ \A rev \in 1..head : rev + LogCap > head => log[(rev - 1) % LogCap] = rev

\* However writes and reclaims interleave, the newest retained version of a
\* key is its last write, so Get answers it (reclaim.go:5-7, store.go:96-112).
LatestKept == \A k \in Keys : Newest(records[k]) = Newest(WritesOf(k))

\* No step removes a version at or above the revision of a reader that is
\* open before and after it (mvcc.go:30-31).
ReadersPinned ==
  [][\A r \in Readers, k \in Keys :
       readers[r].state = "open" /\ readers'[r].state = "open"
         => {v \in records[k] : v >= readers[r].rev} \subseteq records'[k]]_vars

\* With Retain >= 2 the log is never emptied by the reclaimer, and then a
\* subscribed stream has been sent every revision above its start except
\* possibly the first; the events a stream did get, dropped or not, have no
\* hole between them and none is covered by the snapshot
\* (store.go:183-213, snapshot.go:25-46).
NoInnerGap ==
  \A s \in Streams :
    LET st == streams[s]
    IN  /\ Subscribed(s) => (st.start + 2)..head \subseteq st.sent
        /\ \A rev \in st.sent : rev > st.start /\ (st.start + 2)..rev \subseteq st.sent

\* A stream that asked for no history never misleads its consumer: while it is
\* subscribed, the snapshot overridden by the events sent since names the last
\* write of every key, although the reclaimer ran before and after it was
\* opened (snapshot.go:48-56, 90-101).
LiveStreamConverges ==
  \A s \in Streams, k \in Keys :
    Subscribed(s) /\ streams[s].start >= streams[s].opened
      => Newest({streams[s].snap[k]} \cup (streams[s].sent \cap WritesOf(k)))
           = Newest(WritesOf(k))

\* A client that only writes and reads current values sees an atomic map:
\* reclaiming, log truncation, readers and streams are invisible to Get.
KV == INSTANCE KVSpec WITH head <- head,
                           op <- IF head = 0 THEN "none" ELSE written[head],
                           cur <- [k \in Keys |-> Get(k)]
RefinesKV == KV!KVStore

-----------------------------------------------------------------------------
(* Claims of the source's comments that the code does not keep *)

\* mvcc.go:54-55: "GetAt returns the newest version of key at or below the
\* reader's pinned revision", checked while nothing of k has been reclaimed.
GetAtReturnsNewest ==
  \A r \in Readers, k \in Keys :
    /\ readers[r].state = "open"
    /\ records[k] = WritesOf(k)
    /\ \E v \in records[k] : v <= readers[r].rev
    => GetAt(r, k) = "found"
=============================================================================
