---------------------------- MODULE StoreProofs ----------------------------
(***************************************************************************)
(* Proofs about Store for every number of keys, readers and streams, every *)
(* capacity and every interleaving.                                        *)
(***************************************************************************)
EXTENDS Store, OrderLemmas, TLAPS

-----------------------------------------------------------------------------
(* Facts about the operators *)

\* Newest returns the element that bounds the set, when there is one.
LEMMA NewestIs ==
  ASSUME NEW S \in SUBSET Nat, NEW m \in S, \A x \in S : x <= m
  PROVE  Newest(S) = m
<1>1. Max(S) \in S /\ \A y \in S : Max(S) >= y
  BY DEF Max
<1>2. \A n \in S : (\A y \in S : n >= y) => n = m
  OBVIOUS
<1>3. Max(S) = m
  BY <1>1, <1>2
<1> QED
  BY <1>3 DEF Newest

\* Newest of a bounded set of revisions is its largest element, 0 if it is
\* empty.
LEMMA NewestOf ==
  ASSUME NEW S \in SUBSET Nat, NEW b \in Nat, \A x \in S : x <= b
  PROVE  /\ Newest(S) \in Nat
         /\ S = {} => Newest(S) = 0
         /\ S # {} => Newest(S) \in S /\ \A x \in S : x <= Newest(S)
<1>1. CASE S = {}
  BY <1>1 DEF Newest
<1>2. CASE S # {}
  <2>1. PICK m \in S : \A x \in S : x <= m
    BY <1>2, LargestExists
  <2>2. Newest(S) = m
    BY <2>1, NewestIs
  <2> QED
    BY <1>2, <2>1, <2>2
<1> QED
  BY <1>1, <1>2

-----------------------------------------------------------------------------
(* The inductive invariant *)

\* The retained versions of a key are writes of that key, and every write of
\* the key is followed by a retained version or is one itself.  This is what
\* makes LatestKept inductive.
RecordsInv ==
  \A k \in Keys :
    /\ records[k] \subseteq WritesOf(k)
    /\ \A rev \in WritesOf(k) : \E v \in records[k] : rev <= v

\* The typed store with sound records: what every other proof starts from.
BaseInv == TypeOK /\ RecordsInv

LEMMA HeadType ==
  ASSUME written \in Seq(Write)
  PROVE  head \in Nat /\ \A rev \in 1..head : written[rev] \in Write
<1>1. Len(written) \in Nat /\ \A rev \in 1..Len(written) : written[rev] \in Write
  OBVIOUS
<1> QED
  BY <1>1 DEF head

\* A write extends the history by one entry and leaves the others alone.
LEMMA WriteHistory ==
  ASSUME written \in Seq(Write), NEW k \in Keys, NEW del \in BOOLEAN,
         written' = Append(written, [key |-> k, del |-> del])
  PROVE  /\ written' \in Seq(Write)
         /\ head' = head + 1
         /\ \A rev \in 1..head : written'[rev] = written[rev]
         /\ written'[head + 1] = [key |-> k, del |-> del]
         /\ \A j \in Keys :
              WritesOf(j)' = IF j = k THEN WritesOf(j) \cup {head + 1} ELSE WritesOf(j)
<1>1. [key |-> k, del |-> del] \in Write
  BY DEF Write
<1>2. /\ written' \in Seq(Write)
      /\ head' = head + 1
      /\ \A rev \in 1..head : written'[rev] = written[rev]
      /\ written'[head + 1] = [key |-> k, del |-> del]
  BY <1>1 DEF head
<1>3. head \in Nat
  BY HeadType
<1>4. ASSUME NEW j \in Keys
      PROVE  WritesOf(j)' = IF j = k THEN WritesOf(j) \cup {head + 1} ELSE WritesOf(j)
  <2>1. 1..(head + 1) = (1..head) \cup {head + 1}
    BY <1>3
  <2>2. WritesOf(j)' = {rev \in 1..(head + 1) : written'[rev].key = j}
    BY <1>2 DEF WritesOf
  <2>3. \A rev \in 1..head : rev \in WritesOf(j)' <=> rev \in WritesOf(j)
    BY <1>2, <2>1, <2>2 DEF WritesOf
  <2>4. head + 1 \in WritesOf(j)' <=> k = j
    <3>1. [key |-> k, del |-> del].key = k
      OBVIOUS
    <3>2. written'[head + 1].key = k
      BY <1>2, <3>1, Zenon
    <3> QED
      BY <2>1, <2>2, <3>2
  <2>5. WritesOf(j)' \subseteq (1..head) \cup {head + 1} /\ WritesOf(j) \subseteq 1..head
    BY <2>1, <2>2 DEF WritesOf
  <2>6. CASE j = k
    <3>1. WritesOf(j)' = WritesOf(j) \cup {head + 1}
      BY <2>3, <2>4, <2>5, <2>6
    <3> QED
      BY <2>6, <3>1
  <2>7. CASE j # k
    <3>1. WritesOf(j)' = WritesOf(j)
      BY <2>3, <2>4, <2>5, <2>7
    <3> QED
      BY <2>7, <3>1
  <2> QED
    BY <2>6, <2>7
<1> QED
  BY <1>2, <1>4

\* Reading a snapshot yields a revision, or 0, for every key.
LEMMA SnapshotType ==
  ASSUME BaseInv, NEW rev \in Nat
  PROVE  Snapshot(rev) \in [Keys -> Nat]
<1>1. head \in Nat
  BY HeadType DEF BaseInv, TypeOK
<1>2. ASSUME NEW k \in Keys, NEW at \in Nat
      PROVE  VisibleAt(k, at) \in Nat
  <2> DEFINE S == {v \in records[k] : v <= at}
  <2>1. S \in SUBSET Nat /\ \A x \in S : x <= at
    BY DEF BaseInv, TypeOK
  <2>2. Newest(S) \in Nat
    BY <2>1, NewestOf
  <2> QED
    BY <2>2 DEF VisibleAt
<1> QED
  BY <1>1, <1>2 DEF Snapshot

\* The capacities of the ring hold for its first slot as for its last.
LEMMA TypeInit == Init => TypeOK
BY LogCapAssumption DEF Init, TypeOK, Reader, Stream, Write

LEMMA RecordsInit == Init => RecordsInv
<1> SUFFICES ASSUME Init PROVE RecordsInv
  OBVIOUS
<1>1. head = 0
  BY DEF Init, head
<1> QED
  BY <1>1 DEF Init, RecordsInv, WritesOf

\* What Offer makes of a stream is a stream.
LEMMA OfferType ==
  ASSUME TypeOK, NEW s \in Streams, NEW rev \in Nat
  PROVE  Offer(s, rev) \in Stream
BY DEF TypeOK, Offer, Stream

\* Reclaim drops at most the events the log counts.
LEMMA DroppedBound ==
  ASSUME TypeOK, NEW before \in Nat
  PROVE  Dropped(before) \in 0..logSize
BY LogCapAssumption DEF TypeOK, Dropped

LEMMA TypeStep == BaseInv /\ [Next]_vars => TypeOK'
<1> SUFFICES ASSUME BaseInv, [Next]_vars PROVE TypeOK'
  OBVIOUS
<1>0. TypeOK /\ head \in Nat
  BY HeadType DEF BaseInv, TypeOK
<1>1. ASSUME NEW k \in Keys, NEW del \in BOOLEAN, PutOrDelete(k, del)
      PROVE  TypeOK'
  <2>1. written' \in Seq(Write)
    BY <1>0, <1>1, WriteHistory DEF TypeOK, PutOrDelete
  <2>2. records' \in [Keys -> SUBSET Nat]
    BY <1>0, <1>1 DEF TypeOK, PutOrDelete
  <2>3. head % LogCap \in 0..(LogCap - 1) /\ (head + 1) - 1 = head
    BY <1>0, LogCapAssumption, SlotInRing
  <2>4. log' \in [0..(LogCap - 1) -> Nat]
    BY <1>0, <1>1, <2>3 DEF TypeOK, PutOrDelete, AppendLog
  <2>5. logStart' \in Nat /\ logSize' \in 0..LogCap
    <3>1. logStart \in Nat /\ logSize \in 0..LogCap /\ LogCap \in Nat
      BY <1>0, LogCapAssumption DEF TypeOK
    <3>2. CASE logSize = LogCap
      BY <1>1, <3>1, <3>2 DEF PutOrDelete, AppendLog
    <3>3. CASE logSize # LogCap
      BY <1>1, <3>1, <3>3 DEF PutOrDelete, AppendLog
    <3> QED
      BY <3>2, <3>3
  <2>6. readers' \in [Readers -> Reader]
    BY <1>0, <1>1 DEF TypeOK, PutOrDelete
  <2>7. streams' \in [Streams -> Stream]
    BY <1>0, <1>1, OfferType DEF PutOrDelete
  <2> QED
    BY <2>1, <2>2, <2>4, <2>5, <2>6, <2>7 DEF TypeOK
<1>2. ASSUME NEW r \in Readers, NEW rev \in 0..head, BeginRead(r, rev)
      PROVE  TypeOK'
  BY <1>0, <1>2 DEF TypeOK, BeginRead, logVars, Reader
<1>3. ASSUME NEW r \in Readers, CloseReader(r) \/ Deregister(r)
      PROVE  TypeOK'
  BY <1>0, <1>3 DEF TypeOK, CloseReader, Deregister, logVars, Reader
<1>4. ASSUME ReclaimTick PROVE TypeOK'
  <2>1. PICK seen \in (Retain + Slack + 1)..head : Reclaim(seen - Retain)
    BY <1>4 DEF ReclaimTick
  <2>2. seen - Retain \in Nat
    BY <1>0, RetainAssumption
  <2>3. Dropped(seen - Retain) \in 0..logSize
    BY <1>0, <2>2, DroppedBound
  <2>4. logStart' \in Nat /\ logSize' \in 0..LogCap
    BY <1>0, <2>1, <2>3, LogCapAssumption DEF TypeOK, Reclaim
  <2>5. records' \in [Keys -> SUBSET Nat]
    BY <1>0, <2>1 DEF TypeOK, Reclaim, Kept
  <2> QED
    BY <1>0, <2>1, <2>4, <2>5 DEF TypeOK, Reclaim
<1>5. ASSUME NEW start \in Nat, NEW replay \in SUBSET Nat
      PROVE  NewStream(start, replay) \in Stream
  BY <1>0, SnapshotType DEF NewStream, Stream
<1>6. ASSUME NEW s \in Streams, NEW rev \in 0..head, OpenStream(s, rev)
      PROVE  TypeOK'
  <2>1. StreamStart(rev) \in Nat
    BY <1>0 DEF StreamStart, TypeOK
  <2>2. LogEvents(StreamStart(rev)) \in SUBSET Nat
    BY <1>0, <2>1 DEF LogEvents, TypeOK
  <2>3. NewStream(StreamStart(rev), LogEvents(StreamStart(rev))) \in Stream
    BY <1>5, <2>1, <2>2
  <2> QED
    BY <1>0, <1>6, <2>3 DEF OpenStream, TypeOK, logVars
<1>7. ASSUME NEW s \in Streams, OpenLiveStream(s) PROVE TypeOK'
  <2>1. NewStream(head, {}) \in Stream
    BY <1>0, <1>5
  <2> QED
    BY <1>0, <1>7, <2>1 DEF OpenLiveStream, TypeOK, logVars
<1>8. ASSUME NEW s \in Streams, Receive(s) PROVE TypeOK'
  <2>1. Pending(s) \in SUBSET Nat /\ Pending(s) # {}
    BY <1>0, <1>8 DEF TypeOK, Pending, Receive, Stream
  <2>2. Min(Pending(s)) \in Nat
    BY <2>1, SmallestExists
  <2> QED
    BY <1>0, <1>8, <2>2 DEF TypeOK, Receive, logVars, Stream
<1>9. ASSUME NEW s \in Streams, CloseStream(s) \/ Unsubscribe(s)
      PROVE  TypeOK'
  <2>1. PICK c \in {"closing", "closed"} : streams' = [streams EXCEPT ![s].state = c]
    BY <1>9 DEF CloseStream, Unsubscribe
  <2>2. streams' \in [Streams -> Stream]
    BY <1>0, <2>1 DEF TypeOK, Stream
  <2> QED
    BY <1>0, <1>9, <2>2 DEF TypeOK, CloseStream, Unsubscribe, logVars
<1>10. CASE UNCHANGED vars
  BY <1>0, <1>10 DEF TypeOK, vars
<1> QED
  BY <1>1, <1>2, <1>3, <1>4, <1>6, <1>7, <1>8, <1>9, <1>10 DEF Next, Put, Delete

\* A step that writes nothing and removes no version keeps RecordsInv.
LEMMA RecordsUnchanged ==
  ASSUME RecordsInv, UNCHANGED <<written, records>>
  PROVE  RecordsInv'
BY DEF RecordsInv, WritesOf, head

LEMMA RecordsStep == BaseInv /\ [Next]_vars => RecordsInv'
<1> SUFFICES ASSUME BaseInv, [Next]_vars PROVE RecordsInv'
  OBVIOUS
<1>0. RecordsInv /\ TypeOK /\ head \in Nat
  BY HeadType DEF BaseInv, TypeOK
<1>1. ASSUME NEW k \in Keys, NEW del \in BOOLEAN, PutOrDelete(k, del)
      PROVE  RecordsInv'
  <2>1. records' = [records EXCEPT ![k] = @ \cup {head + 1}]
    BY <1>1 DEF PutOrDelete
  <2>2. \A j \in Keys :
          WritesOf(j)' = IF j = k THEN WritesOf(j) \cup {head + 1} ELSE WritesOf(j)
    BY <1>0, <1>1, WriteHistory DEF PutOrDelete, TypeOK
  <2>3. \A j \in Keys : records'[j] = IF j = k THEN records[j] \cup {head + 1} ELSE records[j]
    BY <1>0, <2>1 DEF TypeOK
  <2>4. ASSUME NEW j \in Keys
        PROVE  /\ records'[j] \subseteq WritesOf(j)'
               /\ \A rev \in WritesOf(j)' : \E v \in records'[j] : rev <= v
    <3>1. /\ records[j] \subseteq WritesOf(j)
          /\ \A rev \in WritesOf(j) : \E v \in records[j] : rev <= v
      BY <1>0 DEF RecordsInv
    <3>2. CASE j = k
      <4>1. /\ WritesOf(j)' = WritesOf(j) \cup {head + 1}
            /\ records'[j] = records[j] \cup {head + 1}
        BY <2>2, <2>3, <3>2
      <4>2. ASSUME NEW rev \in WritesOf(j)'
            PROVE  \E v \in records'[j] : rev <= v
        <5>1. CASE rev = head + 1
          BY <1>0, <4>1, <5>1
        <5>2. CASE rev \in WritesOf(j)
          BY <3>1, <4>1, <5>2
        <5> QED
          BY <4>1, <4>2, <5>1, <5>2
      <4> QED
        BY <3>1, <4>1, <4>2
    <3>3. CASE j # k
      BY <2>2, <2>3, <3>1, <3>3
    <3> QED
      BY <3>2, <3>3
  <2> QED
    BY <2>4 DEF RecordsInv
<1>2. ASSUME ReclaimTick PROVE RecordsInv'
  <2>1. PICK before \in Int : Reclaim(before)
    BY <1>0, <1>2, RetainAssumption DEF ReclaimTick
  <2>2. ASSUME NEW k \in Keys
        PROVE  /\ records'[k] \subseteq WritesOf(k)
               /\ \A rev \in WritesOf(k) : \E v \in records'[k] : rev <= v
    <3>1. /\ records[k] \subseteq WritesOf(k)
          /\ WritesOf(k) \subseteq 1..head
          /\ \A rev \in WritesOf(k) : \E v \in records[k] : rev <= v
      BY <1>0 DEF RecordsInv, WritesOf
    <3>2. records'[k] = Kept(k, before)
      BY <2>1 DEF Reclaim
    <3>3. records'[k] \subseteq WritesOf(k)
      BY <3>1, <3>2 DEF Kept
    <3>4. ASSUME NEW rev \in WritesOf(k)
          PROVE  \E v \in records'[k] : rev <= v
      <4>1. PICK w \in records[k] : rev <= w
        BY <3>1, <3>4
      <4>2. records[k] \in SUBSET Nat /\ \A x \in records[k] : x <= head
        BY <1>0, <3>1
      <4>3. PICK m \in records[k] : \A x \in records[k] : x <= m
        BY <1>0, <4>1, <4>2, LargestExists
      <4>4. m \in records'[k]
        BY <3>2, <4>3 DEF Kept
      <4>5. rev \in Nat /\ w \in Nat /\ m \in Nat /\ w <= m
        BY <1>0, <3>1, <3>4, <4>1, <4>2, <4>3
      <4> QED
        BY <4>1, <4>4, <4>5
    <3> QED
      BY <3>3, <3>4
  <2>3. \A k \in Keys : WritesOf(k)' = WritesOf(k)
    BY <2>1 DEF Reclaim, WritesOf, head
  <2> QED
    BY <2>2, <2>3 DEF RecordsInv
<1>3. CASE UNCHANGED <<written, records>>
  BY <1>0, <1>3, RecordsUnchanged
<1>4. \/ \E k \in Keys, del \in BOOLEAN : PutOrDelete(k, del)
      \/ ReclaimTick
      \/ UNCHANGED <<written, records>>
  BY DEF Next, vars, Put, Delete, BeginRead, CloseReader, Deregister, OpenStream,
         OpenLiveStream, Receive, CloseStream, Unsubscribe
<1> QED
  BY <1>1, <1>2, <1>3, <1>4

-----------------------------------------------------------------------------
(* Versions *)

LEMMA BaseInvariant == Spec => []BaseInv
<1>1. Init => BaseInv
  BY TypeInit, RecordsInit DEF BaseInv
<1>2. BaseInv /\ [Next]_vars => BaseInv'
  BY TypeStep, RecordsStep DEF BaseInv
<1> QED
  BY <1>1, <1>2, PTL DEF Spec

\* TypeOK holds in every reachable state, for every value of the constants:
\* in particular the log's counter stays within its ring.
THEOREM TypeCorrect == Spec => []TypeOK
BY BaseInvariant, PTL DEF BaseInv

\* In a state with sound records the newest version is the last write.
LEMMA LatestFromRecords == BaseInv => LatestKept
<1> SUFFICES ASSUME BaseInv, NEW k \in Keys
             PROVE  Newest(records[k]) = Newest(WritesOf(k))
  BY DEF LatestKept
<1>1. head \in Nat
  BY HeadType DEF BaseInv, TypeOK
<1>2. /\ records[k] \subseteq WritesOf(k)
      /\ \A rev \in WritesOf(k) : \E v \in records[k] : rev <= v
  BY DEF BaseInv, RecordsInv
<1>3. WritesOf(k) \in SUBSET Nat /\ \A x \in WritesOf(k) : x <= head
  BY <1>1 DEF WritesOf
<1>4. CASE WritesOf(k) = {}
  <2>1. records[k] = WritesOf(k)
    BY <1>2, <1>4
  <2> QED
    BY <2>1
<1>5. CASE WritesOf(k) # {}
  <2>1. PICK w \in WritesOf(k) : \A x \in WritesOf(k) : x <= w
    BY <1>1, <1>3, <1>5, LargestExists
  <2>2. PICK v \in records[k] : w <= v
    BY <1>2, <2>1
  <2>3. v = w
    BY <1>2, <1>3, <2>1, <2>2
  <2>4. w \in records[k] /\ \A x \in records[k] : x <= w
    BY <1>2, <2>1, <2>2, <2>3
  <2>5. records[k] \in SUBSET Nat
    BY <1>2, <1>3
  <2>6. Newest(records[k]) = w
    BY <2>4, <2>5, NewestIs
  <2>7. Newest(WritesOf(k)) = w
    BY <1>3, <2>1, NewestIs
  <2> QED
    BY <2>6, <2>7
<1> QED
  BY <1>4, <1>5

\* However writes and reclaims interleave, the newest retained version of
\* every key is its last write (reclaim.go:5-7).
THEOREM LatestKeptCorrect == Spec => []LatestKept
BY BaseInvariant, LatestFromRecords, PTL

\* No step removes a version at or above the revision of a reader that stays
\* open (mvcc.go:30-31), for any number of readers and any reclaim schedule.
THEOREM ReadersPinnedCorrect == Spec => ReadersPinned
<1> DEFINE Pinned ==
      \A r \in Readers, k \in Keys :
        readers[r].state = "open" /\ readers'[r].state = "open"
          => {v \in records[k] : v >= readers[r].rev} \subseteq records'[k]
<1>1. BaseInv /\ [Next]_vars => [Pinned]_vars
  <2> SUFFICES ASSUME BaseInv, Next, NEW r \in Readers, NEW k \in Keys,
                      readers[r].state = "open"
               PROVE  {v \in records[k] : v >= readers[r].rev} \subseteq records'[k]
    OBVIOUS
  <2>1. CASE \E j \in Keys, del \in BOOLEAN : PutOrDelete(j, del)
    BY <2>1 DEF PutOrDelete, BaseInv, TypeOK
  <2>2. CASE ReclaimTick
    <3>1. PICK before : records' = [j \in Keys |-> Kept(j, before)]
      BY <2>2 DEF ReclaimTick, Reclaim
    <3> QED
      BY <3>1 DEF Kept, AtOrAboveFloor, Registered
  <2>3. CASE UNCHANGED records
    BY <2>3
  <2> QED
    BY <2>1, <2>2, <2>3
    DEF Next, Put, Delete, BeginRead, CloseReader, Deregister, OpenStream,
        OpenLiveStream, Receive, CloseStream, Unsubscribe
<1> QED
  BY <1>1, BaseInvariant, PTL DEF Spec, ReadersPinned

-----------------------------------------------------------------------------
(* The change log *)

LEMMA LogStep == BaseInv /\ LogWindow /\ [Next]_vars => LogWindow'
<1> SUFFICES ASSUME BaseInv, LogWindow, [Next]_vars PROVE LogWindow'
  OBVIOUS
<1>0. TypeOK /\ head \in Nat /\ LogCap \in Nat \ {0}
  BY HeadType, LogCapAssumption DEF BaseInv, TypeOK
<1>1. ASSUME NEW k \in Keys, NEW del \in BOOLEAN, PutOrDelete(k, del)
      PROVE  LogWindow'
  <2>1. head' = head + 1 /\ AppendLog(head + 1)
    BY <1>0, <1>1, WriteHistory DEF PutOrDelete, TypeOK
  <2>2. logStart' + logSize' = head + 1
    <3>1. CASE logSize = LogCap
      BY <1>0, <2>1, <3>1 DEF AppendLog, LogWindow, TypeOK
    <3>2. CASE logSize # LogCap
      BY <1>0, <2>1, <3>2 DEF AppendLog, LogWindow, TypeOK
    <3> QED
      BY <3>1, <3>2
  <2>3. log' = [log EXCEPT ![head % LogCap] = head + 1]
    BY <1>0, <2>1 DEF AppendLog
  <2>4. ASSUME NEW rev \in 1..(head + 1), rev + LogCap > head + 1
        PROVE  log'[(rev - 1) % LogCap] = rev
    <3>1. rev - 1 \in Nat /\ (rev - 1) % LogCap \in 0..(LogCap - 1)
      BY <1>0, SlotInRing
    <3>2. CASE rev = head + 1
      BY <1>0, <2>3, <3>1, <3>2 DEF TypeOK
    <3>3. CASE rev # head + 1
      <4>1. rev - 1 < head /\ head < (rev - 1) + LogCap /\ rev \in 1..head
            /\ rev + LogCap > head
        BY <1>0, <2>4, <3>3
      <4>2. (rev - 1) % LogCap # head % LogCap
        BY <1>0, <3>1, <4>1, RingSlots
      <4>3. log[(rev - 1) % LogCap] = rev
        BY <4>1 DEF LogWindow
      <4> QED
        BY <1>0, <2>3, <3>1, <4>2, <4>3 DEF TypeOK
    <3> QED
      BY <3>2, <3>3
  <2> QED
    BY <2>1, <2>2, <2>4 DEF LogWindow
<1>2. ASSUME ReclaimTick PROVE LogWindow'
  <2>1. PICK seen \in (Retain + Slack + 1)..head : Reclaim(seen - Retain)
    BY <1>2 DEF ReclaimTick
  <2>2. seen - Retain \in Nat
    BY <1>0, RetainAssumption
  <2>3. Dropped(seen - Retain) \in 0..logSize
    BY <1>0, <2>2, DroppedBound
  <2>4. logStart' + logSize' = logStart + logSize
    BY <1>0, <2>1, <2>3 DEF TypeOK, Reclaim
  <2> QED
    BY <2>1, <2>4 DEF Reclaim, LogWindow, head
<1>3. CASE UNCHANGED <<written, logVars>>
  BY <1>3 DEF LogWindow, head, logVars
<1> QED
  BY <1>1, <1>2, <1>3
  DEF Next, vars, logVars, Put, Delete, BeginRead, CloseReader, Deregister,
      OpenStream, OpenLiveStream, Receive, CloseStream, Unsubscribe

\* The log's window ends at the head and the newest LogCap events are in the
\* slots the replay reads, for every capacity and through every wraparound.
THEOREM LogWindowCorrect == Spec => []LogWindow
<1>1. Init => LogWindow
  BY DEF Init, LogWindow, head
<1> QED
  BY <1>1, LogStep, BaseInvariant, PTL DEF Spec

-----------------------------------------------------------------------------
(* Streams *)

\* With Retain >= 2 the reclaimer leaves at least one event in the log, which
\* is what lets StreamStart see that the log was truncated.  Replayed and
\* broadcast revisions have all been written.
StreamInv ==
  /\ head > 0 => logSize > 0
  /\ \A s \in Streams : streams[s].sent \subseteq 1..head
  /\ NoInnerGap

\* The replay of a stream that really starts at start misses at most start + 1.
LEMMA ReplayComplete ==
  ASSUME TypeOK, LogWindow, head > 0 => logSize > 0,
         NEW rev \in 0..head, NEW start, start = StreamStart(rev)
  PROVE  /\ start \in Nat
         /\ LogEvents(start) \subseteq (start + 1)..head
         /\ (start + 2)..head \subseteq LogEvents(start)
<1>0. head \in Nat /\ logStart \in Nat /\ logSize \in 0..LogCap /\ LogCap \in Nat
  BY HeadType, LogCapAssumption DEF TypeOK
<1>1. start \in Nat /\ (logSize > 0 => start + 1 >= logStart)
  BY <1>0 DEF StreamStart
<1>2. CASE start >= head
  <2>1. LogEvents(start) = {}
    BY <1>2 DEF LogEvents
  <2>2. (start + 2)..head = {}
    BY <1>0, <1>1, <1>2
  <2> QED
    BY <1>1, <2>1, <2>2
<1>3. CASE start < head
  <2>1. logSize > 0
    BY <1>0, <1>1, <1>3
  <2>2. LogEvents(start) = {v \in (start + 1)..head : log[(v - 1) % LogCap] = v}
    <3>1. (IF start >= logStart THEN start + 1 ELSE logStart) = start + 1
      BY <1>0, <1>1, <2>1
    <3>2. ~(logSize = 0 \/ start >= head)
      BY <1>0, <1>1, <1>3, <2>1
    <3> QED
      BY <3>1, <3>2, Zenon DEF LogEvents
  <2>3. ASSUME NEW v \in (start + 2)..head
        PROVE  v \in (start + 1)..head /\ log[(v - 1) % LogCap] = v
    <3>1. v \in 1..head /\ v \in (start + 1)..head /\ v + LogCap > head
      BY <1>0, <1>1, <2>1, <2>3 DEF LogWindow
    <3> QED
      BY <3>1 DEF LogWindow
  <2> QED
    BY <1>1, <2>2, <2>3
<1> QED
  BY <1>0, <1>1, <1>2, <1>3

LEMMA StreamStep ==
  ASSUME Retain >= 2
  PROVE  BaseInv /\ LogWindow /\ StreamInv /\ [Next]_vars => StreamInv'
<1> SUFFICES ASSUME BaseInv, LogWindow, StreamInv, [Next]_vars PROVE StreamInv'
  OBVIOUS
<1>0. /\ TypeOK /\ head \in Nat /\ logStart \in Nat /\ logSize \in 0..LogCap
      /\ LogCap \in Nat \ {0}
  BY HeadType, LogCapAssumption DEF BaseInv, TypeOK
<1> DEFINE Fine(s) ==
      /\ streams[s].sent \subseteq 1..head
      /\ Subscribed(s) => (streams[s].start + 2)..head \subseteq streams[s].sent
      /\ \A rev \in streams[s].sent :
           rev > streams[s].start /\ (streams[s].start + 2)..rev \subseteq streams[s].sent
<1>A. \A s \in Streams : Fine(s) /\ streams[s].start \in Nat
  BY <1>0 DEF StreamInv, NoInnerGap, TypeOK, Stream
<1>B. SUFFICES /\ head' > 0 => logSize' > 0
               /\ \A s \in Streams : Fine(s)'
  BY DEF StreamInv, NoInnerGap
<1> HIDE DEF Fine
<1>1. ASSUME NEW k \in Keys, NEW del \in BOOLEAN, PutOrDelete(k, del)
      PROVE  logSize' > 0 /\ \A s \in Streams : Fine(s)'
  <2>1. head' = head + 1 /\ AppendLog(head + 1)
    BY <1>0, <1>1, WriteHistory DEF PutOrDelete, TypeOK
  <2>2. logSize' > 0
    BY <1>0, <2>1 DEF AppendLog
  <2>3. ASSUME NEW s \in Streams PROVE Fine(s)'
    <3>1. streams'[s] = Offer(s, head + 1) /\ streams[s] \in Stream
      BY <1>0, <1>1 DEF PutOrDelete, TypeOK
    <3>2. Fine(s) /\ streams[s].start \in Nat
      BY <1>A
    <3>3. CASE Subscribed(s) /\ head + 1 > streams[s].start
               /\ Cardinality(Pending(s)) < ChanCap
      <4>1. /\ streams'[s].sent = streams[s].sent \cup {head + 1}
            /\ streams'[s].start = streams[s].start
            /\ streams'[s].state = streams[s].state
        BY <1>0, <3>1, <3>2, <3>3 DEF Offer, Stream
      <4>2. (streams[s].start + 2)..(head + 1)
              \subseteq ((streams[s].start + 2)..head) \cup {head + 1}
        BY <1>0, <3>2
      <4> QED
        BY <1>0, <2>1, <3>2, <3>3, <4>1, <4>2 DEF Fine, Subscribed
    <3>4. CASE Subscribed(s) /\ head + 1 > streams[s].start
               /\ ~(Cardinality(Pending(s)) < ChanCap)
      <4>1. /\ streams'[s].sent = streams[s].sent
            /\ streams'[s].start = streams[s].start
            /\ streams'[s].state = "dropped"
        BY <1>0, <3>1, <3>2, <3>4 DEF Offer, Stream
      <4> QED
        BY <1>0, <2>1, <3>2, <4>1 DEF Fine, Subscribed
    <3>5. CASE ~Subscribed(s) \/ head + 1 <= streams[s].start
      <4>1. streams'[s] = streams[s]
        BY <3>1, <3>5 DEF Offer
      <4>2. head + 1 <= streams[s].start => (streams[s].start + 2)..(head + 1) = {}
        BY <1>0, <3>2
      <4> QED
        BY <1>0, <2>1, <3>2, <3>5, <4>1, <4>2 DEF Fine, Subscribed
    <3> QED
      BY <1>0, <3>2, <3>3, <3>4, <3>5
  <2> QED
    BY <2>2, <2>3
<1>2. ASSUME ReclaimTick
      PROVE  (head' > 0 => logSize' > 0) /\ \A s \in Streams : Fine(s)'
  <2>1. PICK seen \in (Retain + Slack + 1)..head : Reclaim(seen - Retain)
    BY <1>2 DEF ReclaimTick
  <2>2. Dropped(seen - Retain) <= logSize - 1 /\ Dropped(seen - Retain) \in Nat
    BY <1>0, RetainAssumption DEF Dropped, LogWindow, StreamInv
  <2>3. logSize' > 0
    BY <1>0, <2>1, <2>2 DEF Reclaim
  <2> QED
    BY <1>A, <2>1, <2>3 DEF Reclaim, Fine, Subscribed, head
<1>3. ASSUME NEW s \in Streams, NEW start \in Nat, NEW replay,
             streams' = [streams EXCEPT ![s] = NewStream(start, replay)],
             written' = written,
             replay \subseteq (start + 1)..head,
             (start + 2)..head \subseteq replay
      PROVE  \A t \in Streams : Fine(t)'
  <2> SUFFICES ASSUME NEW t \in Streams PROVE Fine(t)'
    OBVIOUS
  <2>1. CASE t = s
    <3>1. streams'[t].start = start /\ streams'[t].sent = replay
      BY <1>0, <1>3, <2>1 DEF NewStream, TypeOK
    <3>2. \A rev \in replay :
            rev > start /\ (start + 2)..rev \subseteq (start + 2)..head
      BY <1>0, <1>3
    <3>3. replay \subseteq 1..head /\ head' = head
      BY <1>0, <1>3 DEF head
    <3> QED
      BY <1>3, <3>1, <3>2, <3>3 DEF Fine
  <2>2. CASE t # s
    <3>1. streams'[t] = streams[t]
      BY <1>0, <1>3, <2>2 DEF TypeOK
    <3> QED
      BY <1>A, <1>3, <3>1 DEF Fine, Subscribed, head
  <2> QED
    BY <2>1, <2>2
<1>4. ASSUME NEW s \in Streams, NEW rev \in 0..head, OpenStream(s, rev)
      PROVE  (head' > 0 => logSize' > 0) /\ \A t \in Streams : Fine(t)'
  <2>1. PICK start : start = StreamStart(rev)
    OBVIOUS
  <2>2. /\ start \in Nat
        /\ LogEvents(start) \subseteq (start + 1)..head
        /\ (start + 2)..head \subseteq LogEvents(start)
    BY <1>0, <2>1, ReplayComplete DEF StreamInv
  <2>3. streams' = [streams EXCEPT ![s] = NewStream(start, LogEvents(start))]
        /\ written' = written /\ logSize' = logSize
    BY <1>4, <2>1 DEF OpenStream, logVars
  <2>4. \A t \in Streams : Fine(t)'
    BY <1>3, <2>2, <2>3
  <2> QED
    BY <2>3, <2>4 DEF StreamInv, head
<1>5. ASSUME NEW s \in Streams, OpenLiveStream(s)
      PROVE  (head' > 0 => logSize' > 0) /\ \A t \in Streams : Fine(t)'
  <2>1. {} \subseteq (head + 1)..head /\ (head + 2)..head = {}
    BY <1>0
  <2>2. streams' = [streams EXCEPT ![s] = NewStream(head, {})]
        /\ written' = written /\ logSize' = logSize
    BY <1>5 DEF OpenLiveStream, logVars
  <2>3. \A t \in Streams : Fine(t)'
    BY <1>0, <1>3, <2>1, <2>2
  <2> QED
    BY <2>2, <2>3 DEF StreamInv, head
<1>6. ASSUME NEW s \in Streams, Receive(s) \/ CloseStream(s) \/ Unsubscribe(s)
      PROVE  (head' > 0 => logSize' > 0) /\ \A t \in Streams : Fine(t)'
  <2>1. written' = written /\ logSize' = logSize
    BY <1>6 DEF Receive, CloseStream, Unsubscribe, logVars
  <2>2. ASSUME NEW t \in Streams
        PROVE  /\ streams'[t].sent = streams[t].sent
               /\ streams'[t].start = streams[t].start
               /\ streams'[t].state \in {"live", "closing"} => Subscribed(t)
    <3>1. streams \in [Streams -> Stream]
      BY <1>0 DEF TypeOK
    <3>2. CASE Receive(s)
      <4>1. streams' = [streams EXCEPT ![s].taken = Min(Pending(s))]
        BY <3>2 DEF Receive
      <4> QED
        BY <3>1, <4>1 DEF Stream, Subscribed
    <3>3. CASE CloseStream(s)
      BY <3>1, <3>3 DEF CloseStream, Stream, Subscribed
    <3>4. CASE Unsubscribe(s)
      BY <3>1, <3>4 DEF Unsubscribe, Stream, Subscribed
    <3> QED
      BY <1>6, <3>2, <3>3, <3>4
  <2>3. \A t \in Streams : Fine(t)'
    BY <1>A, <2>1, <2>2 DEF Fine, Subscribed, head
  <2> QED
    BY <2>1, <2>3 DEF StreamInv, head
<1>7. CASE UNCHANGED <<written, logVars, streams>>
  BY <1>7, <1>A DEF StreamInv, Fine, Subscribed, head, logVars
<1>8. \/ \E k \in Keys, del \in BOOLEAN : PutOrDelete(k, del)
      \/ ReclaimTick
      \/ \E s \in Streams, rev \in 0..head : OpenStream(s, rev)
      \/ \E s \in Streams : OpenLiveStream(s)
      \/ \E s \in Streams : Receive(s) \/ CloseStream(s) \/ Unsubscribe(s)
      \/ UNCHANGED <<written, logVars, streams>>
  BY DEF Next, vars, logVars, Put, Delete, BeginRead, CloseReader, Deregister
<1> QED
  BY <1>1, <1>2, <1>4, <1>5, <1>6, <1>7, <1>8

\* When the reclaimer retains at least two revisions, a subscribed stream
\* misses at most the first event above its start and never a later one, and
\* a dropped stream got a gapless prefix: for every channel and log capacity.
THEOREM NoInnerGapCorrect ==
  ASSUME Retain >= 2
  PROVE  Spec => []NoInnerGap
<1>1. Init => LogWindow /\ StreamInv
  BY DEF Init, LogWindow, StreamInv, NoInnerGap, Subscribed, head
<1>2. StreamInv => NoInnerGap
  BY DEF StreamInv
<1> QED
  BY <1>1, <1>2, LogStep, StreamStep, BaseInvariant, PTL DEF Spec

-----------------------------------------------------------------------------
(* Snapshots *)

\* The snapshot of a stream names writes at or below its start, and its channel
\* gets only writes above it.  A stream that asked for no history starts at the
\* head: its snapshot bounds all that was written until then, and as long as it
\* is subscribed it is sent all that is written afterwards.
SnapOK(s) ==
  LET st == streams[s]
  IN  /\ st.sent \subseteq 1..head
      /\ \A rev \in st.sent : rev > st.start
      /\ st.opened <= head
      /\ \A k \in Keys : st.snap[k] <= st.start /\ (st.snap[k] = 0 \/ st.snap[k] \in WritesOf(k))
      /\ st.state # "none" /\ st.start >= st.opened =>
           /\ st.start = st.opened
           /\ \A k \in Keys : \A v \in WritesOf(k) : v <= st.opened => v <= st.snap[k]
           /\ Subscribed(s) => (st.opened + 1)..head \subseteq st.sent

SnapInv == \A s \in Streams : SnapOK(s)

\* What a snapshot reads: a retained version, and the newest of those in reach.
LEMMA SnapshotReads ==
  ASSUME BaseInv, NEW start \in Nat, NEW k \in Keys
  PROVE  /\ Snapshot(start)[k] \in Nat
         /\ Snapshot(start)[k] <= start
         /\ Snapshot(start)[k] = 0 \/ Snapshot(start)[k] \in WritesOf(k)
         /\ start >= head => \A v \in WritesOf(k) : v <= Snapshot(start)[k]
<1>0. head \in Nat
  BY HeadType DEF BaseInv, TypeOK
<1>1. PICK at \in Nat : at = IF start > head THEN head ELSE start
  BY <1>0
<1> DEFINE S == {v \in records[k] : v <= at}
<1>2. /\ records[k] \in SUBSET Nat
      /\ records[k] \subseteq WritesOf(k)
      /\ WritesOf(k) \subseteq 1..head
      /\ \A rev \in WritesOf(k) : \E v \in records[k] : rev <= v
  BY DEF BaseInv, TypeOK, RecordsInv, WritesOf
<1>3. S \in SUBSET Nat /\ \A x \in S : x <= at
  BY <1>2
<1>4. /\ Newest(S) \in Nat
      /\ S = {} => Newest(S) = 0
      /\ S # {} => Newest(S) \in S /\ \A x \in S : x <= Newest(S)
  <2> HIDE DEF S
  <2> QED
    BY <1>3, NewestOf
<1>5. Snapshot(start)[k] = Newest(S)
  BY <1>1 DEF Snapshot, VisibleAt
<1>6. ASSUME start >= head, NEW v \in WritesOf(k) PROVE v <= Newest(S)
  <2>1. PICK u \in records[k] : v <= u
    BY <1>2, <1>6
  <2>2. u \in S /\ u \in Nat /\ v \in Nat
    BY <1>0, <1>1, <1>2, <1>6, <2>1
  <2> QED
    BY <1>4, <2>1, <2>2
<1>7. Newest(S) <= start
  BY <1>0, <1>1, <1>3, <1>4
<1>8. Newest(S) = 0 \/ Newest(S) \in WritesOf(k)
  BY <1>2, <1>4
<1> QED
  BY <1>4, <1>5, <1>6, <1>7, <1>8

\* The revision a stream starts from, and what is replayed above it.
LEMMA ReplayAbove ==
  ASSUME TypeOK, LogWindow, NEW rev \in 0..head, NEW start, start = StreamStart(rev)
  PROVE  /\ start \in Nat /\ start <= head
         /\ LogEvents(start) \subseteq 1..head
         /\ \A v \in LogEvents(start) : v > start
<1>0. head \in Nat /\ logStart \in Nat /\ logSize \in 0..LogCap /\ LogCap \in Nat
  BY HeadType, LogCapAssumption DEF TypeOK
<1>1. start \in Nat /\ start <= head
  BY <1>0 DEF StreamStart, LogWindow
<1>2. PICK first \in Nat : first = (IF start >= logStart THEN start + 1 ELSE logStart) /\ first > start
  BY <1>0, <1>1
<1>3. LogEvents(start) \subseteq first..head
  BY <1>2 DEF LogEvents
<1> QED
  BY <1>0, <1>1, <1>2, <1>3

LEMMA SnapStep == BaseInv /\ LogWindow /\ SnapInv /\ [Next]_vars => SnapInv'
<1> SUFFICES ASSUME BaseInv, LogWindow, SnapInv, [Next]_vars PROVE SnapInv'
  OBVIOUS
<1>0. TypeOK /\ head \in Nat /\ \A s \in Streams : streams[s] \in Stream
  BY HeadType DEF BaseInv, TypeOK
<1>s. \A s \in Streams : /\ streams[s].start \in Nat /\ streams[s].opened \in Nat
                         /\ \A k \in Keys : streams[s].snap[k] \in Nat
  BY <1>0 DEF Stream
<1>w. \A k \in Keys : WritesOf(k) \subseteq 1..head
  BY DEF WritesOf
<1>1. ASSUME NEW j \in Keys, NEW del \in BOOLEAN, PutOrDelete(j, del), NEW s \in Streams
      PROVE  SnapOK(s)'
  <2>1. /\ head' = head + 1
        /\ \A k \in Keys : WritesOf(k)' = IF k = j THEN WritesOf(k) \cup {head + 1} ELSE WritesOf(k)
    BY <1>0, <1>1, WriteHistory DEF PutOrDelete, TypeOK
  <2>2. streams'[s] = Offer(s, head + 1)
    BY <1>1 DEF PutOrDelete
  <2>3. /\ streams'[s].start = streams[s].start
        /\ streams'[s].opened = streams[s].opened
        /\ streams'[s].snap = streams[s].snap
        /\ streams'[s].state # "none" <=> streams[s].state # "none"
        /\ streams[s].sent \subseteq streams'[s].sent
        /\ streams'[s].sent \subseteq streams[s].sent \cup {head + 1}
        /\ head + 1 \in streams'[s].sent => head + 1 \in streams[s].sent \/ head + 1 > streams[s].start
        /\ Subscribed(s)' /\ head + 1 > streams[s].start => Subscribed(s) /\ head + 1 \in streams'[s].sent
        /\ Subscribed(s)' => Subscribed(s)
    <3>1. CASE ~Subscribed(s) \/ head + 1 <= streams[s].start
      <4>1. streams'[s] = streams[s]
        BY <2>2, <3>1 DEF Offer
      <4> QED
        BY <1>0, <1>s, <3>1, <4>1 DEF Subscribed
    <3>2. CASE Subscribed(s) /\ head + 1 > streams[s].start /\ Cardinality(Pending(s)) < ChanCap
      <4>1. streams'[s] = [streams[s] EXCEPT !.sent = @ \cup {head + 1}]
        BY <1>0, <1>s, <2>2, <3>2 DEF Offer
      <4> QED
        BY <1>0, <3>2, <4>1 DEF Subscribed, Stream
    <3>3. CASE Subscribed(s) /\ head + 1 > streams[s].start /\ ~(Cardinality(Pending(s)) < ChanCap)
      <4>1. streams'[s] = [streams[s] EXCEPT !.state = "dropped"]
        BY <1>0, <1>s, <2>2, <3>3 DEF Offer
      <4> QED
        BY <1>0, <3>3, <4>1 DEF Subscribed, Stream
    <3> QED
      BY <1>0, <1>s, <3>1, <3>2, <3>3
  <2>4. SnapOK(s)
    BY DEF SnapInv
  <2>5. /\ streams'[s].sent \subseteq 1..head'
        /\ \A rev \in streams'[s].sent : rev > streams'[s].start
        /\ streams'[s].opened <= head'
    BY <1>0, <1>s, <2>1, <2>3, <2>4 DEF SnapOK
  <2>6. \A k \in Keys : /\ streams'[s].snap[k] <= streams'[s].start
                        /\ streams'[s].snap[k] = 0 \/ streams'[s].snap[k] \in WritesOf(k)'
    BY <2>1, <2>3, <2>4 DEF SnapOK
  <2>7. ASSUME streams'[s].state # "none", streams'[s].start >= streams'[s].opened
        PROVE  /\ streams'[s].start = streams'[s].opened
               /\ \A k \in Keys : \A v \in WritesOf(k)' :
                    v <= streams'[s].opened => v <= streams'[s].snap[k]
               /\ Subscribed(s)' => (streams'[s].opened + 1)..head' \subseteq streams'[s].sent
    <3>1. /\ streams[s].start = streams[s].opened
          /\ \A k \in Keys : \A v \in WritesOf(k) : v <= streams[s].opened => v <= streams[s].snap[k]
          /\ Subscribed(s) => (streams[s].opened + 1)..head \subseteq streams[s].sent
          /\ streams[s].opened <= head
      BY <2>3, <2>4, <2>7 DEF SnapOK
    <3>2. \A k \in Keys : \A v \in WritesOf(k)' :
            v <= streams'[s].opened => v <= streams'[s].snap[k]
      BY <1>0, <1>s, <2>1, <2>3, <3>1
    <3>3. (streams[s].opened + 1)..(head + 1) \subseteq (streams[s].opened + 1)..head \cup {head + 1}
      BY <1>0, <1>s
    <3>4. head + 1 > streams[s].start
      BY <1>0, <1>s, <3>1
    <3> QED
      BY <2>1, <2>3, <3>1, <3>2, <3>3, <3>4
  <2> QED
    BY <2>5, <2>6, <2>7 DEF SnapOK
<1>2. ASSUME NEW s \in Streams, written' = written, streams'[s] = streams[s]
      PROVE  SnapOK(s)'
  <2>1. head' = head /\ \A k \in Keys : WritesOf(k)' = WritesOf(k)
    BY <1>2 DEF head, WritesOf
  <2> QED
    BY <1>2, <2>1 DEF SnapInv, SnapOK, Subscribed
<1>3. ASSUME NEW s \in Streams, NEW start \in Nat, NEW replay \in SUBSET (1..head),
             start <= head, \A v \in replay : v > start,
             streams' = [streams EXCEPT ![s] = NewStream(start, replay)],
             written' = written
      PROVE  SnapInv'
  <2>1. head' = head /\ \A k \in Keys : WritesOf(k)' = WritesOf(k)
    BY <1>3 DEF head, WritesOf
  <2>2. streams'[s] = NewStream(start, replay) /\ \A t \in Streams : t # s => streams'[t] = streams[t]
    BY <1>0, <1>3 DEF TypeOK
  <2>3. /\ streams'[s].start = start /\ streams'[s].opened = head
        /\ streams'[s].snap = Snapshot(start) /\ streams'[s].sent = replay
    BY <2>2 DEF NewStream
  <2>4. \A k \in Keys : /\ Snapshot(start)[k] <= start
                        /\ Snapshot(start)[k] = 0 \/ Snapshot(start)[k] \in WritesOf(k)
                        /\ start >= head => \A v \in WritesOf(k) : v <= Snapshot(start)[k]
    BY SnapshotReads
  <2>5. (head + 1)..head = {}
    BY <1>0
  <2>6. SnapOK(s)'
    <3>1. /\ streams'[s].sent \subseteq 1..head'
          /\ \A rev \in streams'[s].sent : rev > streams'[s].start
          /\ streams'[s].opened <= head'
      BY <1>0, <1>3, <2>1, <2>3
    <3>2. \A k \in Keys : /\ streams'[s].snap[k] <= streams'[s].start
                          /\ streams'[s].snap[k] = 0 \/ streams'[s].snap[k] \in WritesOf(k)'
      BY <2>1, <2>3, <2>4
    <3>3. ASSUME streams'[s].start >= streams'[s].opened
          PROVE  /\ streams'[s].start = streams'[s].opened
                 /\ \A k \in Keys : \A v \in WritesOf(k)' : v <= streams'[s].snap[k]
                 /\ (streams'[s].opened + 1)..head' \subseteq streams'[s].sent
      <4>1. start = head
        BY <1>0, <1>3, <2>3, <3>3
      <4> QED
        BY <1>0, <2>1, <2>3, <2>4, <2>5, <4>1
    <3> QED
      BY <3>1, <3>2, <3>3 DEF SnapOK
  <2> QED
    BY <1>2, <1>3, <2>2, <2>6 DEF SnapInv
<1>4. ASSUME NEW s \in Streams, NEW rev \in 0..head, OpenStream(s, rev) PROVE SnapInv'
  <2>1. PICK start : start = StreamStart(rev)
    OBVIOUS
  <2>2. PICK replay : replay = LogEvents(start)
    OBVIOUS
  <2>3. start \in Nat /\ start <= head /\ replay \in SUBSET (1..head) /\ \A v \in replay : v > start
    BY <1>0, <2>1, <2>2, ReplayAbove
  <2>4. streams' = [streams EXCEPT ![s] = NewStream(start, replay)] /\ written' = written
    BY <1>4, <2>1, <2>2 DEF OpenStream
  <2> QED
    BY <1>3, <2>3, <2>4
<1>5. ASSUME NEW s \in Streams, OpenLiveStream(s) PROVE SnapInv'
  <2>1. PICK start \in Nat : start = head
    BY <1>0
  <2>2. streams' = [streams EXCEPT ![s] = NewStream(start, {})] /\ written' = written
    BY <1>5, <2>1 DEF OpenLiveStream
  <2>3. start <= head /\ {} \in SUBSET (1..head)
    BY <2>1
  <2>4. \A v \in {} : v > start
    OBVIOUS
  <2> QED
    BY <1>3, <2>2, <2>3, <2>4
<1>6. ASSUME NEW s \in Streams, Receive(s) \/ CloseStream(s) \/ Unsubscribe(s) PROVE SnapInv'
  <2>1. written' = written /\ \A t \in Streams : t # s => streams'[t] = streams[t]
    BY <1>0, <1>6 DEF Receive, CloseStream, Unsubscribe, TypeOK
  <2>2. /\ streams'[s].sent = streams[s].sent
        /\ streams'[s].start = streams[s].start
        /\ streams'[s].opened = streams[s].opened
        /\ streams'[s].snap = streams[s].snap
        /\ Subscribed(s)' => Subscribed(s)
        /\ streams'[s].state # "none" => streams[s].state # "none"
    <3>1. CASE Receive(s)
      <4>1. streams' = [streams EXCEPT ![s].taken = Min(Pending(s))]
        BY <3>1 DEF Receive
      <4> QED
        BY <1>0, <4>1 DEF TypeOK, Stream, Subscribed
    <3>2. CASE CloseStream(s) \/ Unsubscribe(s)
      BY <1>0, <3>2 DEF CloseStream, Unsubscribe, TypeOK, Stream, Subscribed
    <3> QED
      BY <1>6, <3>1, <3>2
  <2>3. head' = head /\ \A k \in Keys : WritesOf(k)' = WritesOf(k)
    BY <2>1 DEF head, WritesOf
  <2>4. SnapOK(s)'
    BY <2>2, <2>3 DEF SnapInv, SnapOK
  <2> QED
    BY <1>2, <2>1, <2>4 DEF SnapInv
<1>7. CASE UNCHANGED <<written, streams>>
  BY <1>2, <1>7 DEF SnapInv
<1>8. \/ \E k \in Keys, del \in BOOLEAN : PutOrDelete(k, del)
      \/ \E s \in Streams, rev \in 0..head : OpenStream(s, rev)
      \/ \E s \in Streams : OpenLiveStream(s)
      \/ \E s \in Streams : Receive(s) \/ CloseStream(s) \/ Unsubscribe(s)
      \/ UNCHANGED <<written, streams>>
  BY DEF Next, vars, Put, Delete, BeginRead, CloseReader, Deregister, ReclaimTick, Reclaim
<1> QED
  BY <1>1, <1>4, <1>5, <1>6, <1>7, <1>8 DEF SnapInv

LEMMA SnapInit == Init => SnapInv
BY DEF Init, SnapInv, SnapOK, head

\* A stream that asked for no history never misleads its consumer: snapshot
\* and events together name the last write of every key, whatever was reclaimed
\* before or after it was opened (snapshot.go:48-56, 90-101).
THEOREM LiveStreamCorrect == Spec => []LiveStreamConverges
<1>1. Init => LogWindow
  BY DEF Init, LogWindow, head
<1>2. BaseInv /\ SnapInv => LiveStreamConverges
  <2> SUFFICES ASSUME BaseInv, SnapInv, NEW s \in Streams, NEW k \in Keys, Subscribed(s),
                      streams[s].start >= streams[s].opened
               PROVE  Newest({streams[s].snap[k]} \cup (streams[s].sent \cap WritesOf(k)))
                        = Newest(WritesOf(k))
    BY DEF LiveStreamConverges
  <2> DEFINE S == {streams[s].snap[k]} \cup (streams[s].sent \cap WritesOf(k))
  <2>0. head \in Nat /\ streams[s] \in Stream /\ WritesOf(k) \subseteq 1..head
    BY HeadType DEF BaseInv, TypeOK, WritesOf
  <2>1. streams[s].opened \in Nat /\ streams[s].snap[k] \in Nat
    BY <2>0 DEF Stream
  <2>2. /\ streams[s].sent \subseteq 1..head
        /\ streams[s].snap[k] = 0 \/ streams[s].snap[k] \in WritesOf(k)
        /\ \A v \in WritesOf(k) : v <= streams[s].opened => v <= streams[s].snap[k]
        /\ (streams[s].opened + 1)..head \subseteq streams[s].sent
    <3>1. streams[s].state # "none" /\ SnapOK(s)
      BY DEF Subscribed, SnapInv
    <3> QED
      BY <3>1 DEF SnapOK
  <2>3. /\ \A v \in S : v = 0 \/ v \in WritesOf(k)
        /\ \A v \in WritesOf(k) : \E u \in S : v <= u
    <3>1. ASSUME NEW v \in WritesOf(k) PROVE \E u \in S : v <= u
      <4>1. CASE v <= streams[s].opened
        BY <2>2, <4>1
      <4>2. CASE ~(v <= streams[s].opened)
        <5>1. v \in (streams[s].opened + 1)..head /\ v <= v
          BY <2>0, <2>1, <3>1, <4>2
        <5> QED
          BY <2>2, <5>1
      <4> QED
        BY <4>1, <4>2
    <3> QED
      BY <2>2, <3>1
  <2>4. S \in SUBSET Nat /\ S # {} /\ \A x \in S : x <= head
    BY <2>0, <2>1, <2>2
  <2>5. WritesOf(k) \in SUBSET Nat /\ \A x \in WritesOf(k) : x <= head
    BY <2>0
  <2> HIDE DEF S
  <2>6. Newest(S) \in S /\ \A x \in S : x <= Newest(S)
    BY <2>0, <2>4, NewestOf
  <2>7. CASE WritesOf(k) = {}
    <3>1. Newest(S) = 0
      BY <2>3, <2>6, <2>7
    <3> QED
      BY <2>7, <3>1 DEF S, Newest
  <2>8. CASE WritesOf(k) # {}
    <3>1. PICK v \in WritesOf(k) : v > 0
      BY <2>0, <2>8
    <3>2. PICK u \in S : v <= u
      BY <2>3
    <3>3. Newest(S) # 0
      BY <2>4, <2>5, <2>6, <3>1, <3>2
    <3>4. Newest(S) \in WritesOf(k)
      BY <2>3, <2>6, <3>3
    <3>5. ASSUME NEW x \in WritesOf(k) PROVE x <= Newest(S)
      <4>1. PICK y \in S : x <= y
        BY <2>3
      <4>2. y <= Newest(S) /\ x \in Nat /\ y \in Nat /\ Newest(S) \in Nat
        BY <2>4, <2>5, <2>6
      <4> QED
        BY <4>1, <4>2
    <3>6. PICK m \in WritesOf(k) : m = Newest(S) /\ \A x \in WritesOf(k) : x <= m
      BY <3>4, <3>5
    <3>7. Newest(WritesOf(k)) = m
      BY <2>5, <3>6, NewestIs
    <3> QED
      BY <3>6, <3>7 DEF S
  <2> QED
    BY <2>7, <2>8
<1> QED
  BY <1>1, <1>2, SnapInit, SnapStep, LogStep, BaseInvariant, PTL DEF Spec

-----------------------------------------------------------------------------
(* Refinement *)

\* What Get answers depends only on the history of writes.
LEMMA GetFromHistory ==
  ASSUME BaseInv, NEW k \in Keys
  PROVE  LET w == Newest(WritesOf(k))
         IN  /\ w \in 0..head
             /\ Get(k) = IF w = 0 \/ written[w].del THEN 0 ELSE w
<1>1. head \in Nat
  BY HeadType DEF BaseInv, TypeOK
<1>2. WritesOf(k) \in SUBSET Nat /\ WritesOf(k) \subseteq 1..head
      /\ \A x \in WritesOf(k) : x <= head
  BY <1>1 DEF WritesOf
<1>3. Newest(WritesOf(k)) \in 0..head
  <2>1. CASE WritesOf(k) = {}
    BY <1>1, <2>1 DEF Newest
  <2>2. CASE WritesOf(k) # {}
    <3>1. Newest(WritesOf(k)) \in WritesOf(k)
      BY <1>1, <1>2, <2>2, NewestOf
    <3> QED
      BY <1>1, <1>2, <3>1
  <2> QED
    BY <2>1, <2>2
<1>4. Newest(records[k]) = Newest(WritesOf(k))
  BY LatestFromRecords DEF LatestKept
<1> QED
  BY <1>3, <1>4 DEF Get

LEMMA WriteRefines ==
  ASSUME BaseInv, BaseInv', NEW k \in Keys, NEW del \in BOOLEAN, PutOrDelete(k, del)
  PROVE  KV!KVWrite(k, del)
<1>0. LatestKept'
  BY LatestFromRecords, PTL
<1>1. head \in Nat /\ written \in Seq(Write)
  BY HeadType DEF BaseInv, TypeOK
<1>2. /\ head' = head + 1
      /\ \A rev \in 1..head : written'[rev] = written[rev]
      /\ written'[head + 1] = [key |-> k, del |-> del]
      /\ \A j \in Keys :
           WritesOf(j)' = IF j = k THEN WritesOf(j) \cup {head + 1} ELSE WritesOf(j)
  BY <1>1, WriteHistory DEF PutOrDelete
<1>3. ASSUME NEW j \in Keys, j # k PROVE Get(j)' = Get(j)
  <2>1. WritesOf(j)' = WritesOf(j)
    BY <1>2, <1>3
  <2>2. PICK w : w = Newest(WritesOf(j))
    OBVIOUS
  <2>3. w \in 0..head /\ Get(j) = IF w = 0 \/ written[w].del THEN 0 ELSE w
    BY <2>2, GetFromHistory
  <2>4. Newest(WritesOf(j))' = w
    BY <2>1, <2>2 DEF Newest
  <2>5. Get(j)' = IF w = 0 \/ written'[w].del THEN 0 ELSE w
    <3>1. Newest(records[j])' = Newest(WritesOf(j))'
      BY <1>0 DEF LatestKept
    <3> QED
      BY <2>4, <3>1 DEF Get
  <2> QED
    BY <1>1, <1>2, <2>3, <2>5
<1>4. Get(k)' = IF del THEN 0 ELSE head + 1
  <2>1. WritesOf(k)' = WritesOf(k) \cup {head + 1}
    BY <1>2
  <2>2. WritesOf(k) \subseteq 1..head
    BY DEF WritesOf
  <2>3. Newest(WritesOf(k) \cup {head + 1}) = head + 1
    BY <1>1, <2>2, NewestIs
  <2>4. Newest(WritesOf(k))' = head + 1
    BY <2>1, <2>3 DEF Newest
  <2>5. Get(k)' = IF head + 1 = 0 \/ written'[head + 1].del THEN 0 ELSE head + 1
    <3>1. Newest(records[k])' = Newest(WritesOf(k))'
      BY <1>0 DEF LatestKept
    <3> QED
      BY <2>4, <3>1 DEF Get
  <2> QED
    BY <1>1, <1>2, <2>5
<1>5. [j \in Keys |-> Get(j)]' =
        [[j \in Keys |-> Get(j)] EXCEPT ![k] = IF del THEN 0 ELSE head + 1]
  BY <1>3, <1>4
<1>6. head < MaxRev
  BY DEF PutOrDelete
<1>7. (IF head = 0 THEN "none" ELSE written[head])' = [key |-> k, del |-> del]
  BY <1>1, <1>2
<1> QED
  BY <1>2, <1>5, <1>6, <1>7 DEF KV!KVWrite

\* A step without a write changes no answer of Get.
LEMMA OtherStepsStutter ==
  ASSUME BaseInv, BaseInv', written' = written
  PROVE  UNCHANGED KV!kvVars
<1>1. LatestKept /\ LatestKept'
  BY LatestFromRecords, PTL
<1>2. \A k \in Keys : WritesOf(k)' = WritesOf(k)
  BY DEF WritesOf, head
<1>3. ASSUME NEW k \in Keys PROVE Get(k)' = Get(k)
  <2>1. Newest(records[k]) = Newest(WritesOf(k))
    BY <1>1 DEF LatestKept
  <2>2. Newest(records[k])' = Newest(WritesOf(k))'
    BY <1>1 DEF LatestKept
  <2>3. Newest(WritesOf(k))' = Newest(WritesOf(k))
    BY <1>2 DEF Newest
  <2> QED
    BY <2>1, <2>2, <2>3 DEF Get
<1>4. head' = head
  BY DEF head
<1> QED
  BY <1>3, <1>4 DEF KV!kvVars

\* The MVCC store implements the atomic map of KVSpec: whatever the reclaimer,
\* the readers and the streams do, a client that writes and reads current
\* values cannot tell the store from a map.
THEOREM StoreRefinesKV == Spec => RefinesKV
<1>1. Init => KV!KVInit
  <2> SUFFICES ASSUME Init PROVE KV!KVInit
    OBVIOUS
  <2>1. head = 0
    BY DEF Init, head
  <2>2. \A k \in Keys : Get(k) = 0
    BY DEF Init, Get, Newest
  <2> QED
    BY <2>1, <2>2 DEF KV!KVInit
<1>2. BaseInv /\ BaseInv' /\ [Next]_vars => [KV!KVNext]_KV!kvVars
  <2> SUFFICES ASSUME BaseInv, BaseInv', [Next]_vars
               PROVE  [KV!KVNext]_KV!kvVars
    OBVIOUS
  <2>1. CASE \E k \in Keys, del \in BOOLEAN : PutOrDelete(k, del)
    BY <2>1, WriteRefines DEF KV!KVNext
  <2>2. CASE written' = written
    BY <2>2, OtherStepsStutter
  <2> QED
    BY <2>1, <2>2
    DEF Next, vars, Put, Delete, BeginRead, CloseReader, Deregister, ReclaimTick,
        Reclaim, OpenStream, OpenLiveStream, Receive, CloseStream, Unsubscribe
<1> QED
  BY <1>1, <1>2, BaseInvariant, PTL DEF Spec, RefinesKV, KV!KVStore

=============================================================================
