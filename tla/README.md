# A TLA+ development of the coordination service

The program is a single-process coordination service in Go: an MVCC key-value
store with change streams, leases, fair locks, watches, leader election and
client sessions behind an HTTP API. This directory models every component that
keeps state, checks the models with TLC and proves their safety properties and
refinements with TLAPS.

## 1. Inventory

### Components, state, operations

| Component | Source | State | Operations |
|---|---|---|---|
| MVCC store | `internal/store/store.go`, `mvcc.go` | `records` (versions per key), `head`, open readers | `Put`, `Delete`, `Get`, `BeginRead`, `GetAt`, `Reader.Close` |
| Change log and streams | `internal/store/store.go`, `snapshot.go` | ring `log`, `logStart`, `logSize`, registered streams with a channel of 512 | `appendLogLocked`, `logEventsLocked`, `broadcastLocked`, `OpenStream`, `OpenLiveStream`, `Snapshot`, `Stream.Close` |
| Reclaimer | `internal/store/reclaim.go`, `main.go` `reclaimLoop` | none of its own | `Reclaim` every two seconds |
| Lease manager | `internal/lease` | registered leases with deadlines, key bindings, callback | `Create`, `Renew`, `BatchRenew`, `RenewMany`, `Revoke`, `BindKey`, `ConsumeKeys`, `ExpireOnce`, `Alive` |
| Lock manager | `internal/lock` | lock entries (holder, lease, queue), waiters, sequence number | `TryAcquire`, `Acquire`, `Release`, `ReleaseByLease`, `Cancel` |
| Expiry wiring | `cmd/coordination/expiry.go`, `main.go`, `api.go` | none of its own | `expiryHandler`, `handleKVPut` |
| Election | `internal/election` | role, term, leader name and lease, last heartbeat | `Campaign`, `Handoff`, `Resign`, `Heartbeat`, `CheckTimeout`, `stepDown` |
| Watch hub | `internal/watch` | subscriptions (cursor, peer, retries), acknowledgements | `Watch`, `Attach`, `Ack`, `Cancel`, `deliverLoop`, `push`, `scheduleRetry` |
| Session manager | `internal/session` | sessions (state, watches with cursors, leases, last seen) | `Connect`, `Disconnect`, `Reconnect`, `RegisterWatch`, `AckWatch`, `Close`, `ExpireStale` |
| HTTP API, configuration, console, hashing, record codec | `cmd/coordination`, `web`, `internal/store/hash.go` ... | - | request decoding and presentation |

### Interactions

* Every manager has one mutex and each of its methods is one locked region.
  What interleaves is the code *between* locked regions: `Acquire` between
  `TryAcquire`, `enqueue` and its `select`; `ExpireOnce` between removal and
  notification; `expiryHandler`, which visits the lock manager, the lease
  manager and the store in turn; `handleKVPut`, which binds a key and then
  writes it; the two halves of `Reader.Close` and `Stream.Close`; `Campaign`,
  `Handoff`, `Resign` and `Heartbeat`, which call the lease manager between two
  regions of the election; `Watch`, which reads the head and opens a stream in
  two regions of the store; `Reconnect`, `Disconnect` and `Close` of a session,
  which call the lease manager and the watch hub with the session unlocked.
* Every subscription has a delivery goroutine, and every failed send a goroutine
  of its own that tries again.
* The lock manager calls `lease.Manager.Alive` under its own mutex; the lease
  manager runs its callback outside its mutex, and the callback calls back into
  both managers. There is no cycle of held mutexes.
* Lock transitions are written to the store under `locks/`, where watches see
  them.
* Four loops run beside the API goroutines: the lease scan, the reclaimer, the
  election heartbeat and the stale-session scan.
* Nothing is persisted: a restart begins from the initial state.

### What makes each component correct

* Store: a client that writes and reads current values sees an atomic map; the
  log window and the ring agree; reclaiming loses neither a key's last write
  nor what an open reader pins; a stream has no hole.
* Leases: no lease ends early, every overdue lease ends, every end is reported
  once, bound keys go with it.
* Locks: one holder, no lost wake-up, first come first served, no starvation,
  the persisted records follow the holder.
* Composition: at most one request may act as the holder; callbacks take only
  what belongs to their lease; keys do not outlive it.
* Election: no leadership lease without a leader or a goroutine in charge of it,
  one leader in a term, a leader that lost its lease steps down, one that has it
  stays.
* Watch: every matching event once, none lost between snapshot, stream, peer and
  retries; cancelling ends everything.
* Session: a reconnect resumes the keys that were asked for from where delivery
  stopped, no subscription outlives everybody who would cancel it, abandoned
  sessions are closed.

`PROJECT.json` lists the hazards behind these properties line by line.

## 2. Modules

| Module | Models |
|---|---|
| `KVSpec` | the promise of the store: an atomic map with one revision counter |
| `Store` | store, change log, streams, reclaimer; refines `KVSpec` |
| `Lock` | lock manager with requests as processes |
| `LeaseSpec` | the promise of the lease manager: a table of deadlines |
| `Lease` | lease manager with API goroutines, the scanner and callbacks; refines `LeaseSpec` |
| `Expiry` | `Lease` and `Lock` composed by `expiryHandler`, with `handleKVPut` |
| `Election` | the election over `LeaseSpec`, with API goroutines and the heartbeat |
| `HubSpec` | the promise of the watch hub: a registry of subscriptions with cursors |
| `Watch` | the watch hub over `Store`; refines `HubSpec` |
| `Session` | the session manager over `HubSpec` and `LeaseSpec` |
| `MCStore`, `MCLock`, `MCLease`, `MCExpiry`, `MCElection`, `MCWatch`, `MCSession` | small instances for TLC |
| `OrderLemmas` | extrema of sets of naturals, slots of a ring |
| `StoreProofs`, `LockProofs`, `LeaseProofs`, `ElectionProofs`, `WatchProofs`, `SessionProofs` | theorems about the module of that name and their proofs |
| `ExpiryProofs` | theorems about `Expiry`, over `LeaseProofs` and `LockProofs` |

### Store

A write is known by its revision: `written[rev]` is what it did, `records[k]`
the revisions of the retained versions of `k`, a log slot or channel entry the
revision of its event. `head` is the length of `written`. Version slices only
grow by appending `head + 1`, so they are sets; `rec.versions[len-1]` is their
largest element, and `sort.Search` the largest element at or below a bound. A
record with no versions and a missing record are the same.

`Put` and `Delete` are the whole handlers: version, log, broadcast. A stream is
`live`, `closing` (between the two locked regions of `Close`), `closed`, or
`dropped` when its channel was full. Its channel is `Pending`: what was `sent`
and is above the last revision `taken`. `ReclaimTick` reads the head at some
earlier moment, as `reclaimLoop` does. `Slack` is the loop's `+ 8`. The ring
index and the log window are translated literally, with `logStart` starting at
0. Revisions are 64-bit in the code and far from overflow.

### Lock

A request is one call of `Acquire`, with `pc` at the points between its locked
regions: `idle`, `retry`, `enqueue`, `waiting` (in the `select`), `cancel` (took
`ctx.Done`, about to call `Cancel`), then `holding` or `timedout`, `released`
and, for a client that repeats `Release`, `gone`. The entry of a lock exists
exactly while somebody holds it, since `TryAcquire` and `wakeNext` grant or
remove it before they unlock; so `holder[l]` is the request it was granted to,
or `NoRequest`. `ContextDone` may be taken when the channel is closed already,
as Go's `select` may. `Release` and `Cancel` compare client *names*, which is
why `ClientOf` is a parameter.

`wakeNext` asks for the liveness of one waiter after the other; the model reads
the leases at one instant. `journal[l]` is what is persisted under `locks/l`.

### Lease

`gen` counts the incarnations of a lease id. `threads[t]` is where goroutine `t`
is in the callback. Callers read the clock before they enter the manager, so the
time they pass may be up to `Lag` old. A notification consists of `Notify`
(`ReleaseByLease` is called), `ConsumeKeys`, one `CleanKey` for each key, and
the return. `scan` holds what `ExpireOnce` removed under the lock and has yet to
look at again. A write to a nil map in `BindKey` panics, is recovered by
`net/http` and changes nothing, so it is no step; a property says when it
can happen (`MapLostToLateCallback`). `notified`, `acked` and `overrun` are
history variables.

`LeaseSpec` keeps of all this only the deadlines. `Lease` refines it with
`table[id]` = the deadline of a registered lease and 0 otherwise, so the modules
on top can use its actions `Create`, `Renew`, `Expire` and `Revoke` in place of
the manager. What they give up are the callbacks, which concern neither the
election nor the sessions.

### Expiry

Both managers with `alive` replaced by the registered leases, and of the store
the key presence `kv`. `under[r]` is the incarnation a request asked under, so
`Believes(r)` says that the client of `r` may act as the holder: it was granted
the lock, has not released it, and its lease has not ended since it asked.
Incarnations and `under` are history: the code compares lease ids only.

### Election

`calls[p]` is where API goroutine `p` is in `Campaign`, `Handoff` or `Resign`
(with the `Follow` that its handler adds), and `loop` where the heartbeat
goroutine is. Each region under `e.mu` and each call into the lease manager is
one action: `Campaign`, `Create`, `Install` or `Lost`; `Handoff`,
`HandoffRevoke` or `HandoffAbort`, and then as in `Campaign`; `Resign`,
`ResignRevoke`, `Follow`; `CheckTimeout` or `Heartbeat`, `RenewOk` with `Stamp`
or `RenewFailed`, `StepDown`, `StepDownRevoke`. `leadershipLeaseID` is one to one, so leases are named by
their candidates; `Campaign` always takes this node's name, `Handoff` any name
and any term from 1 on. Leases also end through the scanner and through clients,
and clients may renew them (`Elsewhere`). One assumption is made on clients: none
creates a lease under an `election/leader/` id, although `handleLeaseCreate`
takes any id. Such a lease has no owner, makes the next `Campaign` fail, and, created
between a failed renewal and the step-down, makes the deposed leader look
healthy, so `LeaseOwned` and `StepsDownOnStaleCheck` rest on it. The lease clock and the heartbeat clock are different objects in
the code that show the same time, and one variable here. `OnLeaseExpired` is
called nowhere and is no action. `elected`, `overlapped`, `lowered`, `aborted`
and `loop.fresh` are history: terms with a leader; API calls overlapped; a
`Handoff` named a term that was not new; a `Handoff` gave up at a failed
`Revoke`; no leader was installed since the heartbeat goroutine last checked.

### Watch

`Watch` uses the actions of `Store` for writing, reclaiming, opening, receiving
and closing. An event is its revision. A subscription is `opening` between the
comparison of `startRev` with the head and the opening of its stream, during
which `w.mu` is held, and `closing` from the locked region of `Cancel` until
stream and peer are closed. `left` are the snapshot entries that the delivery
goroutine has yet to look at (`snapshotEntries` sorts them, so it takes the
smallest), `ch` what went to the subscription's channel before a peer was
attached, `got` what the peer received, in order. The goroutine's `check`,
`push` and `send` are the regions between which retries run. `retry[w][rev]` is
the goroutine that `scheduleRetry` starts for an event; `sub.retries` contains
the event exactly while that goroutine is `waiting`. A send fails when the peer
is closed, or at most `MaxFail` times for any other reason.

`hub`, the refinement mapping to `HubSpec`, is the registry `w.subs` with the
key and start of each subscription.

### Session

The maps `Watches` and `Keys` of a session are one function from ids to key and
cursor, in which an id that has no key has the empty one, as reading the Go map
gives. `calls[p]` is a request between two regions with its copies of the maps
(`todo`, `made`) and leases; `stale` is the goroutine of `RunStaleLoop`, with
the sessions it found and what it knew of them. A watch handler is `register`,
`touch` (`AttachPeer`), `serve`, and `Leave` when the client is gone. `Watch` of
the hub may refuse, so `ResumeOne` may skip a watch. `asked`, `stray` and
`disturbed` are history: the keys clients subscribed to; an ack named a watch
that its session does not track; a session was reconnected while connected, or
changed by two calls at a time. The empty key, `NoKey`, may be among the keys
clients subscribe to; TLC's instance leaves it out for its size, the theorems do
not. `Disconnect`, `Close`, `Heartbeat` and
`AckWatch` have no handler in `api.go`; they are the manager's interface and
modelled as requests like the others.

## 3. Runs

Bounds are constants of the modules: `MaxRev` writes, `MaxClock` ticks, `MaxGen`
creations of a lease id, `MaxTerm` terms, `MaxCalls` API calls, `MaxFail` failed
sends, `MaxWatch` subscriptions, and the sets of keys, readers, streams,
requests, handlers and puts. Deadlock checking is off: every bounded behaviour ends, and
the program may be idle.

Passing:

| Run | Instance | Shows |
|---|---|---|
| `store_core` | 2 keys, a reader, a stream, log of 2, channel of 1, 4 writes, 2 revisions retained | types, log window, last writes, pinned versions, no hole in a stream, live streams converge, refinement of `KVSpec` |
| `lock_core` | 4 requests, 2 of them under leases that may die, one repeats `Release`; fair | mutual exclusion, no lost wake-up, order, records, no starvation |
| `lease_core` | 2 leases, TTL 2, lag 1, 4 ticks, 2 incarnations of each; fair | no early removal, overdue leases go, bindings are lost only to late callbacks, refinement of `LeaseSpec` |
| `expiry_core` | a request under the lease and one without, 2 puts of one key, 2 incarnations | who may act as the holder is the recorded holder; callbacks spare requests without a lease, clean up the keys of their lease and delete no others |
| `election_core` | 2 candidates, 2 API goroutines with 3 calls, 2 terms, TTL 3, heartbeat interval 2, lag 1, 3 ticks; fair | leases have owners, `Candidate` is transient, wrong step-downs come from stale checks, one leader in a term, a leader without a lease steps down |
| `watch_core` | one subscription to one of 2 keys, 3 writes, log of 2, channels of 1, one failing send, one ack; fair | events are delivered once, none is lost, each is received, goroutines end, refinement of `HubSpec` |
| `session_core` | one session, a lease, 2 request goroutines with 4 requests, 3 subscriptions, stale after 1 tick; fair | no leaked subscription, what is resumed and from where, only stale sessions are closed and abandoned ones are |

These are the smallest instances in which the cases of interest occur: a log of
two wraps within four writes and is truncated by the reclaimer; a channel of one
overflows; four requests give a holder, a waiter that is passed over, one that
is granted and one that cancels; two incarnations let a callback meet its lease
id created again; a lag of one tick against a TTL of two lets a renewal be
overtaken; three calls let a leader be elected, deposed by the heartbeat and
followed while the old lease is still in some goroutine's hands, and a TTL above
the heartbeat interval is what the configuration has; a log of two and a
subscription from revision 1 make both a live stream and a replay, and a channel
of one lets the stream be dropped, the unread channel fill up and a retry be
overtaken; three subscriptions and four requests let a watch be opened, resumed
and resumed again while another request acknowledges or closes. The theorems of
section 4 remove the bounds for everything but liveness.

Violations. Each checks one sentence of the repository that the code does not
keep; `PROJECT.json` quotes the line.

| Run | The repository says | The code does |
|---|---|---|
| `store_get_at` | `GetAt` returns the newest version at or below the reader's revision | finds only a version written at exactly that revision |
| `expiry_holders` | a lock has one holder | a late callback releases the lock of the id's new incarnation |
| `expiry_stuck` | an expired lease does not hold the lock | `ReleaseByLease` ignores dead leases |
| `election_window` | a handoff leaves no window with two leaders | overlapping calls leave two leadership leases registered |
| `watch_order` | events come with a monotonic cursor | a retried event comes after later ones |

Other limits of the code that the models show, for which no run is kept; where
one contradicts a comment of the source, the comment is named:

* `watch.go:58-60` says that the channel of `Watch` "delivers a snapshot (events
  at or below startRev)". The cursor starts at `startRev` (`watch.go:68`) and
  `deliverLoop` skips every entry at or below the cursor (`watch.go:163`), so
  exactly these are never delivered: a client that starts at the revision of a
  key's value is not sent that value. TLC reaches this in six states: put, compare,
  open, take the entry, skip it. No property of `Watch` promises these entries or
  their absence;
* `watch.go:119` says that `Cancel` "closes its channel". The delivery goroutine
  closes it when it ends, and waits only on its stream. When the store has dropped
  that stream (`store.go:201-213`), `Stream.Close` finds it marked closed and
  leaves its channel open, so after `Cancel` the goroutine stays for ever and the
  subscription's channel open (`watch.go:172-179`). `CancelEndsLoop` makes an
  exception for it; without the exception TLC finds it violated under the same
  fairness;
* after eviction or truncation `logStart` names a revision that is not in the
  ring, so a replay from there lacks its first event (`store.go:187`); `Owed` in
  `Watch` excepts it;
* `Snapshot` lacks keys whose visible version was reclaimed (`reclaim.go:32`);
* a request that is granted a lock as its deadline fires gets `ErrTimedOut` and
  stays the holder (`lock.go:107`), which is why `NoStarvation` stops at the
  first deadline;
* the scan reports a removal only if the id is registered again (`expire.go:29`);
* a key written after its lease's callback stays (`api.go:101`);
* `Disconnect` and `Reconnect` revive a closed session although `types.go:181`
  calls it permanently terminated;
* the subscriptions that `Reconnect` opens never get a peer in the server, so
  their events stay in a channel nobody reads.

The passing properties of `Lease` and `Expiry` state how far the promise goes
instead: `overrun` records the incarnations that were disturbed by the callback
of an earlier incarnation of the same id, and `late` the puts that wrote after
their lease had ended. `HolderIsRecorded`, `MapLostToLateCallback` and
`CallbackCleans` say that nothing else goes wrong: the re-use of a lease id
before its callback is done, and the gap between binding and writing a key, are
the only causes. `NoEarlyRemoval` carries the `Lag` for the same reason: a
delayed renewal moves the deadline back, but never by more than the delay.
`LeaseOwned`, `OneLeaderPerTerm`, `StepsDownOnStaleCheck`, `ResumesAskedKeys`,
`CursorAhead` and `NoLeakedWatch` are of the same kind: their hypotheses name the
one way in which the code does not keep the promise, and the property says that
it is the only one; it does not detect that one way itself. `CancelEndsLoop`
excepts dropped streams in the same manner, and `EventAccounted` is about events
after the start revision only; the list above says why. For `CursorAhead` that is an ack for a watch its session does
not track; the hypothesis is about all sessions, since the watch may be one of
another session.

Every property of a passing run has a mutant: an operator beside the definition
it changes, marked as such, which breaks the property.

### Fairness

* `Lock`: a request's goroutine keeps running (`retry`, `Enqueue`, `Woken`,
  `Cancel`), and a client that holds the lock releases it. The last is an
  assumption on clients, the one any lock needs. Deadlines and leases are free.
* `Lease`: the scan repeats with the current time (`time.After` in a loop), and
  goroutines in a callback go on.
* `Expiry`: the same, and a put that bound its key writes it. Clients need not
  release, renew or revoke.
* `Election`: the ticker of `RunHeartbeat` fires again after every round, and a
  goroutine inside a call goes on. Nobody need call, and no lease need end.
* `Watch`: the delivery goroutine runs while it can, a call of `Watch` or
  `Cancel` that began ends, and some retry goroutine of a subscription runs while
  one can. Sends fail finitely often, which `MaxFail` bounds; without that a
  client that cannot be written to is never reached. Clients need not attach,
  acknowledge or cancel.
* `Session`: the stale loop repeats, and a goroutine inside a call goes on, except
  that only the client ends a watch handler.

## 4. Proofs

All theorems are checked by TLAPS, for every value of the constants that
satisfies the named assumptions of the modules (`LogCapAssumption` and its
neighbours in `Store`, `RequestAssumption`, `LeaseAssumption`,
`ExpiryAssumption`, `ElectionAssumption`, `WatchAssumption`,
`SessionAssumption`): special values are different from ordinary ones,
capacities and the TTL are positive, bounds are natural numbers. The bounds of
section 3 are parameters like the others, so the theorems hold however large
they are. Seven theorems have a hypothesis besides, named below: `DistinctNames`
or `Retain >= 2`.

Every safety invariant, action property and refinement that a passing run checks
is stated by a theorem. TLC finds no violation of the inductive invariants on
small instances either.

**Store.** `TypeCorrect`. `BaseInv` adds to the type invariant `RecordsInv`:
retained versions are writes of their key, and every write of a key has a
retained version at or above it. It is inductive because `Reclaim` spares the
newest version; it gives `LatestKeptCorrect` and, with what `Get` reads,
`StoreRefinesKV` (initial states map to initial states, a write to a write,
every other step to a stutter). `ReadersPinnedCorrect` is an action property:
the floor is at most the revision of a registered reader. `LogWindowCorrect`
needs that `LogCap` consecutive revisions have distinct slots (`OrderLemmas`).
`NoInnerGapCorrect` assumes `Retain >= 2` (the default is 256), so that the
reclaimer never empties the log; `StreamInv` says just that (a written store has
a nonempty log) and that every revision a stream was sent has been written. With
`Retain = 1` TLC finds a hole. `LiveStreamCorrect` rests on `SnapInv`: the
snapshot names writes up to the start of the stream and the channel later ones;
without history the stream starts at the head, so the snapshot bounds all writes
made until then, and all later ones are sent. Since this is about what was read
at opening time, it survives whatever the reclaimer does afterwards.

**Lock.** `LockInv` consists of `ManagerInv`, `GrantedInv` (told to hold implies
holder) and `NoLostWakeup`. `ManagerInv` says that the holder asked for this lock
and has not released it, though it may have timed out (`HolderInv`), that a
queued request waits on an entry somebody else holds, with its channel open and
a ticket of its own (`QueueInv`), and that tickets differ (`TicketInv`). Mutual
exclusion alone is not inductive: a grant in transit, with the channel closed
and the goroutine not yet running, must count. Under `DistinctNames` (requests
for one lock come from different clients) `LockInvariant` gives
`MutualExclusionCorrect`, `NoLostWakeupCorrect` and `GrantsInOrderCorrect`.
Without that hypothesis a repeated `Release` by one request releases the lock of
another, so it is needed. `TypeCorrect` and `JournalFollowsCorrect` need no such
hypothesis. The lemmas on `wakeNext` and on releasing several locks at once are
stated for any set of living leases, so `ExpiryProofs` can use them.

**Lease.** `LeaseInv` adds to the type invariant `ThreadInv`, that a goroutine in
the callback reports an incarnation that was removed, and `DeadlineInv`, that a
registered lease expires at most `Lag` before what the acknowledged renewal
promises. `MapLostCorrect` follows from the first (who consumes the map of a
registered lease reports an earlier incarnation), `NoEarlyRemovalCorrect` from
the second. `LeaseRefinesSpec` maps each operation to the one of `LeaseSpec` of
the same kind and the callback's steps to stutters.

**Expiry.** What one manager preserves is taken from `LeaseProofs` and
`LockProofs` through `INSTANCE`. `LockInv` as a whole does not carry over: ids
are registered again and callbacks take locks, so `GrantedInv` is false here.
What is inductive is its conditional form `CurrentInv`: a request whose
incarnation is the last of its lease, and not overrun, holds what it was
granted. With `ManagerInv`, `LeaseInv` and `UnderInv` (no request knows a
future incarnation) it gives `HolderRecordedCorrect` and `LeaselessCorrect`, both
under `DistinctNames`. The keys have an invariant of their own, `PutInv`: while
the incarnation of a put lives, the map has its key, and afterwards the key is
in the map or on the list of a callback (`KeptInv`); after the callback was
invoked, the map is gone or a callback is about to take it (`TakenInv`); bound
keys and keys on such a list come from puts under that lease. It gives
`CallbackCleansCorrect` and `DeletesOnlyBoundCorrect`, with no hypothesis on
names.

**Election.** `TypeCorrect` with `LocalInv` (the locals a goroutine uses next are
set). `SerialInv`: as long as calls do not overlap there is at most one, nobody
leads while it runs, and only a leader has a lease recorded; that makes
`LeaseOwned` inductive. `TermInv`: as long as `Handoff` names new terms, no
elected term is ahead of the current one, and a call about to install a leader
does so in a new term; that gives `OneLeaderCorrect`. `StaleInv`, for
`StepsDownCorrect`: a check which no `Install` has overtaken concerns the lease
recorded now. `CandidateIsTransient` is inductive with `TypeOK` and `LocalInv`.

**Watch.** The store's part is taken from an instance of `StoreProofs`
(`StoreInv`): every step of `Watch` is a step of the store or leaves it alone.
The hub's part holds for each subscription, any number of them. `StageInv` says
what runs in which state. `PlaceInv` says that an event is in one place at a
time: what the delivery goroutine has yet to take is above the event it took
last, what was received or is being retried is at or below it. `CursorInv`: a
retry moves the cursor back, but never below the start. `FlowInv`: what was in
the snapshot or entered the channel is accounted for. `DeliveredOnceCorrect` is
part of `PlaceInv`; `EventAccountedCorrect` adds the store's `StreamInv` and with
it the hypothesis `Retain >= 2`. `WatchRefinesHub` maps the step that registers
a subscription, `Ack` and `Cancel` to those of `HubSpec` and all others to
stutters.

**Session.** `BaseInv` is `TypeOK` with `LocalInv` (locals not in use are empty)
and `UsedInv` (an id the hub has not issued occurs nowhere). `ClosesStaleCorrect`
follows from it. `KeyInv` extends `ResumesAskedKeys` to the copies of the maps
that calls carry. `CursorInv` says that each subscription is tracked by one
session or held by one call, and that cursors in calls are not behind either.
For `NoLeakCorrect`, `SerialInv` says that an undisturbed session is changed by
one call at a time, and `AnchorInv` who is in charge of an open subscription: a
connected session that is not being resumed, a call, or the stale loop. Proving
`CursorCorrect` corrected the property: with the hypothesis on the session alone
it holds for one session and fails for two, because an ack that names a watch of
another session raises what the hub knows and leaves that session's cursor
behind.

**Only model-checked:** the liveness properties `NoStarvation`, `OverdueRemoved`,
`LostLeaderStepsDown`, `EventuallyReceived`, `CancelEndsLoop` and
`AbandonedIsCleaned`. They depend on fairness, and so on `ENABLED`, which the
prover does not support.

## 5. Not modelled

JSON, HTTP status codes, logging, the console and configuration parsing are I/O
or presentation; the read-only status handlers change nothing. The NUL-joined
lock record is written and never read outside the store's tests. Shard hashing
is a pure function over a vendored library that no modelled component calls.
`ManualClock.Set` to an earlier instant is left out. A restart is `Init`, since
nothing is persisted, and shutdown only stops the loops: the server's context
and the `stop` channel never fire in the models. `Chans` of a session is written
and never read. `Election.OnLeaseExpired` is called by nothing.

The modules above the lease manager and the hub use `LeaseSpec` and `HubSpec`
instead of `Lease` and `Watch`; the refinements, checked by a run and proved, are
what licenses it. TLC runs `Watch` with one subscription; the theorems about it
hold for any number.

## 6. Status

Done: all components that keep state, with the runs above, and a theorem for each
safety property and refinement they check. The composition in `Expiry` is the
only one in which `Lease` and `Lock` act on each other; `Election` and `Session`
rest on the proved refinements. What could be added: the lock record's encoding
as an operator with its inverse, and the read-only API handlers.
