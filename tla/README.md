# A TLA+ verification of A3Net

A3Net is a Rust workspace of about eighty crates: a peer-to-peer node
(transport, DHT, gossip, blob store, mesh VPN), an offline mailbox, a chat
application on top of them, and shared infrastructure. The `crates/adnet-*`
directories are older copies of the `crates/a3net-*` crates and are left aside.
The repository has three small specifications of its own in `verification/tla/`
(a DHT, a gossip overlay and Bitswap, each as a protocol idea); the modules here
are translated from the Rust code instead.

The project covers the code where concurrency, time and failure decide whether
the program is right, and which other crates build on:

* `a3net-resilience`: the circuit breaker with retry and HTTP client, the
  two-level resource limiter, and the cancellation token and scope;
* `a3net-mailbox`: store-and-forward of messages for recipients that are offline,
  from the HTTP client through the server to the SQLite table;
* `a3net-blobstore`: blobs on disk, the pin index, the garbage collector and the
  commands that run beside it;
* `a3net-dht`: the provider lookup with its retries, the table of pending requests
  and the tracker of failing peers;
* `a3net-gossip`: the room bus, the deduplication filter and the message store.

Contents: [components](#1-components), [modules](#2-modules),
[runs](#3-runs), [proofs](#4-proofs), [findings](#5-findings),
[limits](#6-what-is-not-covered), [plan](#7-plan).

## 1. Components

### Circuit breaker, retry, HTTP client (`a3net-resilience`)

*State*: one `Inner` behind a write lock, shared by all clones of a
`ResilientHttpClient`: state (Closed, Open, HalfOpen), failure and success
counters, the start of the failure window and the moment of the last trip.
*Operations*: `allow_request`, `record_success`, `record_failure`; `get` calls
`allow_request`, runs `retry_with_backoff` and records one outcome.
*Hard*: a `get` is long. Results of calls admitted before a trip reach the
breaker in whatever state it is by then; a caller may drop the future between
admission and outcome; time passes in between.
*Right when*: a trip holds for its dwell time whatever arrives late, late results
do not push the recovery out, a Closed breaker has not missed its threshold, and
a healthy service gets its breaker closed again.

### Resource limiter (`a3net-resilience`)

*State*: a global tokio semaphore, a map from keys to per-key semaphores, five
counters; per call, the key's semaphore it cloned and the permits it took.
*Operations*: `try_acquire`, `acquire` (key permit first, then the global one,
each with a timeout and raced against a cancellation token), dropping a permit,
`reap_key`.
*Hard*: every statement of `acquire` is a point where other callers run, the
token fires, the timeout expires or the caller drops the future; a task holds
one permit while it waits for the other; `reap_key` may drop a semaphore that a
call has cloned and not used yet.
*Right when*: no path loses or invents a permit, bounds hold, a permit holds both
slots, the counters follow the calls, a call whose token fires in time gets no permit,
waiters are served and leave on shutdown.

### Cancellation token and scope (`a3net-resilience`)

*State*: the flag and tokio `Notify` of the token; the scope's list of tracked
tasks behind an async mutex; per `join`, its snapshot of handles, summary and
deadline. The node owns one scope and shuts its background tasks down with it.
*Operations*: `cancel`, `cancelled().await`, `spawn` (which tracks the task only
if `try_lock` succeeds), `join`, `shutdown`.
*Hard*: the check of the flag and the registration as a waiter race with
`cancel`; `spawn` races `join`; two callers may shut down at once; a task may
ignore the token.
*Right when*: no wakeup is lost, shutdown returns, no handle is collected twice,
and what was tracked has ended or was told to.

### Mailbox (`a3net-mailbox`)

*State*: table `envelopes` in SQLite (idempotency key, per-recipient sequence,
expiry); per request, what its transaction read; per recipient, the paging
cursor and the watermark it remembers.
*Operations*: `enqueue_handler` (validate, read usage, check quota, insert),
`pull_handler`, `ack_handler`, the sweeper's `purge_expired`; on the client
`enqueue`, `pull_all` (page after page) and `ack`.
*Interaction*: senders and recipients talk HTTP to the server; handlers run
concurrently and meet only in the database.
*Hard*: quota check and insert are two store calls; two connections may serve
one recipient, so unique sequences rest on SQLite's snapshot isolation; replies
get lost after the commit, senders retry; statements fail; the server crashes;
envelopes arrive and expire between two pages.
*Right when*: an envelope confirmed to its sender is stored, handed over or
expired (at least once); sequences of an inbox are distinct; `pull_all` misses
nothing; the quota is overshot by no more than the requests in flight; a polling
recipient gets its mail, and expired mail goes.

### Blob store, pins, garbage collection (`a3net-blobstore`, the pin and repo commands)

*State*: a directory per blob with its chunk files, `meta.json` and the sentinel
`complete`; `pin.json`; the scheduler's loop (interval, consecutive errors, shutdown
signal, join handle).
*Operations*: `put_bytes`, `remove`; `pin add`, `pin rm`, `pin gc` (load, change a copy,
save); a sweep (load the pins, list the complete blobs, remove the unpinned ones);
`repo gc --prune-unpinned`; `shutdown`.
*Interaction*: the commands and the node are separate processes that meet only in
the files; nothing locks a directory or `pin.json`.
*Hard*: a save truncates the file before it writes it; a sweep works on the pins it
loaded; an I/O error of `pin.json` may pass for an empty set; puts and removals of one
blob interleave file by file; the node dies at any file.
*Right when*: a complete blob has its chunks; a pinned blob survives; an unpinned one
goes, also after a crash; nothing is deleted once shutdown has returned.

### DHT requests (`a3net-dht`)

*State*: the pending table of request ids, per request a one-shot channel, the
failure counts and cooldowns of peers, the provider records of the local store.
*Operations*: `find_providers` (local store first, then the closest peers one after
the other), `get_providers` with its retry loop, `handle_response`, `try_acquire`,
`record_success`, `record_failure`.
*Hard*: a request is sent before its id is entered; answers are lost, late, or of
the wrong type; a timeout leaves its id behind; calls share the tracker; a caller
drops the future.
*Right when*: the answer to a waiting request reaches it and no other does, the
table keeps only what was abandoned, a peer in cooldown is left alone, and every
call returns.

### Gossip bus (`a3net-gossip`)

*State*: a broadcast channel per room that keeps the last 1024 announcements; per
subscription a task; a deduplication cache and a message store that subscriptions
may share.
*Operations*: `publish`; the receiving task of `subscribe`, `subscribe_with_filter`,
`subscribe_with_persistence` and its variant without deduplication;
`check_and_insert` with eviction and periodic cleanup; the store's `store` and
`cleanup_expired`.
*Hard*: a slow task is told `Lagged` and skips; an id leaves the cache while its
message still circulates; the store numbers a message under one lock and stores it
under another.
*Right when*: nothing is lost but what was skipped or filtered, a remembered id is
delivered once, and the store keeps the newest messages.

### The other components

`PROJECT.json` lists them with the reason for leaving each out. Those with logic
of their own, in the order in which they are worth modelling:

| component | state | what is hard |
|---|---|---|
| mailbox in-memory store | a list per recipient | numbers envelopes with the length of the list plus one |
| DHT lookup (`query.rs`, `bucket.rs`) | k-buckets, candidates of a lookup | batches of already queried peers |
| DHT records | provider and value store with clocks | a cached record that outlives its provider |
| Bitswap, swarm | want-list, sessions | sessions that fail midway |
| pairing, mesh coordinator | one-time codes, trusted devices, admissions | use once, expiry, retries |
| group sync in `a3chat-app` | a second, lock-free circuit breaker, sync cursors | atomics read and written in separate steps |
| sender keys in `a3chat-crypto` | ratchet counters | messages out of order |
| namespace, relay control, webhook queue | record sequence numbers, sessions, retry queue | stale records, reconnects, retries |

The rest is data types, cryptography, I/O wrappers, user interfaces, bindings
and test tooling.

## 2. Modules

| module | models | kind |
|---|---|---|
| `CircuitBreaker` | `circuit_breaker.rs`, `http.rs`, attempt loop of `retry.rs` | component |
| `ResourceLimiter` | `resource.rs` | component |
| `PermitPool` | what the limiter promises | abstract specification |
| `CancellationScope` | `cancellation.rs` | component |
| `Mailbox` | `server.rs`, `sqlite_store.rs`, `policy.rs` (quota), `client.rs` of `a3net-mailbox`, composed | component |
| `StoreAndForward` | what the mailbox promises | abstract specification |
| `MCMailbox` | sets of envelopes, symmetry | model |
| `PinSet` | `pin_set.rs`: the index as pure operators | operators |
| `BlobStore` | `store.rs`: directories, `put_bytes_sync`, `remove` | component, extends `PinSet` |
| `GarbageCollection` | `gc_scheduler.rs`, `gc_orphans` of `store.rs`, the pin and repo commands | composition, extends `BlobStore` |
| `MCGarbageCollection` | two blobs that share a chunk | model |
| `DhtRequests` | `network.rs`, `retry.rs`, `find_providers` of `node.rs` | component |
| `MCDhtRequests` | two calls, two peers | model |
| `GossipBus` | `bus.rs`, `dedup.rs`, `persistence.rs`, `transport.rs` of `a3net-gossip` | component |
| `MCGossipBus` | subscriptions of three kinds | model |
| `CircuitBreakerProofs`, `ResourceLimiterProofs`, `CancellationScopeProofs`, `MailboxProofs`, `GarbageCollectionProofs`, `DhtRequestsProofs`, `GossipBusProofs` | theorems about the module named, and about the modules it extends or instantiates | proofs |

Conventions. One action is what happens between two points where another task
can run: an `await`, a lock being taken or released, a single atomic. `pc`
variables say where a call stands. What a property needs and the program does
not keep is a history variable and marked as such. A definition marked as a
mutant, just before the one it alters, is the code with a plausible mistake; it is
used nowhere, and putting it in that definition's place breaks the property it is
listed with in `PROJECT.json`.

**CircuitBreaker.** Each method of the breaker is one step (one write lock); a
`get` is several: `Allow*`, `AttemptOk`/`AttemptErr` per attempt, `Record*`.
`DropGet` is the caller dropping the future. An `Instant` is its `elapsed()`,
saturated one past the last value a comparison distinguishes, so time is
unbounded and the state space finite. A refused call changes nothing and is no
step. Back-off delays only pass time, which `Tick` does at any moment.

**ResourceLimiter.** tokio semaphores are modelled from their use: FIFO queue, permits
handed to the first waiter, a dropped waiter leaves the queue or gives back what it was
handed. `key_semaphore`'s look-up and creation are separate actions, `Untracked` is the
second look under the write lock. Releases of the two slots of a permit are separate
steps, and so are the end of `acquire`'s waits (`Finish`), its late look at the token
(`LateCheck`) and the return of the permit (`Grant`). `Cancel` sets the flag,
`NotifyWaiters` wakes; in between a wait may still be granted. `doomed` is history: the
calls the token caught before their late check. `Fresh`/`NewSema` allocate an identity
for a new `Arc<Semaphore>`, so a reaped semaphore that a call still refers to exists
beside its successor. `ImplementsPool` maps "the call returned a permit that is not
dropped yet" to ownership in `PermitPool`.

**CancellationScope.** `cancelled()` is its sequence of flag check, creation of
the `Notified`, second check, await and third check; a `Notified` completes if
`notify_waiters` was called after its creation (`epoch`). `poll_some` looks only
at the last handle until that one is finished, as in the code. An abort is a
request which lands at the task's next await. `try_lock` in `spawn` fails while `join`
holds the mutex, and may fail at any other moment against another `spawn` or
`tracked_count`.

**Mailbox.** `Enqueue`, `CheckQuota`, `Select`, `Insert`, `Reply` are the stages of one
`enqueue_handler`; `StorageFails` is an error of any of its statements. The transaction
is DEFERRED: `Select` fixes its snapshot, every later commit of anybody sets `stale`,
and the insert of a stale transaction can only fail (`SQLITE_BUSY_SNAPSHOT`).
`Disconnect` drops the handler at an await or loses the reply; the blocking task with
the transaction is not dropped. `Crash` loses handlers and keeps committed rows: the
death of the process, not a power cut, in which `synchronous=NORMAL`
(`sqlite_store.rs:81`) may lose the last commits. `PullPage` and `Ack` are the
recipient's side with the handlers' single statement in it; an ack that names a message
twice, or none, is rejected. Validation failures are one nondeterministic refusal, all
envelopes have one size, metrics are left out. `KeepsPromise` maps the set of stored
keys to `held` in `StoreAndForward`; the rest maps to itself.

**PinSet, BlobStore, GarbageCollection.** `PinSet` has one operator per method, on a
function from hashes to records. In `BlobStore` a step is one file: `PutWrite` writes a
chunk or, last, the sentinel, `UnlinkFile` deletes one. Repeated chunks are one file, a
`.sha` file goes with its chunk, and `meta.json`, written between the chunks and the
sentinel, is left out, so `PutsCrashSafe` says nothing of it. `GarbageCollection` adds
the processes. A pin command is `PinAdd`, `PinRm` or `PinGc` (load and change),
`SaveOpen` (truncate), `SaveSome`/`SaveRest` (write), and may be killed. `Load`, `List`,
`RemoveBegin`, `Unlink`, `RmDir`, `Finish` are a sweep, by the scheduler or by `repo gc
--prune-unpinned`; they differ in what they make of a file that does not parse or cannot
be read. `Io` says how the system calls of `PinSet::load` end: they work, `exists()` is
false for an error of stat (an empty set for everybody), or `fs::read` fails (an error,
which `repo gc` turns into an empty set). `PinAdd`'s `meta` is the same for the blob's
`meta.json`, without which no chunks are found. `Report` is the end of a turn of
`run_loop`. `Crash` restarts the node. An interrupted put leaves a directory without
sentinel, which a later put completes. `held` and `calm` are history: what an operator
believes is pinned, and whether one of the six ways to lose a pin (named in the module
at `Prepare`) has happened. A stored blob that is a chunk of another is its own only
chunk (`BlobStoreAssumption`): a chunk is never longer than `CHUNK_SIZE`, so cutting it
gives one piece, and piece and blob are named by the hash of the same bytes.

**DhtRequests.** One attempt of `get_providers` is `Acquire`, `Send`/`SendFails`,
`Register`, then `Receive` or `Timeout`; `find_node` repeats the same loop line by line
and is not modelled again. An answer is chosen when it arrives; a lost one never does.
`handle_response` matches the id alone, so an answer is an id with a body, whoever sent
it. A failing `send_to` may have put the request on the wire. `Timeout`, `CoolsDown` and
`Expire` may happen at any moment, so the policy's durations do not matter. `failures`
saturates at the threshold, where the code compares with `>=`.

**GossipBus.** An announcement is its place in the sequence of all broadcasts; the
channel holds the last `ChannelSize`. A task is `Recv` or `Lag`, `Check` (the filter's
lock, then the tracker's), `Count` and `Push` (the store's two locks), `Send`. The four
kinds of subscription are the same task with stages left out. The cache is the
sequence of its ids, since the code keeps map and order list in step. Lifetimes
end at any moment. `bridge::unwrap` and serialisation are taken to succeed.

## 3. Runs

| run | result | properties | what it shows |
|---|---|---|---|
| `circuit_breaker` | pass | `TypeOK` `CooldownHolds` `ClosedBelowThreshold` `DwellNotExtended` `Recovers` | two callers with retries, a dropped call and late results; with `success_threshold = 1` the breaker closes once the service heals |
| `breaker_recovers` | violation | `Recovers` | with `success_threshold = 2` it does not |
| `resource_limiter` | pass | `TypeOK` `PermitsConserved` `MetricsBalance` `NoPermitAfterCancel` `ImplementsPool` `WaitersServed` `CancelDrains` | three callers, two keys, one of them reaped, time-outs, token, a dropped future: permits, counters and the pool hold, nobody is stuck behind another for ever, all leave on shutdown |
| `scope_shutdown` | pass | `TypeOK` `JoinMeansEnded` `ShutdownReturns` `CancelWakes` | two shutdowns at once, a task that ignores the token, spawns in between |
| `mailbox_safety` | pass | `TypeOK` `SequencesUnique` `UniqueNeverFires` `ConfirmedKept` `QuotaOvershoot` `PullComplete` `KeepsPromise` | two handlers, a paging recipient, the sweeper, a crash or lost message |
| `mailbox_liveness` | pass | `Delivered` `ExpiredSwept` | two inboxes in one database, either recipient may be offline |
| `mailbox_watermark` | violation | `NothingSkipped` | a recipient that passes its watermark misses an envelope |
| `blob_gc` | pass | `TypeOK` `PutsCrashSafe` `CalmKeepsPins` `ShutdownWaits` `OrphansCollected` | scheduler, prune, pin commands, puts, crashes and I/O errors over two blobs that share a chunk |
| `blob_pins` | violation | `PinsHonoured` | a sweep that loads `pin.json` while it is saved deletes pinned blobs |
| `dht_requests` | pass | `TypeOK` `AnswerIsOwn` `LeaksOnlyAbandoned` `PeerSpared` `AnswerReachesWaiter` `CallReturns` | two lookups, a shared table and tracker, lost, late and invalid answers |
| `dht_correlation` | violation | `AnswersCorrelated` | an answer that overtakes its registration is dropped |
| `gossip_bus` | pass | `TypeOK` `NoDuplicates` `NothingElseLost` `NewestKept` | three subscriptions, a full channel, a full cache, a full store, expiry |

**Bounds.** Behaviours of the code do not depend on identities, so small sets
of callers suffice for pairwise races; each bound leaves room for the case that
its properties are about.

* Breaker: two clients give one stale and one new call. `FailureThreshold = 2`
  needs two failures, `Timeout = 2` has a tick before, at and after the border,
  `MaxAttempts = 2` retries once, `MaxDrops = 1`. The clock is not bounded. No
  state is without successor, and deadlock is checked.
* Limiter: `GlobalLimit = 2` and `PerKeyLimit = 1` make both bounds tight; two callers
  of `acquire` and one of `try_acquire` give a holder, a waiter and a reaper's victim,
  and a caller that waits for the global permit with its key permit in hand while the
  others keep theirs. Three semaphore identities never run out. `MaxCalls` and
  `MaxDrops` bound calls and dropped futures (464 thousand states).
* Scope: one task that observes the token and one that does not, two shutdowns,
  a deadline of two ticks.
* Mailbox, safety: three envelopes and three requests on two handlers with
  `MaxInflight = 1` reach the overshoot; `PageSize = 1` makes every pull several
  pages; `Ttl = 1` and `MaxTime = 1` let envelopes expire; `MaxFaults = 1` is a crash,
  a lost reply, a failed page or a lost ack; storage errors are not bounded (1.1 million
  states). Liveness has one handler and two
  inboxes, `MaxTime = 2`. More than one recipient, and any number of everything,
  is covered by the proofs.
* Blob store: blob `once` has one chunk and is its own chunk, `twice` repeats that
  chunk, so pins share hashes in both ways the code allows. Three events (a pin command, a put,
  a prune, a kill, a crash or a failing read, in any mix; 2 million states) reach every pairing of
  two disturbances around a sweep. Longer sequences of pin commands are left to the
  proof of `CalmKeepsPins`, which needs no bound: the shortest one that drops a pin by
  the last of the six ways has four commands. `MaxInterval = 2` lets the back-off reach its
  limit. One caller of `shutdown` suffices, as a later one returns at once.
* DHT: two calls that ask the same near peer, one of which goes on to a second;
  two attempts and a threshold of two let one call's failures start the cooldown
  the other one meets. Nothing else is bounded: a call makes one find (770 thousand
  states).
* Gossip: three broadcasts on a channel of two make a task lag; three ids and a
  cache of two evict; one message per sender is the store's limit and two tasks
  store, so numbers go up to six; two senders reach the limit on the total. One
  lifetime ends.

`CHECK_DEADLOCK FALSE` is said where a bound lets the callers stop (limiter, mailbox,
DHT, gossip) or where the system really ends (a scope or a scheduler that is shut
down). Symmetry is used only in two safety runs: on the mailbox's handlers, and on the
two message ids of one sender of the gossip bus.

**Fairness.** The tokio runtime polls every task that is ready: weak fairness of the
steps of a call, a handler or a worker. Time passes: weak fairness of `Tick` where a
deadline matters (breaker, scope). In the breaker's runs callers keep calling and every
attempt ends, by `request_timeout`. The sweeper's interval never stops. The node's
garbage collector keeps running while its process lives (`NodeStep`: the sweep, the
sleep, a shutdown that can return; never more than one of them is enabled). A DHT call
is polled and its timer fires (`CallStep`), and `send_to` returns: the trait does not
say so, the timeouts of the bridges do (`a3net-node/src/dht_bridge.rs:141`, :159,
`quic.rs:902`). A `cancel()` that has set the flag goes on to notify. The network, the
peers and the operators owe nothing. The gossip run is about safety only. Nothing is
assumed of the users: that holders drop their permits (`PermitsAreDropped`) and that a
recipient polls (`KeepsPolling`) are hypotheses inside `WaitersServed` and `Delivered`,
`CancelDrains` and `ExpiredSwept` do without them, and a worker in `Stuck` need not ever
reach an await.

## 4. Proofs

All theorems are checked by TLAPS for every value of the constants that the named
assumption of the module admits. These assumptions give types (natural numbers,
finite sets of callers, distinct sentinels); `ConfigAssumption` also asks for at
least one attempt, without which `retry_with_backoff` panics, `DhtAssumption` for at
least one caller, and `BlobStoreAssumption` for the fact about chunks stated in
section 2. Every safety property and action property of the passing runs is a theorem,
and so are both refinements.

**`CircuitBreakerProofs`**: `TypeCorrect`, `Cooldown`, `Threshold`, `DwellKept`. `IInv` adds
`AttemptsLeft` (a call still sending has attempts left, for the type of the
counter) and `OpenedAtSet` (`opened_at` is set exactly while the breaker is not
Closed) to the properties: without the latter a late success in HalfOpen could
not be told from one during the dwell time. `DwellKept` is about steps: it follows
from `OpenedAtSet` and a look at each action.

**`ResourceLimiterProofs`**: `TypeCorrect`, `Conservation`, `MetricsAccurate`,
`BothSlots`, `GlobalBounded`, `KeyBounded`, `NoLatePermit`, `LimiterIsPool`,
`WaitersInLine`, `GaugeNeverRecovers`. `IInv` adds `CallsOK` (which permits a task may
hold at each point of its call) and `QueuesOK` (a queue holds each task at most once,
and only tasks that wait there without a permit). The handing over of a permit in
`Release` needs both: the head of the queue must not own the permit already, or one
would vanish. Cardinality arguments are in `Counting` and `MoveCounts`. That a reaped
semaphore keeps its permits follows because `Fresh` excludes semaphores that a call
refers to. `NoLatePermit` follows from `DoomedOK`: a doomed call is an `acquire` whose
token has fired, and its late check is still to come or has sent it back.
`GaugeNeverRecovers` turns `MetricsBalance` against the documentation: once a future was
dropped, the gauge stays above the callers that wait. `LimiterIsPool` is the refinement
of `PermitPool`: `Grant` is its `Grant`, `DropPermit` is `Drop`, everything else
stutters. `RoomForGrant` is its core: the slots of the caller that is about to get a
permit are not among those of the permits out, so conservation leaves room for one more.
For the bound of a key it needs `KeysStable`: the callers of a key that is never reaped
all refer to the semaphore the map holds, so one semaphore counts them all.
`WaitersInLine` is the safety half of `WaitersServed`: a call that waits without its
permit stands in the semaphore's queue, and a semaphore with a queue has no free permit,
so nobody waits beside one. A newly created semaphore has no queue because of `Fresh`.

**`CancellationScopeProofs`**: `ScopeTypes`, `JoinEndsTasks`, `WakeupKept`. `ScopeInv` adds
`TrackedOnce` (a handle is in the scope's list or in the snapshot of one `join`, once),
`HandlesHeld`, `SummaryBounded` (what a `join` has counted and has left is no more than
the tasks there are) and `DueCovered`: a task that a shutdown has to see ended has
ended, was told to abort, or is in a list that some shutdown has yet to take or is
draining. When all have returned only the first two remain, which is
`JoinMeansEnded`. `WakeupKept` is the safety half of `CancelWakes`: a task that awaits its
`Notified` after the notification created it before.

**`MailboxProofs`**: `TypeCorrect`, `DistinctSequences`, `NoConstraintFailure`,
`NothingLost`, `Refinement`, `PullsAreComplete`, `OvershootBounded`. `StoreInv` adds
`SeqsBounded` (the table is finite and
its sequences bounded, so `MAX` exists) and `SnapshotFresh`: a transaction that is
not stale has computed a sequence above every row of its inbox, and its key is not
in the table. This is the argument that isolation alone keeps sequences apart.
`PromiseInv` adds what the refinement needs: `OneRowPerKey`, `Collected` (what a
client has collected is still stored or has expired, or was handed over) and
`Answered` (a handler about to confirm has its envelope accounted for). Collecting
a page is a stutter, the last page is `HandOver`, `Ack` is `Acknowledge`. `NothingLost` and
`Refinement` assume `IdsUnique`, that senders choose message ids which are unique within
an inbox (`storage.rs:53` asks for it): ack deletes by message id alone. `PullInv` says
that what a `pull_all` owes it has collected or will meet above its cursor; its step
over a page rests on two facts about `ORDER BY sequence LIMIT n`, that what a page
leaves out comes after all it holds, and that a short page leaves nothing out.
`QuotaInv` counts the live envelopes of an inbox together with the handlers that have
passed the quota check and not inserted yet.

**`GarbageCollectionProofs`**: `CollectorTypes`, `ShutdownIsFinal`, `PutsAreCrashSafe`,
`CalmPins`. `TypeInv` needs that only roots have descendants and that these are chunks
of their blob (`Sound`), also in what a command has loaded. `ShutdownInv` relates the
loop's phase to its sweep. `PutInv` adds, for a blob on which no two processes met, that
what is not on disk is what its put has still to write, the sentinel last. `CalmInv`
says that, as long as the run is calm, one command runs at a time, the file and the
command's copy list what is held *and pin gc would keep it* (`Kept`), and a sweep spares
what was held when it loaded. A load that took an I/O error for an empty set ends the
calm; a failing read that is reported, as the scheduler does, leaves it. The clause in
italics is what makes it inductive, and the attempt to prove it without showed that a
blob pinned on a hash that is listed as a chunk of no root loses its pin; see section 5.

**`DhtRequestsProofs`**: `TypeCorrect`, `WaiterAnswered`, `OwnAnswers`, `BoundedLeak`,
`CooldownSpares`. `TableInv` adds `CallsOK` (a call in progress has a peer to ask and,
before a try, an attempt left) and `WaiterListed` (a waiting call is in the table or has
its answer) to the properties of the table. `WaiterAnswered` is the action property
`AnswerReachesWaiter`, from `WaiterListed`; it says nothing of an answer that comes before
the registration, which is finding 4. `LeaksOnlyAbandoned` rests on `AnswerIsOwn`, since
a request that registers must not find an answer waiting. `SparedBy` is the count
behind `PeerSpared`: what a peer got during its cooldown, plus the calls that have
passed `try_acquire` and not sent yet, stays below the number of calls, because the
call whose failure began the cooldown is in neither.

**`GossipBusProofs`**: `BusTypes`, `DeliveredOnce`, `OnlyLagLoses`, `NewestStay`. The types
need that the cache's clean-up, a renumbering by rank, is again a sequence of entries
(`RanksNumber`). `FilterInv` is about acceptance, which is delivery or being past the
check: an id is accepted once unless it was forgotten (`AcceptedOnce`), an accepted
one is in the cache or forgotten (`AcceptedSeen`), one in the cache has been taken by
a subscription or its ttl has passed (`SeenTaken`), and `Whereabouts` says of each
announcement a task has passed where it went. The witness for a
dropped duplicate must be past the check: one that is still being checked may itself be
dropped. `StoreInv` accounts for every number a sender's counter has given out: it is
stored, about to be stored, at or below one that expired, or there are `MaxPerRoom`
newer ones in the list (`AllAccounted`). `NewestKept` is a consequence that is not
inductive: when a list is truncated, the number that goes must be accounted for by the
list that stays.

**Only model-checked**: everything under fairness (`Recovers`, `WaitersServed`,
`CancelDrains`, `ShutdownReturns`, `CancelWakes`, `Delivered`, `ExpiredSwept`,
`OrphansCollected`, `CallReturns`), which is out of the prover's reach.

## 5. Findings

Each is a run in which TLC finds a property violated that a comment of the code
states.

1. **The breaker does not recover with its default configuration**
   (`circuit_breaker.rs:106`). HalfOpen admits callers while `successes == 0`. After
   one good probe every call is refused, and the second success that
   `success_threshold = 2` wants comes only if a second probe was already in flight:
   otherwise HalfOpen for ever.
2. **Sequences are reused** (`sqlite_store.rs:237`). The next sequence is
   `MAX + 1` over what is still stored. After the newest envelope is acked or purged, the
   next one gets its number, and a recipient that passes its watermark as `since`,
   as documented, never sees it.
3. **A sweep can delete pinned blobs** (`pin_set.rs:132`). `PinSet::save` truncates
   `pin.json` and then writes it, and an empty file loads as an empty set. A sweep
   that loads in between deletes every blob, although `gc_scheduler.rs:17` says that a
   pin is honoured at the next sweep. `pin_set.rs:47` still calls background GC out of
   scope for the unsynchronised file.
4. **An answer may overtake its registration** (`network.rs:224`). A request is sent and
   then entered in the table, although the comment at :394 says that the id is registered
   before the bytes go on the wire. An answer handled in between is dropped and the
   attempt waits for its timeout. The bridge in `a3net-node/src/dht_bridge.rs:157-170`
   hands the reply over before `send_to` returns, so there this is the normal order.

**Observations** without a run of their own. Resilience and mailbox:

* `circuit_breaker.rs:104` promises a single probe; callers are admitted until
  the first result is recorded. `circuit_breaker.rs:29` calls the window sliding;
  it tumbles.
* `record_success` cannot tell a probe from a call admitted before the trip: a late
  success counts towards closing the breaker (`circuit_breaker.rs:114`, against :27).
* `reap_key` removes the entry of a semaphore that a call has cloned and not used
  yet; the next caller creates a second one and the key exceeds its limit
  (`resource.rs:379`). `ImplementsPool` therefore promises the bound of a key only for
  keys that are not reaped. The timeout of `acquire` applies to each of its two waits.
* `poll_some` looks at the last handle only; finished tasks behind a stuck one are
  counted as aborted at the deadline (`cancellation.rs:359`, against :452).
* `retry_with_backoff` with `max_attempts = 0` panics (`retry.rs:122`).
* The gauge `waiting` is documented as "Current tasks waiting" (`resource.rs:82`, "Sampled,
  not exact"). An `acquire` future dropped at an await never reaches the `fetch_sub` at
  :333, so each adds one for good: `MetricsBalance` states the count with the leak in it,
  `GaugeNeverRecovers` that the leak stays.
* `resource.rs:79`: `released` tracks `acquired`, not `acquired - cancelled`, since a
  cancelled call is never counted as acquired.
* A second concurrent `shutdown` finds an empty list and returns while the first
  still drains, and a task whose `spawn` met a held mutex is tracked by nobody
  (`cancellation.rs:299`); `JoinMeansEnded` is therefore about the last one to return, and
  about tracked tasks.
* Concurrent enqueues pass the quota check together (`server.rs:524`);
  `QuotaOvershoot` states how far this can go.
* The idempotency check sees only what is stored: a retry after the ack is stored
  and delivered again (`sqlite_store.rs:194`), and `StoreAndForward` allows it.
* An ack of everything that was pulled is rejected as a whole when two of the envelopes
  have one message id (`server.rs:665`), from two senders or from a retry whose first copy
  expired between two pages.
* A failing read is taken for zero in two places: of `MAX(sequence)`, which restarts the
  numbering at 1 (`sqlite_store.rs:236`), and of the usage, which opens the quota (:350).
* `queue_depth` goes down on pull and not on ack or purge (`server.rs:625`).

Blob store:

* A recursive pin of a one-chunk blob finds its own hash pinned as a chunk and adds
  no root, so `pin gc` drops it. A recursive pin of a blob that is pinned plainly
  enters its chunks and leaves the root without them; a blob that is one of these chunks
  keeps the chunk's entry when it is pinned, and `pin gc` drops it too (found by the
  proof of `CalmKeepsPins`; it takes four commands).
  `PinSet::remove` takes descendants along that another
  root lists (`pin_set.rs:202`, against :33). Two pin commands at once lose an
  update. `CalmKeepsPins` shows that these, the overlap of save and load, a kill during a
  save and the I/O errors of the next item are the only ways to lose a pin.
* An I/O error can pass for an empty pin set: `exists()` is false on any error of stat
  (`pin_set.rs:112`), for the scheduler, `repo gc` and the pin commands alike, and a failing
  `fs::read` (:115) becomes an empty set in `repo gc` (`file_ops.rs:549`). The next sweep
  deletes every pinned blob, or the next save drops every pin.
* `repo gc` treats an unreadable `pin.json` as an empty one (`unwrap_or_default`) and
  deletes everything, where the scheduler reports an error.
* A put that races a removal of the same blob, or a crash inside `remove_dir_all`, can
  leave a sentinel over missing chunks; `PutsCrashSafe` holds for blobs on which
  neither happened. The next sweep removes an unpinned one (`OrphansCollected`). If the
  sentinel was unlinked first, the chunk files stay for ever: `list_complete` and `remove`
  look only at complete blobs (`store.rs:398`, :412).
* The back-off of the scheduler is never undone, though `gc_scheduler.rs:33` speaks of a
  return; a second caller of `shutdown` does not wait; a dropped handle makes the
  loop's `changed()` fail at once. `GcScheduler::start` has no caller outside its crate.

DHT:

* Timeouts and dropped calls leave their id in the table until a late answer comes, or
  for ever. `handle_response` does not look at the sender of an answer (`network.rs:361`).
* With the default policy the second failure starts the cooldown, so the third
  attempt that `retry.rs:29` speaks of is refused.
* `find_providers` asks all of the closest peers, also after one answered. It stores
  answered records with a new timestamp, so a provider can outlive its ttl.
* `DhtNode::query` starts its lookup from a routing table that is never filled.

Gossip:

* Messages are stored under the sender's id instead of the room (`bus.rs:253`).
* The store's eviction over the total limit repeats the clean-up of each list and
  evicts nothing more (`persistence.rs:195`).
* The bus never registers a ttl with the tracker it consults.
* Subscriptions that share a filter also share their messages: each goes to the
  first that asks.
* When the newest message expires, a message that was overtaken between its two locks
  is kept although a newer one was dropped for the limit (see `NewestKept`).

## 6. What is not covered

* Components without a module: see section 1 and `PROJECT.json`. Most of the
  repository is user interface, I/O and data handling, which a model would only
  repeat.
* Memory ordering: atomics of `a3net-resilience` are `SeqCst` or used under a lock,
  and one step each.
* The total time of `acquire`, `page_size = 0` in `pull_all`, byte quotas and retention
  overrides; validation, signatures, encodings and metrics of the mailbox. The reads whose
  errors the mailbox takes for zero (section 5): with them `SequencesUnique` and
  `QuotaOvershoot` do not hold. Loss of power.
* `KeepsPromise` and `ConfirmedKept` are about inboxes whose message ids are unique, and a
  recipient with one client.
* `repo gc` without `--prune-unpinned`: the dry run, which changes nothing, and `--prune-all`.
* `import_file` with its staging directory, and removal by the moderation takedown,
  which is another load, change and save of `pin.json`.
* Clocks of the DHT records and of the gossip entries: lifetimes end at any moment.
  Announcing, storing values, `DhtQuery` and the routing table.
* Subscribing in mid-stream, the calls that clear the gossip cache or store, and the
  second bounded channel, between a subscription's task and its reader.

## 7. Plan

1. **Mailbox, second part**: `MemoryStore` beside the SQLite table, against the same
   `StoreAndForward`; `pull_all` at page size 0; the token buckets of `rate_limit.rs`.
2. **DHT lookup**: routing table as operators on small identifiers (bucket index
   against a reference definition), the iterative lookup as a state machine.
3. **Bitswap**: want-list and session, on top of `BlobStore`.
4. **Pairing and mesh coordinator**: codes used once, expiry against acceptance.
5. **Chat**: the lock-free breaker of group sync against the abstract breaker, the
   sender-key ratchet.
6. **Node**: composition of scope, limiter and the above at shutdown.

Theorems next: whatever these modules add. For the present ones the safety halves of
further liveness properties, as `WakeupKept` is for `CancelWakes` and `WaitersInLine` for
`WaitersServed`: that a call of the DHT always has a step or a timer ahead of it, and that
an orphan stays in the store's list until it is gone (for `OrphansCollected`).
