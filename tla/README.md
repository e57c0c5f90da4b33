# Kallisto: models, model checking and proofs

This directory holds TLA+ specifications of Kallisto, a secret key-value server
written in Rust. They were translated from the code under `src/`. TLC checks them
on small instances. TLAPS proves the main results for every instance.
`PROJECT.json` maps each definition to the lines it models.

## The system

A request goes through these parts:

| part | source (under `src/src/` unless noted) | state and operations | model |
|---|---|---|---|
| Workers, listener | `event/worker.rs`, `server/listener.rs` | one thread per worker, one request at a time on each | the processes of `KvEngine` |
| HTTP handlers | `server/http_handler.rs`, `sys_handler.rs`, `admin_handler.rs` | parse a request, call the engine one or more times | `HttpApi`, `JsonDocuments`; `sys_handler` has constant answers |
| Registry, core | `engine/engine_registry.rs`, `lib.rs` | copy-on-write map of mounts; wiring | `HttpApi` |
| Engine | `engine/kv_engine.rs`, `traits.rs`, `error.rs` | versioned secrets: read, put (with check-and-set), soft delete, undelete, destroy; sync mode; background flush thread; open and drop | `KvEngine`, `VersionedStore`, `SecretVersions` |
| Queue | `engine/lock_free_queue.rs` | bounded lock-free queue from the workers to the flush thread | `LockFreeQueue`, `BoundedQueue` |
| Cache | `engine/cuckoo_table.rs`, `sharded_cuckoo_table.rs` | cuckoo hash tables with CLOCK eviction, 64 shards | `CuckooTable`, `LossyCache` |
| Path index | `engine/tls_btree_manager.rs`, `btree_index.rs` | B-tree of paths behind a read-write lock; listing of a directory | `PathIndex`; a set in `KvEngine` |
| Storage | `storage/rocksdb_backend.rs` | single writes, atomic batches, sync flag, flush | `RocksDbBackend` (what survives a power failure), `disk` in `KvEngine` (contents) |
| Flusher | `storage/async_flusher.rs` | a second write-behind thread, over a bounded channel; the server does not start it | `AsyncFlusher` |
| Formats | `server/time_format.rs` | dates and durations | `TimeFormat` |
| Admin server | `components/kallisto_cluster/src/admin_http.rs` | switches the mode, saves | `ChangeSyncMode` in `KvEngine` |
| Main | `cmd/kallisto-server/src/main.rs` | start-up | not modelled |

`kallisto_crypto`, `kallisto_policy`, `kallisto_telemetry`, the gossip module and
`kallisto-ctl` are empty files.

A write goes to the queue (Batch mode) or directly to RocksDB (Immediate mode),
and then to the cache. The flush thread moves queued writes into a batch and
applies the batch atomically. A read asks the cache, then RocksDB, and fills the
cache with what it found. The queue is not consulted, so a value that is evicted
before it is flushed is not visible until the flush.

## Modules

The components are modelled separately and joined by contracts:

```
  HttpApi
     | uses                       AsyncFlusher
  SecretVersions                       | extends
     ^ extends                    RocksDbBackend
  VersionedStore            BoundedQueue            LossyCache
        ^ implements              ^ implements            ^ implements
     KvEngine  - - - uses - - - LockFreeQueue         CuckooTable
        |                                                 .
        +------------- uses the steps of LossyCache . . . .

  JsonDocuments, PathIndex, TimeFormat: algorithms without concurrency
```

Definitions marked *faulty variant* in the modules are not part of the
specifications. Each changes one definition the way a plausible mistake would,
and makes TLC report the property that it breaks.

### LockFreeQueue, BoundedQueue

`LockFreeQueue` has one action per access to shared memory: loading a position,
loading a cell's sequence (with the three-way branch), the compare-exchange
(which may fail spuriously), writing or reading the data, storing the sequence.
`sequence`, `data`, `enqueue_pos` and `dequeue_pos` are the fields of the struct;
`pc`, `pos` and `item` the locals of each thread. `accepted` is a history
variable. Memory is sequentially consistent. The code's Relaxed accesses concern
only the positions, whose values may be outdated when they are used in the model
as well; the accesses to a cell are ordered by Acquire and Release on its
sequence. Positions do not wrap: they have 64 bits. The constructor also accepts
capacity 1, which the algorithm does not support (the marks for "free" and
"published" coincide); the engine uses 262144 and the model assumes at least 2.

`BoundedQueue` is the promise: first in, first out, a commit step and a return
step per call. Two answers are weaker than a textbook's, since a thread can be
suspended in the middle of a call: Empty while the oldest item is still being
written, Full while a consumer has not given its cell back.

### KvEngine, VersionedStore

`KvEngine` models the engine's operations at the granularity of one access to
shared state. The async functions of the engine contain no await that suspends,
so a worker runs one operation at a time, and the workers interleave.

| action | code |
|---|---|
| `Begin`, `Lookup`, `Get`, `Fill` | reading metadata or payload: `read_raw_optimistic` |
| `Decide` | what each operation does with the metadata it read: errors, new metadata, list of writes |
| `LoadMode`, `Enqueue`, `EnqueueFull`, `Execute`, `ExecuteFails` | `enqueue_or_execute`, for each write |
| `UpdateCache`, `IndexPath` | what follows each write, and the end of `put_version` |
| `WorkerDequeue`, `WorkerFlush`, `WorkerFlushFails`, `WorkerSleep`, `WorkerExits`, `WorkerDrain`, `WorkerFinalFlush` | `async_worker_loop` |
| `ChangeSyncMode`, `Drop`, `Open` | the functions of those names |
| `Crash`, `GetFails` and the other failures | the environment |

A key is a metadata key or a payload key, never a string. A payload is named by
the call that wrote it. A deletion time is zero or not. Version numbers keep
their width: `NextVersion` wraps at `MaxVersion`, as u32 does in a release build.
`wiped` is a history variable for the payloads that `destroy_version` deleted.
The calls of the queue are single steps, which the refinement of `BoundedQueue`
justifies: Full may come one item early, because the only consumer may be in the
middle of a dequeue. The cache takes the steps of `LossyCache`.

The cache of the real engine may evict any entry. `Evictions = "clean"` restricts
a run to evictions of entries without a pending write; it is an assumption of
those runs, not something the code enforces (see *Assumptions and limits*).
`Budgets` bounds how often each kind of trouble (error, crash, shutdown, switch,
eviction) happens in a run; `SwitchWhen` says when the mode may be switched.

`VersionedStore` is the promise to clients that do not share paths: operations
take effect one at a time, and failed ones have no effect. The exception is a
destruction that fails between its two writes. What an operation answers and does,
given the versions of a secret, is in `SecretVersions`, which `HttpApi` uses too.

### CuckooTable, LossyCache

`CuckooTable` is one shard. Each operation holds the shard's lock and is atomic
for others; an insertion of a new key is followed through its loops, one turn of
the CLOCK hand or one displacement per step. `slot`, `storage`, `storage_size`,
`free_list` and `clock_hand` are the fields of the code. Hashes are constants per
key, so that collisions of buckets and of tags are chosen by the instance. The
counters for statistics are left out.

`LossyCache` is what the engine relies on: a found entry is the last one inserted
under its key. An insertion may make up to two entries disappear (a CLOCK victim,
and the entry left in hand after too many displacements).

### HttpApi, JsonDocuments

`HttpApi` models every handler of the secrets API as the sequence of engine calls
it makes. `Begin` resolves the mount and parses the request, and the other actions
have the names of the handlers. `patch_secret` has three calls (`PatchRead`,
`PatchPut`, `PatchAnswer`), the handlers for several versions one per version.
`MountCopy` and `MountStore` are the two halves of `EngineRegistry::mount`, which run
under its lock.

`Call` is a step of an engine call. As nothing locks a secret, a call has several
steps, and those of other workers come in between: `ReadMetadata` copies the
metadata and decides (errors, `cas`); `ReadPayload` ends a read; `WritePayload` writes
the payload of the next version or deletes a destroyed one; `WriteMetadata` puts the
copied metadata back with the change, over whatever others wrote meanwhile.
`CallFails` may end a call before any of them. A write is seen by all workers at once
here: cache, queue and disk are the subject of `KvEngine`.

`left` is the budget of a run; `seen`, `base`, `made`, `effects` and `fresh` of a job,
and `destroyed`, are history. `fresh` is true until some call writes the secret by
metadata that has been replaced since it was read (`Stale`), that is, until an update
of the secret is lost. `destroyed` has the destructions that were answered while
`fresh` was true and no call in progress was stale.

Numbers keep their width: a number in a body is cut to u32 and a number in the
query that does not fit counts as 0. `JsonDocuments` has `json_merge_patch` and
`strip_to_subkeys` on documents of nulls, scalars and objects. An array behaves
like a scalar in both functions.

### RocksDbBackend, AsyncFlusher

`RocksDbBackend` says which acknowledged writes are still there after a power
failure. RocksDB is external. Of it the model keeps a log (`wal`), the positions
at which writes ended (`ends`), and the length that is on stable storage
(`durable`). A write loads the sync flag and then appends; a power failure cuts the
log at the end of some write behind `durable`. `owed` is a history variable: the
log when a write or flush last promised durability. A write promises it when the
flag was set from its call to its return (`strict`).

`AsyncFlusher` adds the channel, the worker loop and `stop`, and threads that write
directly. `phase` is the place of the thread in `worker_loop`: the loop, the check
whether to flush, the batch being applied, the drain, the last batch. `recv_timeout`
never blocks for good, so an empty channel is a step that receives nothing.
`overdue` stands for the flush interval.

### PathIndex, TimeFormat

`PathIndex` has the B-tree operations as recursive operators, on positions in an
ascending list of paths, and `list_keys` on paths as sequences of characters.
Insertions take a write lock, so each is one step. `TimeFormat` has the arithmetic
of dates and durations. Its reference is a calendar that counts days.

## Runs

All runs finish within three minutes or so on two cores. `QueueInv`, `SlotsConsistent`
and `StorageInv` contain the type invariants of their modules.

| run | instance | shows |
|---|---|---|
| `queue` | 2 producers, 2 consumers, 2 cells, 2 enqueues each | `CellExclusive`: no data race on a cell. `ReadsAccepted`: no stale or unwritten data is read. `FullMeansFull`: Full is justified. `QueueInv`: the inductive invariant, with types and the bound on items. `ImplementsQueue`: FIFO, no loss, no duplicate. `AcceptedIsTaken`: every accepted item is dequeued |
| `kv_store` | 2 workers with their own paths, all writes and reads by version, a large queue; one mode switch and one failing write, or one eviction of a clean entry | `ImplementsStore`: cache, queue, batch and disk answer as one store. `CacheCoherent`: the cache holds the last write. `DestroyedIsWiped`. `DiskNeverRegresses`: version numbers on disk do not go back |
| `kv_full` | the same workers, a queue of 3, puts, soft deletes and reads; an eviction of a clean entry, or a shutdown | the same store although QueueFull falls between the writes of one put; `ShutdownKeepsWrites`: drop loses nothing; `EventuallyDurable`: queued versions reach the disk |
| `kv_shared` | 2 workers on one path, an eviction of a clean entry, a crash | `DiskMetadataHasPayloads`, its inductive form `PayloadsAhead`, `ListedIsReadable`: only a destruction makes a listed payload unreadable |
| `kv_hostile` | 2 workers on one path, any eviction, failing reads, writes and batches, a crash or shutdown, a switch at any time, queue of 2, version numbers 0 and 1 | what still holds: `IndexComplete`, `VersionsNumbered` |
| `cuckoo` | 4 keys sharing buckets and tags, 4 slots, room for 3 entries or for none, 3 displacements | `SlotsConsistent`, `FreeListSound`, `ClockFindsVictim`, `AcceptedIsFound`, and `ImplementsCache`: the table is a `LossyCache` |
| `api` | 2 workers on one secret with 2 requests each, or 3 in all and one failing engine call, every handler; or 2 threads that mount | `PatchBase`: as long as no update of the secret is lost, a patch is made from a version that was the latest, with `cas` from the one directly before it, and the version it reports exists. `ErrorsHaveNoEffect` on the metadata, up to the documented exceptions. `DestroyAnswered`: an answered destruction is complete, and no call that begins later undoes it. `MountsKept`: no mount is lost. `EveryRequestAnswered` |
| `storage` | the flusher and a direct writer, batches and a channel of 2, up to 4 operations, with a failing write, 2 mode switches, a power failure or a restart | `SyncedSurvives`: promised writes survive. `InOrder`, `NoneLost`: what happens to accepted operations. `StopDrains`: nothing is left when `stop` returns. `StorageInv`: the inductive invariant. `Settles`: every operation leaves the buffers, and `stop` returns |
| `algorithms` | 12 paths in every order, degrees 2 and 3; the days of 400 years; 547 documents and the patches between them | `IndexShape`: B-tree bounds and equal depth. `IndexIsSet`: search and listing agree with the inserted set. `ListsDirectory`. `TimesAreRight`: dates are Gregorian, durations round-trip. `DocumentLaws`: merge patches and subkeys |

Three runs show where the code does not do what its documentation says:

| run | violated | documentation | what happens |
|---|---|---|---|
| `kv_cas` | `CheckAndSet` | `docs/content/docs/references/api/secret/kv/_index.md:12`, "Check-and-set operations for conditional updates" | two workers read version 0, both pass the comparison, both puts succeed |
| `kv_converge` | `Converges` | `vault-kv2.md:116` in the same directory, "Eventual Consistency" | a reader fills the cache with a value older than a finished write; the entry stays stale after everything is flushed |
| `kv_strict` | `DiskNeverRegresses` | `README.md:163`, "Switch to synchronous strict persistence" | a write queued before the switch overwrites a newer direct write |

### Why the bounds are enough to be interesting

* Queue: with two cells and four items the positions go around twice, so a thread
  can meet its cell one round later, a claimed cell blocks others, and producers
  race for a position. The proofs remove the bound.
* Engine: three operations suffice for every chain of writing, changing and
  reading a version while a second worker runs. A batch of two writes can hold
  the payload and metadata of a version, or split them. Each trouble happens at
  most once per behaviour, at any moment; `kv_hostile` combines several. With
  `MaxVersion = 1` the second version wraps to 0.
* Cuckoo table: with buckets of one slot and colliding hashes, four keys need
  every branch: displacement that succeeds, displacement that gives up, eviction,
  reuse of freed storage, and equal tags of different keys. Capacity 0 is the case
  of a sharded table asked for fewer than 64 entries.
* API: two requests per worker are enough for a write, deletion or destruction
  between any two steps of a patch, and for two lists of versions that overlap.
  Version numbers in requests are taken modulo 8, so that truncated numbers occur
  while those of the secret do not get there. Without `fresh`, or without the look
  at calls in progress, TLC finds `PatchBase` and `DestroyAnswered` violated, so the
  overlaps they speak of do happen in the run.
* Storage: with four operations a batch is full, is written late, and fails while
  the channel fills up again. The proofs remove the bounds.
* Algorithms: twelve paths split the root twice at degree 2. 400 years are one cycle
  of the calendar. Seconds of a duration take every value of a day.

### Fairness

* Queue: a thread that has claimed a cell finishes its call, because the scheduler
  runs every thread and these steps never wait. Consumers keep calling dequeue,
  as the flush loop does. The weak compare-exchange of a consumer that gets to try
  infinitely often succeeds eventually (strong fairness): it fails spuriously only
  now and then. Producers have no fairness before their claim.
* Engine: the flush thread's loop never blocks, so its dequeue, flush, exit and
  drain steps are weakly fair. Workers and environment have no fairness.
* API: a worker goes on with the request it has begun (weak fairness of its next
  step), because no step of an engine call waits for another worker. Arrivals and mounts have
  no fairness.
* Storage: the thread's loop, the return of `stop` and the steps of a write that
  has begun are weakly fair, since nothing in them blocks; time passes.

The runs check for deadlock, except `api` and `algorithms`, which stop when the
requests or the input are used up.

## Proofs

| theorem | statement |
|---|---|
| `LockFreeQueueSteps!TypeCorrect` | `Spec => []TypeOK` |
| `LockFreeQueueProofs!Invariance` | `Spec => []QueueInv` |
| `LockFreeQueueProofs!NoDataRace` | `Spec => []CellExclusive` |
| `LockFreeQueueProofs!ReadsAreAccepted` | `Spec => []ReadsAccepted` |
| `LockFreeQueueProofs!Bounded` | `Spec => []BoundedOccupancy` |
| `LockFreeQueueProofs!FullIsFull` | `Spec => FullMeansFull` |
| `LockFreeQueueProofs!Refinement` | `Spec => ImplementsQueue` |
| `KvEngineProofs!TypeCorrect` | `Spec => []TypeOK` |
| `KvPayloadProofs!PayloadsStayAhead` | `OrderlyWrites /\ Spec => []PayloadsAhead` |
| `KvPayloadProofs!DiskIsComplete` | `OrderlyWrites /\ Spec => []DiskMetadataHasPayloads` |
| `AsyncFlusherProofs!StorageInvariant` | `Spec => []StorageInv` |
| `AsyncFlusherProofs!SyncedWritesSurvive` | `Spec => []SyncedSurvives` |
| `AsyncFlusherProofs!WrittenInOrder` | `Spec => []InOrder` |
| `AsyncFlusherProofs!NothingLost` | `Spec => []NoneLost` |
| `AsyncFlusherProofs!StopHasDrained` | `Spec => []StopDrains` |

Each proof is in two modules: `LockFreeQueueSteps`, `KvEngineFacts`,
`KvPayloadSteps` and `AsyncFlusherSteps` hold the facts about data and the lemmas
about the first actions, and the `...Proofs` modules that extend them the other
actions and the theorems. `KvPayloadSteps` builds on `KvEngineProofs`.

The queue theorems hold for any capacity of at least two, any number of threads
and calls. That no two threads are in the same cell does not follow from the
types: it depends on what the sequence of a cell says about it. `QueueInv`
assigns a role to the cell of each of the next `Capacity` positions (free,
published, being written or being read) and ties the sequence, the two positions
and the owners' locals to that role. Two facts of arithmetic carry the proof:
positions less than `Capacity` apart have different cells, and positions
`Capacity` apart share one. The refinement maps the two compare-exchanges to the
commit steps of the abstract queue.

`DiskIsComplete` holds for any number of workers on any paths, with any
evictions, storage errors in single operations, crashes, shutdowns and restarts.
`OrderlyWrites` assumes that no batch fails and that the mode is switched only
while nothing is pending; without either, a payload may be missing although the
metadata that lists it arrives. The property is not inductive. The flush of a
batch keeps it only if payloads precede metadata in the batch; this needs the
same of the queue, and that in turn of every copy of metadata a worker may hold
or find in the cache. `PayloadsAhead` states it for each of these places.

The storage theorems hold for any number of threads and operations, any size of
batch and channel, and any sequence of failing writes, mode switches, power
failures and restarts. None of the properties is inductive. That promised writes
survive needs the flag and the options of every write in progress (`CallsOK`): a
strict write was called in sync mode and the mode has not changed since, so the
options it loaded ask for a sync. That operations stay in order needs the batch and
the channel as one sequence whose numbers ascend and exceed those in the log. That
`stop` drains needs to know what each phase of the loop leaves in the buffers, and
that nobody can enqueue while `stop` waits (`PhasesOK`). `StorageInv` is the
conjunction. The proof has one lemma per group of actions, on lemmas about the
numbers in a sequence of operations.

Constants are assumed to satisfy the named assumptions of the modules, which TLC
evaluates in the runs.

Only model-checked: liveness (`AcceptedIsTaken`, `EventuallyDurable`, `Settles`,
`EveryRequestAnswered`), which the prover does not support; the refinements of `VersionedStore` and `LossyCache`;
`CacheCoherent`, `DestroyedIsWiped`, `DiskNeverRegresses`, `ShutdownKeepsWrites`,
`ListedIsReadable`, `IndexComplete`, `VersionsNumbered`, the invariants of the
cuckoo table and of the API; and the recursive algorithms, about which the prover
has no induction.

## Assumptions and limits

* Evictions. An entry evicted while its write is still pending makes the engine
  see the older state on disk: a reader misses a version, a put takes a number
  again. Coherence and the refinement are therefore checked for caches that lose
  only clean entries (one eviction in `kv_store` and in `kv_full`). `kv_hostile`, and
  the theorems, allow any eviction.
* Destruction and a full queue. If `destroy_version` is refused with QueueFull
  after its deletion was queued, the version stays listed and a read may put the
  old payload back into the cache. `kv_full` leaves destructions out; `kv_store`
  has them, with a queue that does not fill up.
* Shared paths. No operation locks its path. With several writers of a path,
  updates of its metadata can be lost; the store is linearisable only for
  clients that do not share paths, and `kv_cas` shows the smallest failure. The same
  loss undoes an acknowledged deletion or destruction if another writing call had
  read the metadata before it; `vault-kv2.md:66` calls a destruction "Permanent".
  `DestroyAnswered` holds for destructions that no such call overlaps.
* A crash in `KvEngine` is a crash of the process: what RocksDB accepted survives.
  Power failures are the subject of `RocksDbBackend`.

## Observations

Things a reader of the documentation may not expect, met while translating the
code. The models have the behaviour of the code.

* `delete_latest` asks the engine to soft-delete version 0, which never exists, so
  the answer is always 404. `vault-kv2.md:49` (under
  `docs/content/docs/references/api/secret/kv/`) describes it as "Soft-delete latest
  version".
* `write_secret` does not look at `options.cas`; `vault-kv2.md:79` to 83 shows a
  conditional write. Only `patch_secret` passes it on. A mismatch is answered with
  409, where line 92 says 400.
* The answer of a patch describes the newest version at that time, which may be
  another client's. `PatchBase` says that it is never older than the patch's own.
* A `cas` that names a version which does not exist yet can match a version that
  another client makes between the read and the write of a patch; its content is
  then replaced by a document merged from the older one. `PatchBase` therefore
  speaks of versions that existed when the request began.
* `list_keys` without a slash at the end of the prefix also shows paths that merely
  begin with the same characters: the secret `ab` appears as `b` under `a`.
* Immediate mode writes to RocksDB at once but never calls `set_sync`, so a power
  failure can lose writes that were acknowledged in it. `SyncedSurvives` holds for
  callers that set the flag.
* The admin command that saves flushes what RocksDB holds, not the queue and the
  batch of the flush thread, although it answers "Database flushed to disk."
* `stop` of `AsyncFlusher` takes the flusher exclusively, which is what makes
  `StopDrains` true: with an `enqueue` in progress an operation could be accepted
  after the last look at the channel.

## Not modelled

* HTTP framing, routing and the text of answers; sockets, core pinning, logging,
  statistics, serialisation of metadata. They change no state the properties speak of.
* `sys_handler.rs`: constant answers without state.
* Start-up in `main.rs` (it removes the old database directory, opens the core,
  starts workers and admin server) and starting and stopping the admin server:
  sequential wiring that runs once.
* The digits of dates and durations, and u64 overflow of durations of many millions
  of years.
* The 64 shards of the cache beyond what `LossyCache` promises: they are independent
  tables, and the engine's properties hold for any such cache.
* The memory model below sequential consistency (see *LockFreeQueue*).
* Proofs about the cuckoo table, the API and the refinement of `VersionedStore`: TLC
  covers these.
