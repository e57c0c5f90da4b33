------------------------------ MODULE KvEngine ------------------------------
(***************************************************************************)
(* The versioned key-value engine of src/src/engine/kv_engine.rs.          *)
(*                                                                         *)
(* Client operations run on several worker threads; the engine's async     *)
(* functions never suspend, so an operation is a sequence of steps of one  *)
(* worker, and the steps of different workers interleave.  A step is one   *)
(* access to shared state: the cache (one shard lock held), RocksDB, the   *)
(* sync mode, the queue (one linearised call, see LockFreeQueue), or the   *)
(* path index.  A background thread moves writes from the queue to a batch *)
(* and applies the batch to RocksDB.                                       *)
(*                                                                         *)
(* Abstracted: a payload is named by the call that wrote it; a deletion    *)
(* time is only "zero or not"; creation times, the unused metadata fields  *)
(* (max_versions, cas_required, ...) and rkyv (de)serialisation, which     *)
(* loses nothing of the fields kept here, are left out.                    *)
(***************************************************************************)
EXTENDS Integers, Sequences

CONSTANTS Workers, Paths, None,
          Requests,       \* per worker: the requests its clients may send
          MaxOps,         \* bound: per worker, the operations it begins
          MaxVersion,     \* largest version number, u32::MAX in the code
          QueueCapacity,  \* capacity of async_queue, 262144 in the code
          BatchSize,      \* writes that force a flush, 1024 in the code
          Evictions,      \* entries the cache may lose: "clean" or "any"
          SwitchWhen,     \* when the administrator switches: "quiescent" or "anytime"
          Budgets         \* bounds: the troubles that may happen, and how often

Versions == 0..MaxVersion
MetaKey(p) == <<"m", p, 0>>
VersionKey(p, v) == <<"v", p, v>>
Keys == ({"m"} \X Paths \X {0}) \cup ({"v"} \X Paths \X Versions)

Kinds == {"put", "soft_delete", "undelete", "destroy", "read_version", "read_metadata"}
Request == [kind : Kinds, path : Paths, version : Versions, cas : Versions \cup {None}]
Payloads == UNION {{w} \X (1..MaxOps[w]) : w \in Workers}

VersionState == [version_id : Versions, deleted : BOOLEAN, destroyed : BOOLEAN]
KeyMetadata == [current_version : Versions, versions : Seq(VersionState)]

\* RocksDB operations that fail, ends of the engine, switches of the mode, and
\* insertions that push entries out of the cache.
Troubles == {"get", "write", "batch", "drop", "crash", "switch", "evict"}

ASSUME BoundsAssumption == /\ MaxOps \in [Workers -> Nat] /\ MaxVersion \in Nat
                           /\ Budgets \subseteq [Troubles -> Nat]
                           /\ QueueCapacity \in Nat \ {0} /\ BatchSize \in Nat \ {0}
ASSUME RequestsAssumption == Requests \in [Workers -> SUBSET Request]
ASSUME NoneAssumption == None \notin Payloads /\ None \notin KeyMetadata /\ None \notin Versions
ASSUME EnvironmentAssumption == /\ Evictions \in {"clean", "any"}
                                /\ SwitchWhen \in {"quiescent", "anytime"}

\* Writes (AsyncOp, BatchOp).  A Delete writes None.
Put(k, x) == [key |-> k, value |-> x]
Delete(k) == [key |-> k, value |-> None]

VARIABLES cache, disk, path_index,
          queue,      \* async_queue, oldest first
          batch,      \* the background thread's local batch
          sync_mode,
          phase,      \* of the engine: see Drop and Open
          pc, req,    \* per worker: next step and current request
          key, got,   \* per worker: key it reads, value it found
          todo,       \* per worker: the writes its operation still has to make
          result,     \* per worker: answer of its last operation
          ops,        \* per worker: operations begun
          left,       \* the troubles that may still happen
          wiped       \* history: the versions whose payload an operation deleted

shared == <<cache, disk, path_index, queue, batch, sync_mode, phase>>
local == <<pc, req, key, got, todo, result, ops>>
vars == <<shared, local, left, wiped>>

Empty == [k \in Keys |-> None]

\* KvEngine::open on a new database.
Init == /\ cache = Empty
        /\ disk = Empty
        /\ path_index = {}
        /\ queue = <<>>
        /\ batch = <<>>
        /\ sync_mode = "Batch"
        /\ phase = "open"
        /\ pc = [w \in Workers |-> "idle"]
        /\ req = [w \in Workers |-> None]
        /\ key = [w \in Workers |-> None]
        /\ got = [w \in Workers |-> None]
        /\ todo = [w \in Workers |-> <<>>]
        /\ result = [w \in Workers |-> None]
        /\ ops = [w \in Workers |-> 0]
        /\ left \in Budgets
        /\ wiped = {}

Ok(x) == <<"Ok", x>>
Err(e) == <<"Err", e>>

Goto(w, label) == pc' = [pc EXCEPT ![w] = label]

\* The operation returns: its locals are dropped.
Reply(w, r) == /\ result' = [result EXCEPT ![w] = r]
               /\ Goto(w, "idle")
               /\ key' = [key EXCEPT ![w] = None]
               /\ got' = [got EXCEPT ![w] = None]
               /\ todo' = [todo EXCEPT ![w] = <<>>]

\* A trouble happens.
Trouble(t) == /\ left[t] > 0
              /\ left' = [left EXCEPT ![t] = @ - 1]

-----------------------------------------------------------------------------
\* The stores

\* The last of a sequence of writes to a key decides (WriteBatch order).
Touches(writes, k) == {i \in 1..Len(writes) : writes[i].key = k}
LastTouch(writes, k) == CHOOSE i \in Touches(writes, k) : \A j \in Touches(writes, k) : j <= i
Apply(store, writes) ==
  [k \in Keys |-> IF Touches(writes, k) = {} THEN store[k] ELSE writes[LastTouch(writes, k)].value]

\* What RocksDB will hold once the pending writes have been applied.
Pending == batch \o queue
Latest == Apply(disk, Pending)

\* The entries the cache may lose.  A clean one has no pending write.
Evictable == IF Evictions = "any" THEN Keys ELSE {k \in Keys : Touches(Pending, k) = {}}

\* ShardedCuckooTable, by what CuckooTable is shown to implement.  Its 64 shards
\* only divide the keys; an insertion or removal concerns one of them.
Cache == INSTANCE LossyCache WITH contents <- cache, Values <- Payloads \cup KeyMetadata

CacheInsert(k, x) == \/ Cache!Insert(k, x, {}) /\ UNCHANGED left
                     \/ Cache!Insert(k, x, Evictable) /\ Trouble("evict")
CacheRemove(k) == Cache!Remove(k) /\ UNCHANGED left

-----------------------------------------------------------------------------
\* Operations of the clients

\* An operation starts; all of them first read the metadata of their path.
Begin(w) ==
  /\ phase = "open"
  /\ pc[w] = "idle"
  /\ ops[w] < MaxOps[w]
  /\ \E r \in Requests[w] :
       /\ req' = [req EXCEPT ![w] = r]
       /\ key' = [key EXCEPT ![w] = MetaKey(r.path)]
  /\ ops' = [ops EXCEPT ![w] = @ + 1]
  /\ result' = [result EXCEPT ![w] = None]
  /\ Goto(w, "lookup")
  /\ UNCHANGED <<shared, got, todo, left, wiped>>

\* read_raw_optimistic: the cache, then RocksDB, then the cache is filled with
\* what RocksDB had.
Lookup(w) ==
  /\ pc[w] = "lookup"
  /\ got' = [got EXCEPT ![w] = cache[key[w]]]
  /\ Goto(w, IF cache[key[w]] # None THEN "decide" ELSE "get")
  /\ UNCHANGED <<shared, req, key, todo, result, ops, left, wiped>>

Get(w) ==
  /\ pc[w] = "get"
  /\ got' = [got EXCEPT ![w] = disk[key[w]]]
  /\ Goto(w, IF disk[key[w]] # None THEN "fill" ELSE "decide")
  /\ UNCHANGED <<shared, req, key, todo, result, ops, left, wiped>>

GetFails(w) ==
  /\ pc[w] = "get"
  /\ Trouble("get")
  /\ Reply(w, Err("StorageError"))
  /\ UNCHANGED <<shared, req, ops, wiped>>

Fill(w) ==
  /\ pc[w] = "fill"
  /\ CacheInsert(key[w], got[w])
  /\ Goto(w, "decide")
  /\ UNCHANGED <<disk, path_index, queue, batch, sync_mode, phase,
                 req, key, got, todo, result, ops, wiped>>

Listed(m, v) == \E i \in DOMAIN m.versions : m.versions[i].version_id = v

\* Position of the first entry with the number v: the loops break there.
Find(m, v) == CHOOSE i \in DOMAIN m.versions :
                /\ m.versions[i].version_id = v
                /\ \A j \in DOMAIN m.versions : m.versions[j].version_id = v => i <= j

\* Faulty variant: the number stays at its maximum.
NextVersionSaturating(m) == IF m.current_version = MaxVersion THEN MaxVersion ELSE m.current_version + 1

\* put_version with the metadata m: the next number wraps as u32 does in a
\* release build.
NextVersion(m) == (m.current_version + 1) % (MaxVersion + 1)
WithNewVersion(m) ==
  [current_version |-> NextVersion(m),
   versions |-> Append(m.versions, [version_id |-> NextVersion(m), deleted |-> FALSE, destroyed |-> FALSE])]

\* Faulty variant: the metadata before the payload, and no check-and-set.
DecidePutMetadataFirst(w) ==
  LET r == req[w]
      m == IF got[w] = None THEN [current_version |-> 0, versions |-> <<>>] ELSE got[w]
  IN /\ r.kind = "put"
     /\ todo' = [todo EXCEPT ![w] = <<Put(MetaKey(r.path), WithNewVersion(m)),
                                      Put(VersionKey(r.path, NextVersion(m)), <<w, ops[w]>>)>>]
     /\ Goto(w, "mode")
     /\ UNCHANGED <<key, got, result>>

DecidePut(w) ==
  LET r == req[w]
      m == IF got[w] = None THEN [current_version |-> 0, versions |-> <<>>] ELSE got[w]
  IN /\ r.kind = "put"
     /\ \/ /\ r.cas # None /\ r.cas # m.current_version
           /\ Reply(w, Err("CasMismatch"))
        \/ /\ r.cas = None \/ r.cas = m.current_version
           /\ todo' = [todo EXCEPT ![w] =
                <<Put(VersionKey(r.path, NextVersion(m)), <<w, ops[w]>>),
                  Put(MetaKey(r.path), WithNewVersion(m))>>]
           /\ Goto(w, "mode")
           /\ UNCHANGED <<key, got, result>>

\* soft_delete, undelete and destroy_version, once the entry is found.
Edited(r, m) ==
  LET i == Find(m, r.version)
  IN [m EXCEPT !.versions[i] =
        CASE r.kind = "soft_delete" -> [@ EXCEPT !.deleted = TRUE]
          [] r.kind = "undelete" -> [@ EXCEPT !.deleted = FALSE]
          [] OTHER -> [@ EXCEPT !.destroyed = TRUE]]

\* Faulty variants: a destroyed version can be undeleted; the payload of a
\* destroyed version is left where it is.
DecideEditDestroyed(w) ==
  LET r == req[w]
      m == got[w]
  IN /\ r.kind \in {"soft_delete", "undelete", "destroy"}
     /\ \/ m = None /\ Reply(w, Err("NotFound"))
        \/ m # None /\ ~ Listed(m, r.version) /\ Reply(w, Err("InvalidVersion"))
        \/ /\ m # None /\ Listed(m, r.version)
           /\ LET meta == Put(MetaKey(r.path), Edited(r, m)) IN
                todo' = [todo EXCEPT ![w] =
                  IF r.kind = "destroy" THEN <<Delete(VersionKey(r.path, r.version)), meta>> ELSE <<meta>>]
           /\ Goto(w, "mode")
           /\ UNCHANGED <<key, got, result>>
DecideEditMetadataOnly(w) ==
  LET r == req[w]
      m == got[w]
  IN /\ r.kind \in {"soft_delete", "undelete", "destroy"}
     /\ \/ m = None /\ Reply(w, Err("NotFound"))
        \/ m # None /\ ~ Listed(m, r.version) /\ Reply(w, Err("InvalidVersion"))
        \/ /\ m # None /\ Listed(m, r.version)
           /\ todo' = [todo EXCEPT ![w] = <<Put(MetaKey(r.path), Edited(r, m))>>]
           /\ Goto(w, "mode")
           /\ UNCHANGED <<key, got, result>>

DecideEdit(w) ==
  LET r == req[w]
      m == got[w]
  IN /\ r.kind \in {"soft_delete", "undelete", "destroy"}
     /\ \/ m = None /\ Reply(w, Err("NotFound"))
        \/ m # None /\ ~ Listed(m, r.version) /\ Reply(w, Err("InvalidVersion"))
        \/ /\ m # None /\ Listed(m, r.version)
           /\ r.kind = "undelete" /\ m.versions[Find(m, r.version)].destroyed
           /\ Reply(w, Err("Destroyed"))
        \/ /\ m # None /\ Listed(m, r.version)
           /\ ~ (r.kind = "undelete" /\ m.versions[Find(m, r.version)].destroyed)
           /\ LET meta == Put(MetaKey(r.path), Edited(r, m)) IN
                todo' = [todo EXCEPT ![w] =
                  IF r.kind = "destroy" THEN <<Delete(VersionKey(r.path, r.version)), meta>> ELSE <<meta>>]
           /\ Goto(w, "mode")
           /\ UNCHANGED <<key, got, result>>

DecideReadMetadata(w) ==
  /\ req[w].kind = "read_metadata"
  /\ Reply(w, IF got[w] = None THEN Err("NotFound") ELSE Ok(got[w]))

\* read_version: the metadata selects the payload to read; version 0 means
\* the current one.
Target(r, m) == IF r.version = 0 THEN m.current_version ELSE r.version

DecideReadVersion(w) ==
  LET r == req[w]
      m == got[w]
      v == Target(r, m)
  IN /\ r.kind = "read_version"
     /\ key[w] = MetaKey(r.path)
     /\ \/ m = None /\ Reply(w, Err("NotFound"))
        \/ m # None /\ (v = 0 \/ ~ Listed(m, v)) /\ Reply(w, Err("InvalidVersion"))
        \/ /\ m # None /\ v # 0 /\ Listed(m, v)
           /\ LET s == m.versions[Find(m, v)] IN
                \/ s.destroyed /\ Reply(w, Err("Destroyed"))
                \/ ~ s.destroyed /\ s.deleted /\ Reply(w, Err("SoftDeleted"))
                \/ /\ ~ s.destroyed /\ ~ s.deleted
                   /\ key' = [key EXCEPT ![w] = VersionKey(r.path, v)]
                   /\ got' = [got EXCEPT ![w] = None]
                   /\ Goto(w, "lookup")
                   /\ UNCHANGED <<todo, result>>

DecidePayload(w) ==
  /\ req[w].kind = "read_version"
  /\ key[w] # MetaKey(req[w].path)
  /\ Reply(w, IF got[w] = None THEN Err("MissingPayload") ELSE Ok(got[w]))

Decide(w) ==
  /\ pc[w] = "decide"
  /\ \/ DecidePut(w) \/ DecideEdit(w) \/ DecideReadMetadata(w)
     \/ DecideReadVersion(w) \/ DecidePayload(w)
  /\ UNCHANGED <<shared, req, ops, left, wiped>>

-----------------------------------------------------------------------------
\* enqueue_or_execute, then the cache, for each write of the operation

LoadMode(w) ==
  /\ pc[w] = "mode"
  /\ Goto(w, IF sync_mode = "Immediate" THEN "execute" ELSE "enqueue")
  /\ UNCHANGED <<shared, req, key, got, todo, result, ops, left, wiped>>

Wipe(write) == wiped' = wiped \cup {pv \in Paths \X Versions : write = Delete(VersionKey(pv[1], pv[2]))}

Enqueue(w) ==
  /\ pc[w] = "enqueue"
  /\ Len(queue) < QueueCapacity
  /\ queue' = Append(queue, Head(todo[w]))
  /\ Wipe(Head(todo[w]))
  /\ Goto(w, "cache")
  /\ UNCHANGED <<cache, disk, path_index, batch, sync_mode, phase, req, key, got, todo, result, ops, left>>

\* Faulty variant: the error is ignored.
EnqueueFullIgnored(w) ==
  /\ pc[w] = "enqueue"
  /\ Len(queue) >= QueueCapacity - 1
  /\ Goto(w, "cache")
  /\ UNCHANGED <<shared, req, key, got, todo, result, ops, left, wiped>>

\* The queue may also answer Full one item early, while the background thread
\* is inside dequeue (LockFreeQueue!FullMeansFull).
EnqueueFull(w) ==
  /\ pc[w] = "enqueue"
  /\ Len(queue) >= QueueCapacity - 1
  /\ Reply(w, Err("QueueFull"))
  /\ UNCHANGED <<shared, req, ops, left, wiped>>

Execute(w) ==
  /\ pc[w] = "execute"
  /\ disk' = Apply(disk, <<Head(todo[w])>>)
  /\ Wipe(Head(todo[w]))
  /\ Goto(w, "cache")
  /\ UNCHANGED <<cache, path_index, queue, batch, sync_mode, phase, req, key, got, todo, result, ops, left>>

ExecuteFails(w) ==
  /\ pc[w] = "execute"
  /\ Trouble("write")
  /\ Reply(w, Err("StorageError"))
  /\ UNCHANGED <<shared, req, ops, wiped>>

\* Faulty variant: a deleted payload stays in the cache.
UpdateCacheNoRemove(w) ==
  LET write == Head(todo[w])
  IN /\ pc[w] = "cache"
     /\ IF write.value = None THEN UNCHANGED <<cache, left>> ELSE CacheInsert(write.key, write.value)
     /\ IF Len(todo[w]) > 1
          THEN /\ todo' = [todo EXCEPT ![w] = Tail(@)]
               /\ Goto(w, "mode")
               /\ UNCHANGED <<key, got, result>>
          ELSE IF req[w].kind = "put"
          THEN Goto(w, "index") /\ UNCHANGED <<key, got, todo, result>>
          ELSE Reply(w, Ok(None))
     /\ UNCHANGED <<disk, path_index, queue, batch, sync_mode, phase, req, ops, wiped>>

UpdateCache(w) ==
  LET write == Head(todo[w])
  IN /\ pc[w] = "cache"
     /\ IF write.value = None THEN CacheRemove(write.key) ELSE CacheInsert(write.key, write.value)
     /\ IF Len(todo[w]) > 1
          THEN /\ todo' = [todo EXCEPT ![w] = Tail(@)]
               /\ Goto(w, "mode")
               /\ UNCHANGED <<key, got, result>>
          ELSE IF req[w].kind = "put"
          THEN Goto(w, "index") /\ UNCHANGED <<key, got, todo, result>>
          ELSE Reply(w, Ok(None))
     /\ UNCHANGED <<disk, path_index, queue, batch, sync_mode, phase, req, ops, wiped>>

\* Faulty variant: the metadata key is inserted instead of the path.
IndexPathKey(w) ==
  /\ pc[w] = "index"
  /\ path_index' = path_index \cup {key[w]}
  /\ Reply(w, Ok(None))
  /\ UNCHANGED <<cache, disk, queue, batch, sync_mode, phase, req, ops, left, wiped>>

IndexPath(w) ==
  /\ pc[w] = "index"
  /\ path_index' = path_index \cup {req[w].path}
  /\ Reply(w, Ok(None))
  /\ UNCHANGED <<cache, disk, queue, batch, sync_mode, phase, req, ops, left, wiped>>

Operation(w) ==
  \/ Begin(w) \/ Lookup(w) \/ Get(w) \/ GetFails(w) \/ Fill(w) \/ Decide(w)
  \/ LoadMode(w) \/ Enqueue(w) \/ EnqueueFull(w) \/ Execute(w) \/ ExecuteFails(w)
  \/ UpdateCache(w) \/ IndexPath(w)

-----------------------------------------------------------------------------
\* async_worker_loop

\* Faulty variant: the newest write is taken first.
WorkerDequeueNewest ==
  /\ phase \in {"open", "dropping"}
  /\ queue # <<>> /\ Len(batch) < BatchSize
  /\ batch' = Append(batch, queue[Len(queue)])
  /\ queue' = SubSeq(queue, 1, Len(queue) - 1)
  /\ UNCHANGED <<cache, disk, path_index, sync_mode, phase, local, left, wiped>>

\* One dequeue per iteration; a full batch is flushed in the same iteration.
WorkerDequeue ==
  /\ phase \in {"open", "dropping"}
  /\ queue # <<>> /\ Len(batch) < BatchSize
  /\ batch' = Append(batch, Head(queue))
  /\ queue' = Tail(queue)
  /\ UNCHANGED <<cache, disk, path_index, sync_mode, phase, local, left, wiped>>

\* Faulty variant: the batch is cleared but not applied.
WorkerFlushNothing ==
  /\ phase \in {"open", "dropping"}
  /\ batch # <<>>
  /\ batch' = <<>>
  /\ UNCHANGED <<cache, disk, path_index, queue, sync_mode, phase, local, left, wiped>>

\* Batch full, or five milliseconds since the last flush.
WorkerFlush ==
  /\ phase \in {"open", "dropping"}
  /\ batch # <<>>
  /\ disk' = Apply(disk, batch)
  /\ batch' = <<>>
  /\ UNCHANGED <<cache, path_index, queue, sync_mode, phase, local, left, wiped>>

\* The error is logged and the batch is dropped.
WorkerFlushFails ==
  /\ phase \in {"open", "dropping"}
  /\ batch # <<>>
  /\ Trouble("batch")
  /\ batch' = <<>>
  /\ UNCHANGED <<cache, disk, path_index, queue, sync_mode, phase, local, wiped>>

\* Nothing to dequeue and nothing to flush: the thread sleeps and looks again.
WorkerSleep ==
  /\ phase \in {"open", "dropping"}
  /\ queue = <<>> /\ batch = <<>>
  /\ UNCHANGED vars

\* The loop sees async_running = false, drains the queue and applies the rest.
WorkerExits ==
  /\ phase = "dropping"
  /\ phase' = "draining"
  /\ UNCHANGED <<cache, disk, path_index, queue, batch, sync_mode, local, left, wiped>>

WorkerDrain ==
  /\ phase = "draining"
  /\ queue # <<>>
  /\ batch' = Append(batch, Head(queue))
  /\ queue' = Tail(queue)
  /\ UNCHANGED <<cache, disk, path_index, sync_mode, phase, local, left, wiped>>

\* Faulty variant: the thread ends without draining the queue.
WorkerFinalFlushEarly ==
  /\ phase = "draining"
  /\ disk' = Apply(disk, batch)
  /\ batch' = <<>>
  /\ cache' = Empty
  /\ phase' = "closed"
  /\ UNCHANGED <<path_index, queue, sync_mode, local, left, wiped>>

WorkerFinalFlush ==
  /\ phase = "draining"
  /\ queue = <<>>
  /\ \/ disk' = Apply(disk, batch) /\ UNCHANGED left
     \/ Trouble("batch") /\ batch # <<>> /\ UNCHANGED disk
  /\ batch' = <<>>
  /\ cache' = Empty
  /\ phase' = "closed"
  /\ UNCHANGED <<path_index, queue, sync_mode, local, wiped>>

BackgroundThread == \/ WorkerDequeue \/ WorkerFlush \/ WorkerFlushFails \/ WorkerSleep
                    \/ WorkerExits \/ WorkerDrain \/ WorkerFinalFlush

-----------------------------------------------------------------------------
\* The engine's life

Idle == \A w \in Workers : pc[w] = "idle"
Quiescent == Idle /\ queue = <<>> /\ batch = <<>>

\* The administrator switches the mode; only the flag changes.
ChangeSyncMode ==
  /\ phase = "open"
  /\ SwitchWhen = "anytime" \/ Quiescent
  /\ \E m \in {"Batch", "Immediate"} \ {sync_mode} : sync_mode' = m
  /\ Trouble("switch")
  /\ UNCHANGED <<cache, disk, path_index, queue, batch, phase, local, wiped>>

\* The last reference goes away, so no operation is running; drop() then waits
\* for the background thread.
Drop ==
  /\ phase = "open"
  /\ Idle
  /\ Trouble("drop")
  /\ phase' = "dropping"
  /\ UNCHANGED <<cache, disk, path_index, queue, batch, sync_mode, local, wiped>>

\* The process dies.  What RocksDB accepted is in its log and survives; the
\* memory of the process does not.
Crash ==
  /\ phase \in {"open", "dropping", "draining"}
  /\ Trouble("crash")
  /\ phase' = "crashed"
  /\ cache' = Empty
  /\ queue' = <<>>
  /\ batch' = <<>>
  /\ pc' = [w \in Workers |-> "idle"]
  /\ key' = [w \in Workers |-> None]
  /\ got' = [w \in Workers |-> None]
  /\ todo' = [w \in Workers |-> <<>>]
  /\ UNCHANGED <<disk, path_index, sync_mode, req, result, ops, wiped>>

\* Faulty variant: the path index starts empty.
OpenUnindexed ==
  /\ phase \in {"closed", "crashed"}
  /\ phase' = "open"
  /\ sync_mode' = "Batch"
  /\ path_index' = {}
  /\ UNCHANGED <<cache, disk, queue, batch, local, left, wiped>>

\* open: an empty cache and queue, Batch mode, the path index rebuilt from the
\* "m:" keys of RocksDB.
Open ==
  /\ phase \in {"closed", "crashed"}
  /\ phase' = "open"
  /\ sync_mode' = "Batch"
  /\ path_index' = {p \in Paths : disk[MetaKey(p)] # None}
  /\ UNCHANGED <<cache, disk, queue, batch, local, left, wiped>>

Next == \/ \E w \in Workers : Operation(w)
        \/ BackgroundThread
        \/ ChangeSyncMode \/ Drop \/ Crash \/ Open

Spec == Init /\ [][Next]_vars

\* The scheduler runs the background thread, whose loop never blocks: it
\* dequeues while there is something to dequeue and flushes a batch at the
\* latest when its five milliseconds are over.  A shutdown is completed.
Fairness == /\ WF_vars(WorkerDequeue) /\ WF_vars(WorkerFlush)
            /\ WF_vars(WorkerExits) /\ WF_vars(WorkerDrain) /\ WF_vars(WorkerFinalFlush)

FairSpec == Spec /\ Fairness

-----------------------------------------------------------------------------
\* Properties

Reading == {"lookup", "get", "fill", "decide"}
Writing == {"mode", "enqueue", "execute", "cache"}
MetaKeys == {MetaKey(p) : p \in Paths}
IsStore(f) ==
  /\ f = [k \in Keys |-> f[k]]
  /\ \A k \in Keys : f[k] = None \/ f[k] \in (IF k \in MetaKeys THEN KeyMetadata ELSE Payloads)
Write == [key : MetaKeys, value : KeyMetadata]
           \cup [key : Keys \ MetaKeys, value : Payloads \cup {None}]

TypeOK ==
  /\ IsStore(cache) /\ IsStore(disk)
  /\ path_index \subseteq Paths
  /\ queue \in Seq(Write) /\ batch \in Seq(Write)
  /\ sync_mode \in {"Batch", "Immediate"}
  /\ phase \in {"open", "dropping", "draining", "closed", "crashed"}
  /\ pc \in [Workers -> {"idle", "index"} \cup Reading \cup Writing]
  /\ req \in [Workers -> Request \cup {None}]
  /\ key \in [Workers -> Keys \cup {None}]
  /\ got = [w \in Workers |-> got[w]]
  /\ \A w \in Workers :
       \/ got[w] = None
       \/ key[w] \in MetaKeys /\ got[w] \in KeyMetadata
       \/ key[w] \in Keys \ MetaKeys /\ got[w] \in Payloads
  /\ todo \in [Workers -> Seq(Write)]
  /\ ops \in [Workers -> Nat] /\ \A w \in Workers : ops[w] <= MaxOps[w]
  /\ left \in [Troubles -> Nat]
  /\ wiped \subseteq Paths \X Versions

\* Every version that the metadata on disk lists has its payload on disk,
\* unless some destroy_version deleted it: put_version hands over the payload
\* before the metadata (lines 323 and 337), the queue and the batch keep that
\* order and a batch is atomic, so no crash, eviction or interleaving of
\* operations on the same path can leave a listed version without its payload.
DiskMetadataHasPayloads ==
  \A p \in Paths, v \in Versions :
    /\ disk[MetaKey(p)] # None /\ Listed(disk[MetaKey(p)], v)
    /\ <<p, v>> \notin wiped
    => disk[VersionKey(p, v)] # None

\* The metadata of a path is somewhere in the engine only if the path is in
\* the path index, or the put_version that brings it is about to insert it
\* (line 350): neither a rejected write, nor a crash between the two, nor the
\* rebuilding of the index in open loses a path.
IndexComplete ==
  phase \in {"open", "dropping", "draining"} =>
    \A p \in Paths :
      Latest[MetaKey(p)] # None =>
        \/ p \in path_index
        \/ \E w \in Workers :
             /\ req[w] # None /\ req[w].kind = "put" /\ req[w].path = p
             /\ pc[w] = "index" \/ (pc[w] = "cache" /\ Len(todo[w]) = 1)

\* Every copy of a path's metadata numbers its versions one after the other,
\* modulo the width of the number, whatever interleaved, failed or restarted:
\* an operation works on one copy it has read and writes that copy back whole.
Numbered(m) ==
  /\ m.current_version = Len(m.versions) % (MaxVersion + 1)
  /\ \A i \in DOMAIN m.versions : m.versions[i].version_id = i % (MaxVersion + 1)
VersionsNumbered ==
  \A p \in Paths :
    LET copies == {cache[MetaKey(p)], disk[MetaKey(p)]}
                    \cup {Pending[i].value : i \in Touches(Pending, MetaKey(p))}
    IN \A m \in copies \ {None} : Numbered(m)

\* A cache that loses only clean entries makes the two reads of read_version
\* consistent: a payload that the metadata promised is found, cached or on disk,
\* unless a destroy_version deleted it in between ("Missing version payload",
\* line 285).
ListedIsReadable ==
  \A w \in Workers, p \in Paths, v \in Versions :
    pc[w] = "decide" /\ key[w] = VersionKey(p, v) /\ got[w] = None => <<p, v>> \in wiped

\* The write of w that it has handed over but not yet put into the cache.
InFlight(w) == pc[w] = "cache"

\* The cache is never stale: a cached value is the last one written, be it
\* still queued, in the batch or on disk, except while the operation that
\* wrote it is between enqueue_or_execute and cache.insert.
CacheCoherent ==
  \A k \in Keys :
    /\ cache[k] # None
    /\ \A w \in Workers : InFlight(w) => Head(todo[w]).key # k
    => cache[k] = Latest[k]

\* "destroyed" in the metadata means that the payload has been wiped
\* (traits.rs, line 14): it is neither cached, nor on disk, nor on its way.
DestroyedIsWiped ==
  \A p \in Paths :
    LET m == Latest[MetaKey(p)]
    IN Idle /\ m # None =>
         \A i \in DOMAIN m.versions :
           m.versions[i].destroyed =>
             /\ Latest[VersionKey(p, m.versions[i].version_id)] = None
             /\ cache[VersionKey(p, m.versions[i].version_id)] = None

\* Version numbers on disk never go back: writes reach RocksDB in the order in
\* which the operations made them.
DiskNeverRegresses ==
  [][\A p \in Paths :
       disk[MetaKey(p)] # None =>
         /\ disk'[MetaKey(p)] # None
         /\ disk'[MetaKey(p)].current_version >= disk[MetaKey(p)].current_version]_vars

\* From drop() on no write is lost, and when the engine is closed all of them
\* are on disk (lines 194-202 and 546-560).
ShutdownKeepsWrites ==
  [][phase' \in {"dropping", "draining", "closed"} =>
       /\ Latest' = Latest
       /\ phase' = "closed" => disk' = Latest]_vars

\* A version handed to the queue reaches RocksDB (write-behind), with its payload
\* unless that is deleted meanwhile.
EventuallyDurable ==
  \A p \in Paths, v \in Versions :
    (Latest[MetaKey(p)] # None /\ Listed(Latest[MetaKey(p)], v))
      ~> /\ disk[MetaKey(p)] # None /\ Listed(disk[MetaKey(p)], v)
         /\ disk[VersionKey(p, v)] # None \/ <<p, v>> \in wiped

\* Of two conditional updates of a path that expect the same version, one is
\* refused (line 303).
CheckAndSet ==
  \A w, u \in Workers :
    /\ w # u
    /\ req[w] # None /\ req[u] # None
    /\ req[w].kind = "put" /\ req[u].kind = "put"
    /\ req[w].path = req[u].path
    /\ req[w].cas # None /\ req[w].cas = req[u].cas
    => ~ (result[w] = Ok(None) /\ result[u] = Ok(None))

\* Once nothing is running or pending, the cache agrees with RocksDB: the
\* write-behind path is eventually consistent.
Converges == Quiescent => \A k \in Keys : cache[k] # None => cache[k] = disk[k]

-----------------------------------------------------------------------------
\* Refinement: the abstract secret is what the disk will hold; a write takes
\* effect when its metadata, or the deletion of its payload, is handed over.

Performed(w) ==
  /\ req[w] # None
  /\ \/ Len(todo[w]) = 1 /\ pc[w] \in {"cache", "index"}
     \/ /\ req[w].kind = "destroy"
        /\ \/ Len(todo[w]) = 2 /\ pc[w] = "cache"
           \/ Len(todo[w]) = 1

Secrets ==
  LET latest == Latest
      destroying == {<<req[w].path, req[w].version>> :
                       w \in {u \in Workers : Performed(u) /\ req[u].kind = "destroy"}}
  IN [p \in Paths |->
       IF latest[MetaKey(p)] = None THEN <<>>
       ELSE LET versions == latest[MetaKey(p)].versions IN
            [i \in DOMAIN versions |->
              [value |-> latest[VersionKey(p, i)],
               deleted |-> versions[i].deleted,
               destroyed |-> versions[i].destroyed \/ <<p, i>> \in destroying]]]

Abstract == INSTANCE VersionedStore
              WITH store <- Secrets,
                   payload <- [w \in Workers |-> IF ops[w] = 0 THEN None ELSE <<w, ops[w]>>],
                   performed <- [w \in Workers |-> Performed(w)],
                   answer <- result

\* Clients that do not share paths get a linearisable versioned store: cache,
\* queue, batch and disk together answer as one store.
ImplementsStore == Abstract!Spec

-----------------------------------------------------------------------------
(***************************************************************************)
(* The inductive invariant behind DiskMetadataHasPayloads, for an engine   *)
(* whose batches do not fail and whose mode is only switched while nothing *)
(* is pending.  Wherever there is a copy of a path's metadata, the payload *)
(* of every version it lists is ahead of it on the way to the disk: on     *)
(* disk, earlier in the batch or the queue, or earlier among the writes of *)
(* the same operation.                                                     *)
(***************************************************************************)
OrderlyWrites == SwitchWhen = "quiescent" /\ \A b \in Budgets : b["batch"] = 0

\* The locals of a worker agree with the step it is at.
ControlOK ==
  \A w \in Workers :
    /\ phase # "open" => pc[w] = "idle"
    /\ pc[w] # "idle" => req[w] \in Request /\ ops[w] >= 1
    /\ pc[w] \in Reading =>
         \/ key[w] = MetaKey(req[w].path)
         \/ /\ req[w].kind = "read_version"
            /\ \E v \in Versions : key[w] = VersionKey(req[w].path, v)
    /\ pc[w] = "idle" => got[w] = None
    /\ pc[w] = "fill" => got[w] # None
    /\ pc[w] \in Writing => todo[w] # <<>>

\* No batch may fail.
BatchesSucceed == left["batch"] = 0

\* A worker writes to the disk directly only while nothing is pending.
ModeOK ==
  /\ sync_mode = "Immediate" => queue = <<>> /\ batch = <<>>
  /\ \A w \in Workers : /\ pc[w] = "enqueue" => sync_mode = "Batch"
                        /\ pc[w] = "execute" => sync_mode = "Immediate"

Carries(write, p, v) == write.key = VersionKey(p, v) /\ write.value # None
OnDisk(p, v) == disk[VersionKey(p, v)] # None
InBatch(p, v, n) == \E j \in 1..n : Carries(batch[j], p, v)
InQueue(p, v, n) == \E j \in 1..n : Carries(queue[j], p, v)
Ahead(p, v) == OnDisk(p, v) \/ InBatch(p, v, Len(batch)) \/ InQueue(p, v, Len(queue))

\* The metadata x lists v, whose payload nobody deleted.
Needs(x, p, v) == x # None /\ Listed(x, v) /\ <<p, v>> \notin wiped

\* A deletion that has been handed over is recorded.
Recorded(write) ==
  \A p \in Paths, v \in Versions :
    write.key = VersionKey(p, v) /\ write.value = None => <<p, v>> \in wiped

CopiesOK(p, v) ==
  /\ Needs(disk[MetaKey(p)], p, v) => OnDisk(p, v)
  /\ Needs(cache[MetaKey(p)], p, v) => Ahead(p, v)
  /\ \A i \in 1..Len(batch) :
       batch[i].key = MetaKey(p) /\ Needs(batch[i].value, p, v) => OnDisk(p, v) \/ InBatch(p, v, i - 1)
  /\ \A i \in 1..Len(queue) :
       queue[i].key = MetaKey(p) /\ Needs(queue[i].value, p, v) =>
         OnDisk(p, v) \/ InBatch(p, v, Len(batch)) \/ InQueue(p, v, i - 1)

LocalsOK(w, p, v) ==
  /\ key[w] = MetaKey(p) /\ Needs(got[w], p, v) => Ahead(p, v)
  /\ \A i \in 1..Len(todo[w]) :
       todo[w][i].key = MetaKey(p) /\ Needs(todo[w][i].value, p, v) =>
         Ahead(p, v) \/ \E j \in 1..(i - 1) : Carries(todo[w][j], p, v)
  /\ pc[w] = "cache" /\ Carries(todo[w][1], p, v) /\ <<p, v>> \notin wiped => Ahead(p, v)

\* Payloads stay ahead of the metadata that lists them (put_version, lines 323
\* to 341, and the background thread).
PayloadsAhead ==
  /\ TypeOK /\ ControlOK /\ ModeOK
  /\ \A i \in 1..Len(batch) : Recorded(batch[i])
  /\ \A i \in 1..Len(queue) : Recorded(queue[i])
  /\ \A p \in Paths, v \in Versions : CopiesOK(p, v) /\ \A w \in Workers : LocalsOK(w, p, v)
=============================================================================
