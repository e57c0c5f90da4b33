------------------------------ MODULE HttpApi ------------------------------
(***************************************************************************)
(* The handlers of the secrets API (server/http_handler.rs) on the worker  *)
(* threads, and the registry of mounted engines they resolve their mount   *)
(* in (engine/engine_registry.rs).                                         *)
(*                                                                         *)
(* A worker thread handles one request at a time, since no engine call     *)
(* suspends.  A handler is a sequence of engine calls, and a call a         *)
(* sequence of reads and writes of one secret: it reads the metadata,      *)
(* decides, reads or writes a payload, and writes the metadata back.       *)
(* Nothing locks the secret, so other workers, and mounts, come in between *)
(* any two of these steps.  What is behind a write (cache, queue, disk) is *)
(* the subject of KvEngine; here a write is seen by all at once.           *)
(* Documents and what a patch makes of them are parameters, given by       *)
(* JsonDocuments.                                                          *)
(***************************************************************************)
EXTENDS SecretVersions, FiniteSets, TLC

CONSTANTS Workers,
          Requests,          \* per worker: the requests its clients send
          Budgets,           \* bounds: requests per worker, mounts, and engine calls that fail
          Stored,            \* the secrets at the start, per engine and path
          Paths, Engines, MountPoints,
          Mounters,          \* threads that call mount
          MountCalls,        \* per such thread: <<prefix, engine>>
          Initial,           \* the mounts made before the listeners start
          NotJson,           \* a body or secret that is not JSON text
          EmptyObject,       \* the document {}
          Word,              \* 2^32: version numbers are u32
          Merged(_, _),      \* json_merge_patch
          Subkeys(_, _)      \* strip_to_subkeys

VARIABLES engines,     \* the registry: prefix |-> engine
          write_lock,  \* the mounter that holds the registry's lock
          mounting,    \* per mounter: where it is in mount, and the map it copied
          stores,      \* per engine and path: the metadata of the secret and its payloads
          job,         \* per worker: its current or last request
          left,        \* what is left of the budget
          destroyed    \* history: <<engine, path, version>> whose destruction was answered 204

vars == <<engines, write_lock, mounting, stores, job, left, destroyed>>

\* at is the place in the engine call, copy the metadata that it read.
NoJob == [pc |-> "done", req |-> None, engine |-> None, at |-> "read_metadata", copy |-> <<>>,
          todo |-> <<>>, doc |-> None, status |-> None, body |-> None,
          seen |-> 0, base |-> 0, made |-> 0, effects |-> 0, fresh |-> TRUE]

Init == /\ engines = Initial
        /\ write_lock = None
        /\ mounting = [m \in Mounters |-> [at |-> "idle", copy |-> Initial]]
        /\ stores = Stored
        /\ job = [w \in Workers |-> NoJob]
        /\ left \in Budgets
        /\ destroyed = {}

-----------------------------------------------------------------------------
(* The registry.                                                           *)

resolve(prefix) == IF prefix \in DOMAIN engines THEN engines[prefix] ELSE None

\* Faulty variant: without the lock.
MountCopyUnlocked(m) ==
  /\ mounting[m].at = "idle" /\ left.mounts > 0
  /\ left' = [left EXCEPT !.mounts = @ - 1]
  /\ mounting' = [mounting EXCEPT ![m] = [at |-> "store", copy |-> engines]]
  /\ UNCHANGED <<engines, write_lock, stores, job, destroyed>>

\* mount takes the lock and copies the map,
MountCopy(m) ==
  /\ mounting[m].at = "idle" /\ left.mounts > 0
  /\ write_lock = None
  /\ write_lock' = m
  /\ left' = [left EXCEPT !.mounts = @ - 1]
  /\ mounting' = [mounting EXCEPT ![m] = [at |-> "store", copy |-> engines]]
  /\ UNCHANGED <<engines, stores, job, destroyed>>

\* and stores the copy with the new entry.
MountStore(m) ==
  /\ mounting[m].at = "store"
  /\ engines' = (MountCalls[m][1] :> MountCalls[m][2]) @@ mounting[m].copy
  /\ mounting' = [mounting EXCEPT ![m].at = "done"]
  /\ write_lock' = None
  /\ UNCHANGED <<stores, job, left, destroyed>>

-----------------------------------------------------------------------------
(* Requests and answers.                                                   *)

\* AppError::into_response.
StatusOf(e) == CASE e \in {"MountNotFound", "NotFound", "SoftDeleted", "Destroyed", "InvalidVersion"} -> 404
                 [] e = "CasMismatch" -> 409
                 [] e \in {"StorageError", "MissingPayload"} -> 500
                 [] e = "QueueFull" -> 503

Answer(w, status, body) == [job[w] EXCEPT !.pc = "done", !.at = "read_metadata", !.copy = <<>>,
                                          !.status = status, !.body = body]
Become(w, j) == job' = [job EXCEPT ![w] = j]
Refuse(w, e) == Become(w, Answer(w, StatusOf(e), <<"error", e>>))

AsU32(n) == n % Word

\* A number in the query (version, depth) that is no u32 counts as 0.
Param(n) == IF n \in 0..(Word - 1) THEN n ELSE 0

\* The secret is the member "data" of the body, or all of it.
DataOf(body) == IF body.data = None THEN body.whole ELSE body.data
CasOf(body) == IF body.cas = None THEN None ELSE AsU32(body.cas)
parse_versions_list(body) == [i \in DOMAIN body.versions |-> AsU32(body.versions[i])]

-----------------------------------------------------------------------------
(* Engine calls.                                                           *)

R(kind, version, cas) == [kind |-> kind, version |-> version, cas |-> cas]

Secret(w) == stores[job[w].engine][job[w].req.path]
Metadata(w) == Secret(w).metadata

SameSecret(v, w) == /\ job[v].engine # None /\ job[v].engine = job[w].engine
                    /\ job[v].req.path = job[w].req.path

\* A writing call goes on with metadata that another call has replaced.
Stale(w) == job[w].at \in {"write_payload", "write_metadata"} /\ job[w].copy # Metadata(w)

\* The metadata that a call writes back.
Updated(m, r) ==
  CASE r.kind = "put" -> Append(m, [deleted |-> FALSE, destroyed |-> FALSE])
    [] r.kind = "soft_delete" -> [m EXCEPT ![r.version].deleted = TRUE]
    [] r.kind = "undelete" -> [m EXCEPT ![r.version].deleted = FALSE]
    [] r.kind = "destroy" -> [m EXCEPT ![r.version].destroyed = TRUE]

AfterMetadata(kind) == CASE kind = "read_version" -> "read_payload"
                         [] kind \in {"put", "destroy"} -> "write_payload"
                         [] kind \in {"soft_delete", "undelete"} -> "write_metadata"

\* Every call reads the metadata first and decides by it.
ReadMetadata(w, r, j) ==
  /\ job[w].at = "read_metadata"
  /\ LET verdict == Checked(Metadata(w), r)
     IN IF verdict # "Ok" THEN Refuse(w, verdict)
        ELSE IF r.kind = "read_metadata" THEN Become(w, j)
        ELSE Become(w, [job[w] EXCEPT !.at = AfterMetadata(r.kind), !.copy = Metadata(w)])
  /\ UNCHANGED <<stores, left>>

ReadPayload(w, r, j) ==
  /\ job[w].at = "read_payload"
  /\ IF Secret(w).payloads[Target(job[w].copy, r)] = None
       THEN Refuse(w, "MissingPayload")
       ELSE Become(w, [j EXCEPT !.at = "read_metadata", !.copy = <<>>])
  /\ UNCHANGED <<stores, left>>

\* A write of the secret; fresh notes that none of them was stale.
Store(w, secret, j) ==
  /\ stores' = [stores EXCEPT ![job[w].engine][job[w].req.path] = secret]
  /\ job' = [v \in Workers |-> [(IF v = w THEN j ELSE job[v])
               EXCEPT !.fresh = @ /\ ~(Stale(w) /\ SameSecret(v, w))]]
  /\ UNCHANGED left

\* put_version writes the payload of the new version, destroy_version deletes one,
WritePayload(w, r, x) ==
  /\ job[w].at = "write_payload"
  /\ LET v == IF r.kind = "put" THEN Len(job[w].copy) + 1 ELSE r.version
     IN Store(w, [Secret(w) EXCEPT !.payloads = (v :> x) @@ @],
              [job[w] EXCEPT !.at = "write_metadata"])

\* and all writing calls put back the metadata they read, with their change.
WriteMetadata(w, r, j) ==
  /\ job[w].at = "write_metadata"
  /\ Store(w, [Secret(w) EXCEPT !.metadata = Updated(job[w].copy, r)],
           [j EXCEPT !.at = "read_metadata", !.copy = <<>>, !.effects = @ + 1])

\* A read of RocksDB, or a write, fails.
CallFails(w) ==
  /\ left.failures > 0
  /\ left' = [left EXCEPT !.failures = @ - 1]
  /\ \E e \in {"StorageError"} \cup (IF job[w].at \in {"write_payload", "write_metadata"}
                                      THEN {"QueueFull"} ELSE {}) : Refuse(w, e)
  /\ UNCHANGED stores

\* A step of the engine call r with the payload x: the job becomes j when the
\* call returns, an error answer when it is refused or fails.
Call(w, r, x, j) == \/ ReadMetadata(w, r, j) \/ ReadPayload(w, r, j)
                    \/ WritePayload(w, r, x) \/ WriteMetadata(w, r, j)
                    \/ CallFails(w)

At(w, pc) == /\ job[w].pc = pc
             /\ UNCHANGED <<engines, write_lock, mounting>>

\* A request arrives; its mount is resolved and its body parsed.
Begin(w, req) ==
  /\ job[w].pc = "done"
  /\ left.requests[w] > 0
  /\ left' = [left EXCEPT !.requests[w] = @ - 1]
  /\ LET e == resolve(req.mount)
         fresh == [NoJob EXCEPT !.req = req]
     IN Become(w, IF e = None
                    THEN [fresh EXCEPT !.status = 404, !.body = <<"error", "MountNotFound">>]
                    ELSE [fresh EXCEPT !.engine = e, !.pc = req.kind, !.seen = Len(stores[e][req.path].metadata),
                                       !.todo = parse_versions_list(req.body)])
  /\ UNCHANGED <<engines, write_lock, mounting, stores, destroyed>>

-----------------------------------------------------------------------------
(* The handlers.                                                           *)

PayloadRead(w, r) == Secret(w).payloads[Target(job[w].copy, r)]

read_secret(w) ==
  /\ At(w, "read_secret")
  /\ LET r == R("read_version", Param(job[w].req.version), None)
     IN Call(w, r, None, Answer(w, 200, <<"secret", PayloadRead(w, r)>>))
  /\ UNCHANGED destroyed

\* A secret that is not JSON counts as an empty document.
Parsed(value) == IF value = NotJson THEN EmptyObject ELSE value

read_subkeys(w) ==
  /\ At(w, "read_subkeys")
  /\ LET r == R("read_version", Param(job[w].req.version), None)
         doc == Parsed(PayloadRead(w, r))
     IN Call(w, r, None, Answer(w, 200, <<"subkeys", Subkeys(doc, Param(job[w].req.depth))>>))
  /\ UNCHANGED destroyed

write_secret(w) ==
  /\ At(w, "write_secret")
  /\ Call(w, R("put", 0, None), DataOf(job[w].req.body), Answer(w, 204, None))
  /\ UNCHANGED destroyed

delete_latest(w) ==
  /\ At(w, "delete_latest")
  /\ Call(w, R("soft_delete", 0, None), None, Answer(w, 204, None))
  /\ UNCHANGED destroyed

\* patch_secret: read the latest version and merge; a body that is not JSON is
\* noticed only now.
PatchRead(w) ==
  /\ At(w, "patch_secret")
  /\ LET r == R("read_version", 0, None)
         doc == Parsed(PayloadRead(w, r))
     IN Call(w, r, None,
             IF job[w].req.body.whole = NotJson
               THEN Answer(w, 500, <<"error", "StorageError">>)
               ELSE [job[w] EXCEPT !.pc = "patch_put", !.base = Len(job[w].copy),
                                   !.doc = Merged(doc, DataOf(job[w].req.body))])
  /\ UNCHANGED destroyed

\* Faulty variants: cas is ignored, or compared after the write.
PatchPutNoCas(w) ==
  /\ At(w, "patch_put")
  /\ Call(w, R("put", 0, None), job[w].doc,
          [job[w] EXCEPT !.pc = "patch_answer", !.made = Len(job[w].copy) + 1])
  /\ UNCHANGED destroyed

PatchPutLateCas(w) ==
  /\ At(w, "patch_put")
  /\ Call(w, R("put", 0, None), job[w].doc,
          IF CasOf(job[w].req.body) \in {None, Len(job[w].copy)}
            THEN [job[w] EXCEPT !.pc = "patch_answer", !.made = Len(job[w].copy) + 1]
            ELSE Answer(w, 409, <<"error", "CasMismatch">>))
  /\ UNCHANGED destroyed

PatchPut(w) ==
  /\ At(w, "patch_put")
  /\ Call(w, R("put", 0, CasOf(job[w].req.body)), job[w].doc,
          [job[w] EXCEPT !.pc = "patch_answer", !.made = Len(job[w].copy) + 1])
  /\ UNCHANGED destroyed

\* Faulty variant: the answer waits until its own version is the latest.
PatchAnswerOwn(w) ==
  /\ At(w, "patch_answer") /\ Len(Metadata(w)) = job[w].made
  /\ Call(w, R("read_metadata", 0, None), None, Answer(w, 200, <<"version", job[w].made>>))
  /\ UNCHANGED destroyed

\* The answer describes the last version there is now.
PatchAnswer(w) ==
  /\ At(w, "patch_answer")
  /\ Call(w, R("read_metadata", 0, None), None, Answer(w, 200, <<"version", Len(Metadata(w))>>))
  /\ UNCHANGED destroyed

OpOf(kind) == CASE kind = "soft_delete_versions" -> "soft_delete"
                [] kind = "undelete_versions" -> "undelete"
                [] kind = "destroy_versions" -> "destroy"

Named(w) == {job[w].req.body.versions[i] : i \in DOMAIN job[w].req.body.versions}

\* Faulty variant: errors are skipped.
EachVersionSkip(w) ==
  /\ job[w].pc \in {"soft_delete_versions", "undelete_versions", "destroy_versions"}
  /\ At(w, job[w].pc) /\ job[w].todo # <<>>
  /\ LET r == R(OpOf(job[w].pc), Head(job[w].todo), None)
     IN IF job[w].at # "read_metadata" \/ Checked(Metadata(w), r) = "Ok"
          THEN Call(w, r, None, [job[w] EXCEPT !.todo = Tail(@)])
          ELSE Become(w, [job[w] EXCEPT !.todo = Tail(@)]) /\ UNCHANGED <<stores, left>>
  /\ UNCHANGED destroyed

\* soft_delete_versions, undelete_versions, destroy_versions: one call for each
\* version of the list, up to the first error.
EachVersion(w) ==
  /\ job[w].pc \in {"soft_delete_versions", "undelete_versions", "destroy_versions"}
  /\ At(w, job[w].pc) /\ job[w].todo # <<>>
  /\ Call(w, R(OpOf(job[w].pc), Head(job[w].todo), None), None,
          [job[w] EXCEPT !.todo = Tail(@)])
  /\ UNCHANGED destroyed

\* destroyed takes the destructions that no write overlapped: none of the
\* secret was stale since the request began, and no call that is in progress holds
\* metadata from before.
AllVersionsDone(w) ==
  /\ job[w].pc \in {"soft_delete_versions", "undelete_versions", "destroy_versions"}
  /\ At(w, job[w].pc) /\ job[w].todo = <<>>
  /\ Become(w, Answer(w, 204, None))
  /\ destroyed' = IF /\ job[w].pc = "destroy_versions"
                     /\ job[w].fresh /\ ~\E v \in Workers : SameSecret(v, w) /\ Stale(v)
                    THEN destroyed \cup {<<job[w].engine, job[w].req.path, AsU32(v)>> : v \in Named(w)}
                    ELSE destroyed
  /\ UNCHANGED <<stores, left>>

read_metadata(w) ==
  /\ At(w, "read_metadata")
  /\ Call(w, R("read_metadata", 0, None), None, Answer(w, 200, <<"metadata", Metadata(w)>>))
  /\ UNCHANGED destroyed

\* read_metadata with list=true: the index holds the paths that were written.
ListPaths(w) ==
  /\ At(w, "list_keys")
  /\ Become(w, Answer(w, 200, <<"keys", {p \in Paths : stores[job[w].engine][p].metadata # <<>>}>>))
  /\ UNCHANGED <<stores, left, destroyed>>

Handle(w) == \/ read_secret(w) \/ read_subkeys(w) \/ write_secret(w) \/ delete_latest(w)
             \/ PatchRead(w) \/ PatchPut(w) \/ PatchAnswer(w)
             \/ EachVersion(w) \/ AllVersionsDone(w)
             \/ read_metadata(w) \/ ListPaths(w)

Next == \/ \E w \in Workers : Handle(w) \/ \E req \in Requests[w] : Begin(w, req)
        \/ \E m \in Mounters : MountCopy(m) \/ MountStore(m)

Spec == Init /\ [][Next]_vars

\* A worker thread goes on with the request it handles.
FairSpec == Spec /\ \A w \in Workers : WF_vars(Handle(w))

-----------------------------------------------------------------------------
(* Properties.                                                             *)

\* A patch merges into a version that was the latest one at some time while
\* the request was handled; with a cas that names a version its sender can
\* know, the new version directly follows the one that was merged into: the cas
\* keeps out the writes between the patch's read and its put.  The version that is
\* reported exists and is not older than the one made (patch_secret, lines 209 to
\* 249).  All this as long as no call writes the secret by metadata that another
\* call has replaced meanwhile; put_version has no protection against that
\* (kv_engine.rs, lines 297 to 345).
PatchBase ==
  \A w \in Workers :
    LET j == job[w]
    IN j.made # 0 /\ j.fresh =>
         /\ j.base \in j.seen..(j.made - 1)
         /\ CasOf(j.req.body) \in 1..j.seen => j.base = CasOf(j.req.body) /\ j.made = j.base + 1
         /\ j.status = 200 => j.body[2] \in j.made..Len(Metadata(w))

\* A request that is answered with an error has left the metadata of the secret
\* as it was, except that a request for several versions has handled those before
\* the one it failed on, and that a patch whose answer cannot be built has made its
\* version (http_handler.rs, lines 243 and 370 to 372).  A put or destruction that
\* fails halfway may have written or deleted its payload.
ErrorsHaveNoEffect ==
  \A w \in Workers :
    LET j == job[w]
    IN j.status \in {404, 409, 500, 503} =>
         \/ j.effects = 0
         \/ j.effects = Len(j.req.body.versions) - Len(j.todo) /\ j.todo # <<>>
         \/ j.made # 0 /\ j.status = 500

\* Versions whose destruction was answered with 204 stay listed, destroyed and
\* without payload, all versions of the request: no call that reads the metadata
\* after the destruction can undo it, nor can any number of overlapping ones
\* (destroy_versions; destroy_version, kv_engine.rs lines 428 to 459).  A call
\* that had read the metadata before can; destructions that such a call overlaps
\* are not recorded in destroyed.
DestroyAnswered ==
  \A d \in destroyed : LET s == stores[d[1]][d[2]]
                       IN /\ d[3] \in DOMAIN s.metadata /\ s.metadata[d[3]].destroyed
                          /\ s.payloads[d[3]] = None

\* A prefix stays mounted once mount has returned, also when several threads
\* mount at the same time (mount, lines 26 to 32).
MountsKept ==
  /\ DOMAIN Initial \subseteq DOMAIN engines
  /\ \A m \in Mounters : mounting[m].at = "done" => MountCalls[m][1] \in DOMAIN engines

\* Every request is answered.
EveryRequestAnswered == \A w \in Workers : job[w].pc # "done" ~> job[w].pc = "done"
=============================================================================
