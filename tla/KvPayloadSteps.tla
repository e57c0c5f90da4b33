--------------------------- MODULE KvPayloadSteps ---------------------------
(***************************************************************************)
(* The steps of the workers up to the hand-over of a write keep            *)
(* PayloadsAhead; KvPayloadProofs has the rest of the proof.               *)
(***************************************************************************)
EXTENDS KvEngineProofs

-----------------------------------------------------------------------------
\* What a step leaves as it was

\* A step of worker w that touches neither the disk, nor the queue, nor the
\* batch, nor the other workers' locals.
LEMMA LocalStep ==
  ASSUME PayloadsAhead, TypeOK', ControlOK', NEW w \in Workers,
         UNCHANGED <<disk, queue, batch, wiped, sync_mode>>,
         \A u \in Workers \ {w} : /\ pc'[u] = pc[u] /\ key'[u] = key[u]
                                  /\ got'[u] = got[u] /\ todo'[u] = todo[u],
         \A p \in Paths, v \in Versions : Needs(cache'[MetaKey(p)], p, v) => Ahead(p, v),
         /\ pc'[w] = "enqueue" => sync_mode = "Batch"
         /\ pc'[w] = "execute" => sync_mode = "Immediate",
         \A p \in Paths, v \in Versions : LocalsOK(w, p, v)'
  PROVE  PayloadsAhead'
<1>1. ModeOK'
  BY ZenonT(60) DEF PayloadsAhead, ModeOK
<1>2. /\ \A i \in 1..Len(batch') : Recorded(batch[i])'
      /\ \A i \in 1..Len(queue') : Recorded(queue[i])'
  BY ZenonT(60) DEF PayloadsAhead, Recorded
<1>3. ASSUME NEW p \in Paths, NEW v \in Versions
      PROVE  CopiesOK(p, v)'
  <2>1. CopiesOK(p, v)
    BY ZenonT(60) DEF PayloadsAhead
  <2>2. Needs(cache'[MetaKey(p)], p, v) => Ahead(p, v)
    OBVIOUS
  <2> QED BY <2>1, <2>2, ZenonT(60) DEF CopiesOK, Needs, Ahead, OnDisk, InBatch, InQueue
<1>4. ASSUME NEW p \in Paths, NEW v \in Versions, NEW u \in Workers
      PROVE  LocalsOK(u, p, v)'
  <2>1. CASE u = w
    BY <2>1, ZenonT(60)
  <2>2. CASE u # w
    <3>1. LocalsOK(u, p, v)
      BY ZenonT(60) DEF PayloadsAhead
    <3>2. pc'[u] = pc[u] /\ key'[u] = key[u] /\ got'[u] = got[u] /\ todo'[u] = todo[u]
      BY <2>2, ZenonT(60)
    <3>3. Ahead(p, v)' = Ahead(p, v)
      BY ZenonT(60) DEF Ahead, OnDisk, InBatch, InQueue
    <3> QED BY <3>1, <3>2, <3>3, SMTT(60) DEF LocalsOK, Needs
  <2> QED BY <2>1, <2>2, ZenonT(60)
<1> QED BY <1>1, <1>2, <1>3, <1>4, ZenonT(60) DEF PayloadsAhead

\* An operation that has returned holds nothing.
LEMMA NothingHeld ==
  ASSUME NEW w \in Workers, got'[w] = None, todo'[w] = <<>>, pc'[w] # "cache"
  PROVE  \A p \in Paths, v \in Versions : LocalsOK(w, p, v)'
BY DEF LocalsOK, Needs

\* A step that leaves the cache alone keeps the payloads of cached metadata ahead.
LEMMA CacheKept ==
  ASSUME PayloadsAhead, UNCHANGED cache
  PROVE  \A p \in Paths, v \in Versions : Needs(cache'[MetaKey(p)], p, v) => Ahead(p, v)
BY ZenonT(60) DEF PayloadsAhead, CopiesOK

\* A cache.insert of metadata whose payloads are ahead.
LEMMA CacheInserted ==
  ASSUME PayloadsAhead, NEW k \in Keys, NEW x, CacheInsert(k, x),
         \A p \in Paths, v \in Versions : k = MetaKey(p) /\ Needs(x, p, v) => Ahead(p, v)
  PROVE  \A p \in Paths, v \in Versions : Needs(cache'[MetaKey(p)], p, v) => Ahead(p, v)
<1> SUFFICES ASSUME NEW p \in Paths, NEW v \in Versions, Needs(cache'[MetaKey(p)], p, v)
             PROVE  Ahead(p, v)
  OBVIOUS
<1>1. MetaKey(p) \in Keys
  BY KeyFacts, ZenonT(60)
<1>2. cache = [a \in Keys |-> cache[a]]
  BY ZenonT(60) DEF PayloadsAhead, TypeOK, IsStore
<1>3. \/ cache'[MetaKey(p)] = None
      \/ cache'[MetaKey(p)] = cache[MetaKey(p)]
      \/ MetaKey(p) = k /\ cache'[MetaKey(p)] = x
  <2>1. PICK e : Cache!Insert(k, x, e)
    BY ZenonT(60) DEF CacheInsert
  <2> QED BY <1>1, <1>2, <2>1 DEF Cache!Insert
<1>4. Needs(cache[MetaKey(p)], p, v) => Ahead(p, v)
  BY ZenonT(60) DEF PayloadsAhead, CopiesOK
<1> QED BY <1>3, <1>4, ZenonT(60) DEF Needs

-----------------------------------------------------------------------------
\* The steps that only read, decide or return

\* The end of an operation drops its copies.
LEMMA ReturnStep ==
  ASSUME PayloadsAhead, TypeOK', ControlOK', NEW w \in Workers, NEW r, Reply(w, r),
         UNCHANGED <<disk, queue, batch, wiped, sync_mode>>,
         \A p \in Paths, v \in Versions : Needs(cache'[MetaKey(p)], p, v) => Ahead(p, v)
  PROVE  PayloadsAhead'
<1>1. /\ pc' = [pc EXCEPT ![w] = "idle"] /\ key' = [key EXCEPT ![w] = None]
      /\ got' = [got EXCEPT ![w] = None] /\ todo' = [todo EXCEPT ![w] = <<>>]
  BY ZenonT(60) DEF Reply, Goto
<1>2. pc'[w] = "idle" /\ got'[w] = None /\ todo'[w] = <<>>
  BY <1>1, ZenonT(60) DEF PayloadsAhead, TypeOK
<1>3. \A u \in Workers \ {w} : /\ pc'[u] = pc[u] /\ key'[u] = key[u]
                               /\ got'[u] = got[u] /\ todo'[u] = todo[u]
  BY <1>1, ZenonT(60) DEF PayloadsAhead, TypeOK
<1> QED BY <1>2, <1>3, NothingHeld, LocalStep, ZenonT(60)

\* A new operation holds no copy yet.
LEMMA BeginStep ==
  ASSUME PayloadsAhead, TypeOK', ControlOK', NEW w \in Workers, Begin(w)
  PROVE  PayloadsAhead'
<1>1. /\ pc[w] = "idle" /\ pc' = [pc EXCEPT ![w] = "lookup"]
      /\ UNCHANGED <<cache, disk, queue, batch, wiped, sync_mode, got, todo>>
  BY ZenonT(60) DEF Begin, Goto, shared
<1>2. \A u \in Workers \ {w} : pc'[u] = pc[u] /\ key'[u] = key[u]
  BY ZenonT(60) DEF Begin, Goto, PayloadsAhead, TypeOK
<1>3. pc'[w] = "lookup" /\ got[w] = None
  BY <1>1, ZenonT(60) DEF PayloadsAhead, TypeOK, ControlOK
<1>4. ASSUME NEW p \in Paths, NEW v \in Versions PROVE LocalsOK(w, p, v)'
  <2>1. LocalsOK(w, p, v)
    BY ZenonT(60) DEF PayloadsAhead
  <2>2. Ahead(p, v)' = Ahead(p, v)
    BY <1>1, ZenonT(60) DEF Ahead, OnDisk, InBatch, InQueue
  <2> QED BY <1>1, <1>3, <2>1, <2>2, ZenonT(60) DEF LocalsOK, Needs
<1> QED BY <1>1, <1>2, <1>3, <1>4, CacheKept, LocalStep, ZenonT(60)

\* A copy read from the cache or the disk has its payloads ahead of it.
LEMMA ReadStep ==
  ASSUME PayloadsAhead, TypeOK', ControlOK', NEW w \in Workers, Lookup(w) \/ Get(w)
  PROVE  PayloadsAhead'
<1>1. /\ UNCHANGED <<cache, disk, queue, batch, wiped, sync_mode, key, todo>>
      /\ pc[w] \in Reading
      /\ \E l \in Reading : pc' = [pc EXCEPT ![w] = l]
      /\ \/ got' = [got EXCEPT ![w] = cache[key[w]]]
         \/ got' = [got EXCEPT ![w] = disk[key[w]]]
  BY ZenonT(60) DEF Lookup, Get, Goto, shared, Reading
<1>2. \A u \in Workers \ {w} : pc'[u] = pc[u] /\ got'[u] = got[u]
  BY <1>1, ZenonT(60) DEF PayloadsAhead, TypeOK
<1>3. pc'[w] \in Reading /\ (got'[w] = cache[key[w]] \/ got'[w] = disk[key[w]])
  BY <1>1, ZenonT(60) DEF PayloadsAhead, TypeOK
<1>4. pc'[w] \notin {"enqueue", "execute", "cache"}
  BY <1>3, ZenonT(60) DEF Reading
<1>5. ASSUME NEW p \in Paths, NEW v \in Versions PROVE LocalsOK(w, p, v)'
  <2>1. LocalsOK(w, p, v) /\ CopiesOK(p, v)
    BY ZenonT(60) DEF PayloadsAhead
  <2>2. Ahead(p, v)' = Ahead(p, v)
    BY <1>1, ZenonT(60) DEF Ahead, OnDisk, InBatch, InQueue
  <2>3. key'[w] = MetaKey(p) /\ Needs(got'[w], p, v) => Ahead(p, v)
    BY <1>1, <1>3, <2>1, ZenonT(60) DEF CopiesOK, Ahead
  <2> QED BY <1>1, <1>4, <2>1, <2>2, <2>3, ZenonT(60) DEF LocalsOK, Needs
<1> QED BY <1>1, <1>2, <1>4, <1>5, CacheKept, LocalStep, ZenonT(60)

\* The copy put into the cache has its payloads ahead of it.
LEMMA FillStep ==
  ASSUME PayloadsAhead, TypeOK', ControlOK', NEW w \in Workers, Fill(w)
  PROVE  PayloadsAhead'
<1>1. /\ UNCHANGED <<disk, queue, batch, wiped, sync_mode, key, got, todo>>
      /\ pc[w] = "fill" /\ pc' = [pc EXCEPT ![w] = "decide"]
      /\ CacheInsert(key[w], got[w])
  BY ZenonT(60) DEF Fill, Goto
<1>2. key[w] \in Keys
  BY <1>1, KeyFacts, SMTT(60) DEF PayloadsAhead, TypeOK, ControlOK, Reading, Request
<1>3. pc'[w] = "decide" /\ \A u \in Workers \ {w} : pc'[u] = pc[u]
  BY <1>1, ZenonT(60) DEF PayloadsAhead, TypeOK
<1>4. \A p \in Paths, v \in Versions : LocalsOK(w, p, v)
  BY ZenonT(60) DEF PayloadsAhead
<1>5. \A p \in Paths, v \in Versions : Needs(cache'[MetaKey(p)], p, v) => Ahead(p, v)
  BY <1>1, <1>2, <1>4, CacheInserted, ZenonT(60) DEF LocalsOK
<1>6. ASSUME NEW p \in Paths, NEW v \in Versions PROVE LocalsOK(w, p, v)'
  <2>1. Ahead(p, v)' = Ahead(p, v)
    BY <1>1, ZenonT(60) DEF Ahead, OnDisk, InBatch, InQueue
  <2> QED BY <1>1, <1>3, <1>4, <2>1, ZenonT(60) DEF LocalsOK, Needs
<1> QED BY <1>1, <1>3, <1>5, <1>6, LocalStep, ZenonT(60)

\* New metadata lists the old versions, and one whose payload is written first.
LEMMA DecideStep ==
  ASSUME PayloadsAhead, TypeOK', ControlOK', NEW w \in Workers, Decide(w)
  PROVE  PayloadsAhead'
<1>1. TypeOK /\ ControlOK
  BY ZenonT(60) DEF PayloadsAhead
<1>2. UNCHANGED <<cache, disk, queue, batch, wiped, sync_mode>> /\ pc[w] = "decide" /\ req[w].path \in Paths
  BY <1>1, ZenonT(60) DEF Decide, shared, ControlOK, Request
<1>3. CASE \E r : Reply(w, r)
  BY <1>2, <1>3, ReturnStep, CacheKept, ZenonT(60)
<1>4. CASE /\ req[w].kind = "read_version"
           /\ \E v \in Versions : key' = [key EXCEPT ![w] = VersionKey(req[w].path, v)]
           /\ got' = [got EXCEPT ![w] = None]
           /\ pc' = [pc EXCEPT ![w] = "lookup"]
           /\ UNCHANGED <<todo, result>>
  <2>1. \A u \in Workers \ {w} : pc'[u] = pc[u] /\ key'[u] = key[u] /\ got'[u] = got[u]
    BY <1>1, <1>4, ZenonT(60) DEF TypeOK
  <2>2. pc'[w] = "lookup" /\ got'[w] = None
    BY <1>1, <1>4, ZenonT(60) DEF TypeOK
  <2>3. ASSUME NEW p \in Paths, NEW v \in Versions PROVE LocalsOK(w, p, v)'
    <3>1. LocalsOK(w, p, v)
      BY DEF PayloadsAhead
    <3>2. Ahead(p, v)' = Ahead(p, v)
      BY <1>2, ZenonT(60) DEF Ahead, OnDisk, InBatch, InQueue
    <3> QED BY <1>2, <1>4, <2>2, <3>1, <3>2, ZenonT(60) DEF LocalsOK, Needs
  <2> QED BY <1>2, <1>4, <2>1, <2>2, <2>3, CacheKept, LocalStep, ZenonT(60)
<1>5. CASE /\ key[w] = MetaKey(req[w].path)
           /\ \E ws \in Seq(Write) : /\ ws # <<>> /\ Supported(ws, got[w], req[w].path)
                                     /\ todo' = [todo EXCEPT ![w] = ws]
           /\ pc' = [pc EXCEPT ![w] = "mode"]
           /\ UNCHANGED <<key, got, result>>
  <2>1. PICK ws \in Seq(Write) : /\ Supported(ws, got[w], req[w].path)
                                 /\ todo' = [todo EXCEPT ![w] = ws]
    BY <1>5, ZenonT(60)
  <2>2. /\ \A u \in Workers \ {w} : pc'[u] = pc[u] /\ todo'[u] = todo[u]
        /\ pc'[w] = "mode" /\ todo'[w] = ws
    BY <1>1, <1>5, <2>1, ZenonT(60) DEF TypeOK
  <2>3. ASSUME NEW p \in Paths, NEW v \in Versions PROVE LocalsOK(w, p, v)'
    <3>1. LocalsOK(w, p, v)
      BY ZenonT(60) DEF PayloadsAhead
    <3>2. Ahead(p, v)' = Ahead(p, v)
      BY <1>2, ZenonT(60) DEF Ahead, OnDisk, InBatch, InQueue
    <3>3. Needs(got[w], req[w].path, v) /\ p = req[w].path => Ahead(p, v)
      BY <1>5, <3>1, ZenonT(60) DEF LocalsOK
    <3>4. ASSUME NEW i \in 1..Len(ws), ws[i].key = MetaKey(p), Needs(ws[i].value, p, v)
          PROVE  Ahead(p, v) \/ \E j \in 1..(i - 1) : Carries(ws[j], p, v)
      BY <2>1, <3>3, <3>4, ZenonT(60) DEF Supported, Needs
    <3> QED BY <1>2, <1>5, <2>2, <3>1, <3>2, <3>4, ZenonT(60) DEF LocalsOK, Needs
  <2> QED BY <1>2, <1>5, <2>2, <2>3, CacheKept, LocalStep, ZenonT(60)
<1> QED BY <1>1, <1>3, <1>4, <1>5, DecideCases, ZenonT(60)

\* Only the step changes, in agreement with the mode.
LEMMA LoadModeStep ==
  ASSUME PayloadsAhead, TypeOK', ControlOK', NEW w \in Workers, LoadMode(w)
  PROVE  PayloadsAhead'
<1>1. UNCHANGED <<cache, disk, queue, batch, wiped, sync_mode, key, got, todo>>
  BY ZenonT(60) DEF LoadMode, shared
<1>2. /\ pc' = [pc EXCEPT ![w] = IF sync_mode = "Immediate" THEN "execute" ELSE "enqueue"]
      /\ sync_mode \in {"Batch", "Immediate"}
  BY ZenonT(60) DEF LoadMode, Goto, PayloadsAhead, TypeOK
<1>3. /\ \A u \in Workers \ {w} : pc'[u] = pc[u]
      /\ pc'[w] = IF sync_mode = "Immediate" THEN "execute" ELSE "enqueue"
  BY <1>2, ZenonT(60) DEF PayloadsAhead, TypeOK
<1>4. ASSUME NEW p \in Paths, NEW v \in Versions PROVE LocalsOK(w, p, v)'
  <2>1. LocalsOK(w, p, v)
    BY DEF PayloadsAhead
  <2>2. Ahead(p, v)' = Ahead(p, v)
    BY <1>1, ZenonT(60) DEF Ahead, OnDisk, InBatch, InQueue
  <2> QED BY <1>1, <1>3, <2>1, <2>2, ZenonT(60) DEF LocalsOK, Needs
<1> QED BY <1>1, <1>2, <1>3, <1>4, CacheKept, LocalStep, SMTT(60)

\* The write that enters the cache has been handed over, and is dropped from the list.
LEMMA UpdateCacheStep ==
  ASSUME PayloadsAhead, TypeOK', ControlOK', NEW w \in Workers, UpdateCache(w)
  PROVE  PayloadsAhead'
<1> DEFINE h == Head(todo[w])
<1>1. TypeOK /\ ControlOK /\ pc[w] = "cache" /\ pc[w] \in Writing
  BY ZenonT(60) DEF PayloadsAhead, UpdateCache, Writing
<1>2. todo[w] \in Seq(Write) /\ todo[w] # <<>> /\ h \in Write /\ h = todo[w][1] /\ Len(todo[w]) \in Nat \ {0}
  BY <1>1, HeadOfTodo, ZenonT(60)
<1>3. UNCHANGED <<disk, queue, batch, wiped, sync_mode>>
  BY ZenonT(60) DEF UpdateCache
<1>4. \A p \in Paths, v \in Versions : LocalsOK(w, p, v)
  BY DEF PayloadsAhead
<1>5. \A p \in Paths, v \in Versions : h.key = MetaKey(p) /\ Needs(h.value, p, v) => Ahead(p, v)
  <2> SUFFICES ASSUME NEW p \in Paths, NEW v \in Versions, h.key = MetaKey(p), Needs(h.value, p, v)
               PROVE  Ahead(p, v)
    OBVIOUS
  <2>1. 1 \in 1..Len(todo[w]) /\ 1..(1 - 1) = {}
    BY <1>2
  <2> QED BY <1>2, <1>4, <2>1, ZenonT(60) DEF LocalsOK
<1> HIDE DEF h
<1>6. \A p \in Paths, v \in Versions : Needs(cache'[MetaKey(p)], p, v) => Ahead(p, v)
  <2>1. h.key \in Keys
    BY <1>2, WriteFacts, ZenonT(60)
  <2>2. CASE h.value # None
    BY <1>5, <2>1, <2>2, CacheInserted, ZenonT(60) DEF UpdateCache, h
  <2>3. CASE h.value = None
    <3>1. cache' = [cache EXCEPT ![h.key] = None]
      BY <2>3, ZenonT(60) DEF UpdateCache, CacheRemove, Cache!Remove, h
    <3>2. \A p \in Paths : cache'[MetaKey(p)] = None \/ cache'[MetaKey(p)] = cache[MetaKey(p)]
      BY <1>1, <3>1, KeyFacts, ZenonT(60) DEF TypeOK, IsStore
    <3> QED BY <3>2, ZenonT(60) DEF Needs, PayloadsAhead, CopiesOK
  <2> QED BY <2>2, <2>3, ZenonT(60)
<1>7. CASE /\ Len(todo[w]) > 1
           /\ todo' = [todo EXCEPT ![w] = Tail(@)]
           /\ Goto(w, "mode")
           /\ UNCHANGED <<key, got, result>>
  <2>1. /\ \A u \in Workers \ {w} : pc'[u] = pc[u] /\ todo'[u] = todo[u]
        /\ pc'[w] = "mode" /\ todo'[w] = Tail(todo[w])
    BY <1>1, <1>7, ZenonT(60) DEF TypeOK, Goto
  <2>2. PICK t : t = Tail(todo[w])
    BY ZenonT(60)
  <2>3. /\ Len(t) = Len(todo[w]) - 1
        /\ \A i \in 1..Len(t) : t[i] = todo[w][i + 1]
    BY <1>2, <2>2, TailFacts, ZenonT(60)
  <2>4. ASSUME NEW p \in Paths, NEW v \in Versions PROVE LocalsOK(w, p, v)'
    <3>1. LocalsOK(w, p, v)
      BY <1>4, ZenonT(60)
    <3>2. Ahead(p, v)' = Ahead(p, v)
      BY <1>3, ZenonT(60) DEF Ahead, OnDisk, InBatch, InQueue
    <3>3. ASSUME NEW i \in 1..Len(t), t[i].key = MetaKey(p), Needs(t[i].value, p, v)
          PROVE  Ahead(p, v) \/ \E j \in 1..(i - 1) : Carries(t[j], p, v)
      <4>1. i + 1 \in 1..Len(todo[w]) /\ t[i] = todo[w][i + 1] /\ (i + 1) - 1 = i
        BY <1>2, <2>3, SMTT(60)
      <4>2. CASE Ahead(p, v)
        BY <4>2, ZenonT(60)
      <4>3. CASE \E j \in 1..((i + 1) - 1) : Carries(todo[w][j], p, v)
        <5>1. PICK j \in 1..i : Carries(todo[w][j], p, v)
          BY <4>1, <4>3, ZenonT(60)
        <5>2. CASE j = 1
          BY <1>1, <3>1, <3>3, <5>1, <5>2, ZenonT(60) DEF LocalsOK, Needs
        <5>3. CASE j # 1
          <6>1. j - 1 \in 1..(i - 1) /\ j - 1 \in 1..Len(t) /\ (j - 1) + 1 = j
            BY <1>2, <2>3, <5>1, <5>3, SMTT(60)
          <6>2. t[j - 1] = todo[w][j]
            BY <2>3, <6>1, ZenonT(60)
          <6> QED BY <5>1, <6>1, <6>2, ZenonT(60)
        <5> QED BY <5>2, <5>3, ZenonT(60)
      <4> QED BY <3>1, <3>3, <4>1, <4>2, <4>3, ZenonT(60) DEF LocalsOK
    <3> QED BY <1>3, <1>7, <2>1, <2>2, <3>1, <3>2, <3>3, ZenonT(60) DEF LocalsOK, Needs
  <2> QED BY <1>3, <1>6, <1>7, <2>1, <2>4, LocalStep, ZenonT(60)
<1>8. CASE Goto(w, "index") /\ UNCHANGED <<key, got, todo, result>>
  <2>1. pc'[w] = "index" /\ \A u \in Workers \ {w} : pc'[u] = pc[u]
    BY <1>1, <1>8, ZenonT(60) DEF TypeOK, Goto
  <2>2. ASSUME NEW p \in Paths, NEW v \in Versions PROVE LocalsOK(w, p, v)'
    <3>1. Ahead(p, v)' = Ahead(p, v)
      BY <1>3 DEF Ahead, OnDisk, InBatch, InQueue
    <3> QED BY <1>3, <1>4, <1>8, <2>1, <3>1, ZenonT(60) DEF LocalsOK, Needs
  <2> QED BY <1>3, <1>6, <1>8, <2>1, <2>2, LocalStep, ZenonT(60)
<1>9. CASE Reply(w, Ok(None))
  BY <1>3, <1>6, <1>9, ReturnStep, ZenonT(60)
<1> QED BY <1>7, <1>8, <1>9, ZenonT(60) DEF UpdateCache

-----------------------------------------------------------------------------
\* The steps that move writes

\* A payload that was ahead stays ahead: the locals of a worker stay supported.
LEMMA LocalsKept ==
  ASSUME PayloadsAhead, NEW w \in Workers, NEW p \in Paths, NEW v \in Versions,
         wiped \subseteq wiped',
         Ahead(p, v) /\ <<p, v>> \notin wiped' => Ahead(p, v)',
         key'[w] = key[w], got'[w] = got[w], todo'[w] = todo[w],
         pc'[w] = "cache" => \/ pc[w] = "cache"
                             \/ Carries(todo[w][1], p, v) /\ <<p, v>> \notin wiped' => Ahead(p, v)'
  PROVE  LocalsOK(w, p, v)'
<1>1. LocalsOK(w, p, v)
  BY ZenonT(60) DEF PayloadsAhead
<1>2. \A x : Needs(x, p, v)' => Needs(x, p, v) /\ <<p, v>> \notin wiped'
  BY ZenonT(60) DEF Needs
<1>3. key'[w] = MetaKey(p) /\ Needs(got[w], p, v)' => Ahead(p, v)'
  BY <1>1, <1>2, ZenonT(60) DEF LocalsOK
<1>4. ASSUME NEW i \in 1..Len(todo[w]), todo[w][i].key = MetaKey(p), Needs(todo[w][i].value, p, v)'
      PROVE  Ahead(p, v)' \/ \E j \in 1..(i - 1) : Carries(todo[w][j], p, v)
  BY <1>1, <1>2, <1>4, ZenonT(60) DEF LocalsOK
<1>5. pc'[w] = "cache" /\ Carries(todo[w][1], p, v) /\ <<p, v>> \notin wiped' => Ahead(p, v)'
  BY <1>1, ZenonT(60) DEF LocalsOK
<1> QED BY <1>3, <1>4, <1>5, ZenonT(60) DEF LocalsOK, Needs, Carries

\* A deletion that is handed over is recorded, and no record is lost.
LEMMA HandedOver ==
  ASSUME TypeOK, NEW x \in Write, Wipe(x)
  PROVE  wiped \subseteq wiped' /\ Recorded(x)'
<1>1. ASSUME NEW p \in Paths, NEW v \in Versions, x.key = VersionKey(p, v), x.value = None
      PROVE  <<p, v>> \in wiped'
  <2>1. x = Delete(VersionKey(p, v))
    BY <1>1, ZenonT(60) DEF Write, Delete
  <2> QED BY <2>1, ZenonT(60) DEF Wipe
<1> QED BY <1>1, ZenonT(60) DEF Wipe, Recorded

\* The write at the end of the queue has its payloads ahead of it.
LEMMA EnqueueStep ==
  ASSUME PayloadsAhead, TypeOK', ControlOK', NEW w \in Workers, Enqueue(w)
  PROVE  PayloadsAhead'
<1>n. PICK n : n = Len(queue)
  BY ZenonT(60)
<1>h. PICK h : h = Head(todo[w])
  OBVIOUS
<1>1. TypeOK /\ ControlOK /\ pc[w] = "enqueue" /\ pc[w] \in Writing /\ queue \in Seq(Write) /\ n \in Nat
  BY <1>n, LenProperties, ZenonT(60) DEF PayloadsAhead, Enqueue, Writing, TypeOK
<1>2. h \in Write /\ h = todo[w][1] /\ Len(todo[w]) \in Nat \ {0}
  BY <1>1, <1>h, HeadOfTodo, ZenonT(60)
<1>3. /\ queue' = Append(queue, h) /\ Wipe(h) /\ pc' = [pc EXCEPT ![w] = "cache"]
      /\ UNCHANGED <<cache, disk, batch, sync_mode, key, got, todo>>
  BY <1>h, ZenonT(60) DEF Enqueue, Goto
<1>4. wiped \subseteq wiped' /\ Recorded(h)'
  BY <1>1, <1>2, <1>3, HandedOver, ZenonT(60)
<1>5. /\ Len(queue') = n + 1 /\ queue'[n + 1] = h
      /\ \A i \in 1..n : queue'[i] = queue[i]
  BY <1>1, <1>2, <1>3, <1>n, AppendProperties, SMTT(60)
<1>6. /\ \A u \in Workers \ {w} : pc'[u] = pc[u]
      /\ pc'[w] = "cache"
  BY <1>1, <1>3, ZenonT(60) DEF TypeOK
<1>7. ModeOK'
  BY <1>1, <1>3, <1>6, ZenonT(60) DEF PayloadsAhead, ModeOK
<1>8. /\ \A i \in 1..Len(batch') : Recorded(batch[i])'
      /\ \A i \in 1..Len(queue') : Recorded(queue[i])'
  <2>1. \A i \in 1..Len(batch) : Recorded(batch[i])'
    BY <1>3, <1>4, ZenonT(60) DEF PayloadsAhead, Recorded
  <2>2. \A i \in 1..n : Recorded(queue[i])'
    BY <1>4, <1>5, <1>n, ZenonT(60) DEF PayloadsAhead, Recorded
  <2>3. Recorded(queue[n + 1])'
    BY <1>4, <1>5, ZenonT(60) DEF Recorded
  <2>4. \A i \in 1..Len(queue') : i \in 1..n \/ i = n + 1
    BY <1>1, <1>5, SMTT(60)
  <2> QED BY <1>3, <2>1, <2>2, <2>3, <2>4, ZenonT(60)
<1>9. ASSUME NEW p \in Paths, NEW v \in Versions
      PROVE  CopiesOK(p, v)' /\ \A u \in Workers : LocalsOK(u, p, v)'
  <2>1. CopiesOK(p, v) /\ LocalsOK(w, p, v)
    BY ZenonT(60) DEF PayloadsAhead
  <2>2. OnDisk(p, v)' = OnDisk(p, v) /\ \A i : InBatch(p, v, i)' = InBatch(p, v, i)
    BY <1>3, ZenonT(60) DEF OnDisk, InBatch
  <2>3. \A i \in 1..(n + 1) : InQueue(p, v, i - 1)' = InQueue(p, v, i - 1)
    BY <1>1, <1>5, SMTT(60) DEF InQueue
  <2>4. InQueue(p, v, n) => InQueue(p, v, n + 1)'
    BY <1>1, <1>5, SMTT(60) DEF InQueue
  <2>5. Ahead(p, v) => Ahead(p, v)'
    BY <1>3, <1>5, <1>n, <2>2, <2>4, ZenonT(60) DEF Ahead
  <2>6. \A x : Needs(x, p, v)' => Needs(x, p, v)
    BY <1>4, ZenonT(60) DEF Needs
  <2>7. h.key = MetaKey(p) /\ Needs(h.value, p, v) => Ahead(p, v)
    <3>1. 1 \in 1..Len(todo[w]) /\ 1..(1 - 1) = {}
      BY <1>2, SMTT(60)
    <3> QED BY <1>2, <2>1, <3>1, ZenonT(60) DEF LocalsOK
  <2>8. ASSUME NEW i \in 1..(n + 1), queue'[i].key = MetaKey(p), Needs(queue[i].value, p, v)'
        PROVE  OnDisk(p, v)' \/ InBatch(p, v, Len(batch))' \/ InQueue(p, v, i - 1)'
    <3>1. CASE i \in 1..n
      BY <1>3, <1>5, <2>1, <2>2, <2>3, <2>6, <2>8, <1>n, <3>1, ZenonT(60) DEF CopiesOK
    <3>2. CASE i = n + 1
      <4>1. Ahead(p, v)
        BY <1>5, <2>6, <2>7, <2>8, <3>2, ZenonT(60)
      <4>2. OnDisk(p, v) \/ InBatch(p, v, Len(batch)) \/ InQueue(p, v, i - 1)
        BY <1>1, <1>n, <3>2, <4>1, SMTT(60) DEF Ahead
      <4> QED BY <1>3, <2>2, <2>3, <4>2, ZenonT(60)
    <3> QED BY <1>1, <3>1, <3>2, SMTT(60)
  <2>9. CopiesOK(p, v)'
    <3>1. Needs(disk[MetaKey(p)], p, v)' => OnDisk(p, v)'
      BY <1>3, <2>1, <2>2, <2>6, ZenonT(60) DEF CopiesOK
    <3>2. Needs(cache[MetaKey(p)], p, v)' => Ahead(p, v)'
      BY <1>3, <2>1, <2>5, <2>6, ZenonT(60) DEF CopiesOK
    <3>3. \A i \in 1..Len(batch') : batch'[i].key = MetaKey(p) /\ Needs(batch[i].value, p, v)'
                                     => OnDisk(p, v)' \/ InBatch(p, v, i - 1)'
      BY <1>3, <2>1, <2>2, <2>6, ZenonT(60) DEF CopiesOK
    <3> QED BY <1>5, <2>8, <3>1, <3>2, <3>3, ZenonT(60) DEF CopiesOK
  <2>10. Carries(h, p, v) => Ahead(p, v)'
    <3>1. Carries(h, p, v) => InQueue(p, v, n + 1)'
      BY <1>1, <1>5, SMTT(60) DEF InQueue, Carries
    <3> QED BY <1>5, <3>1, ZenonT(60) DEF Ahead
  <2>11. ASSUME NEW u \in Workers PROVE LocalsOK(u, p, v)'
    <3>1. key'[u] = key[u] /\ got'[u] = got[u] /\ todo'[u] = todo[u]
      BY <1>3, ZenonT(60)
    <3>2. pc'[u] = "cache" => pc[u] = "cache" \/ (Carries(todo[u][1], p, v) => Ahead(p, v)')
      BY <1>2, <1>6, <2>10, ZenonT(60)
    <3> QED BY <1>4, <2>5, <3>1, <3>2, LocalsKept, ZenonT(60)
  <2> QED BY <2>9, <2>11, ZenonT(60)
<1> QED BY <1>7, <1>8, <1>9, ZenonT(60) DEF PayloadsAhead
=============================================================================
