-------------------------- MODULE KvPayloadProofs ---------------------------
(***************************************************************************)
(* The proof that the metadata on disk never lists a version whose payload *)
(* is not on disk, for any number of workers, paths, versions, operations, *)
(* crashes and restarts, as long as no batch fails and the sync mode is    *)
(* only switched while nothing is pending (OrderlyWrites).                 *)
(*                                                                         *)
(* The property by itself is not inductive: the flush of a batch preserves *)
(* it only if payloads come before the metadata in the batch, they do only *)
(* if they did in the queue, and in the queue only if an operation never   *)
(* worked on metadata that lists a payload still behind it.  PayloadsAhead *)
(* says this of every place a copy of the metadata can be.                 *)
(***************************************************************************)
EXTENDS KvPayloadSteps

\* RocksDB takes a single write.
LEMMA ApplyOne ==
  ASSUME NEW f, IsStore(f), NEW x \in Write
  PROVE  \A k \in Keys : Apply(f, <<x>>)[k] = IF k = x.key THEN x.value ELSE f[k]
<1>1. PICK ws : ws = <<x>>
  BY ZenonT(60)
<1>2. ws \in Seq(Write) /\ Len(ws) = 1 /\ ws[1] = x
  BY <1>1
<1> SUFFICES ASSUME NEW k \in Keys
             PROVE  Apply(f, ws)[k] = IF k = x.key THEN x.value ELSE f[k]
  BY <1>1, ZenonT(60)
<1>3. k = x.key <=> Touches(ws, k) # {}
  BY <1>2 DEF Touches
<1>4. CASE k = x.key
  <2>1. PICK i \in 1..Len(ws) : Apply(f, ws)[k] = ws[i].value
    BY <1>2, <1>3, <1>4, ApplyFacts, SMTT(60)
  <2> QED BY <1>2, <1>4, <2>1
<1>5. CASE k # x.key
  BY <1>2, <1>3, <1>5, ApplyFacts, SMTT(60)
<1> QED BY <1>4, <1>5, ZenonT(60)

\* A direct write finds its payloads on disk, as nothing is pending in Immediate mode.
LEMMA ExecuteStep ==
  ASSUME PayloadsAhead, TypeOK', ControlOK', NEW w \in Workers, Execute(w)
  PROVE  PayloadsAhead'
<1>h. PICK h : h = Head(todo[w])
  OBVIOUS
<1>1. TypeOK /\ ControlOK /\ pc[w] = "execute" /\ pc[w] \in Writing /\ IsStore(disk)
  BY ZenonT(60) DEF PayloadsAhead, Execute, Writing, TypeOK
<1>2. h \in Write /\ h = todo[w][1] /\ Len(todo[w]) \in Nat \ {0}
  BY <1>1, <1>h, HeadOfTodo, ZenonT(60)
<1>3. /\ disk' = Apply(disk, <<h>>) /\ Wipe(h) /\ pc' = [pc EXCEPT ![w] = "cache"]
      /\ UNCHANGED <<cache, queue, batch, sync_mode, key, got, todo>>
  BY <1>h, ZenonT(60) DEF Execute, Goto
<1>4. wiped \subseteq wiped' /\ Recorded(h)'
  BY <1>1, <1>2, <1>3, HandedOver, ZenonT(60)
<1>5. sync_mode = "Immediate" /\ queue = <<>> /\ batch = <<>>
  BY <1>1, ZenonT(60) DEF PayloadsAhead, ModeOK
<1>6. \A k \in Keys : disk'[k] = IF k = h.key THEN h.value ELSE disk[k]
  BY <1>1, <1>2, <1>3, ApplyOne, SMTT(60)
<1>7. /\ \A u \in Workers \ {w} : pc'[u] = pc[u]
      /\ pc'[w] = "cache"
  BY <1>1, <1>3, ZenonT(60) DEF TypeOK
<1>8. ModeOK'
  BY <1>1, <1>3, <1>5, <1>7, ZenonT(60) DEF PayloadsAhead, ModeOK
<1>9. /\ \A i \in 1..Len(batch') : Recorded(batch[i])'
      /\ \A i \in 1..Len(queue') : Recorded(queue[i])'
  BY <1>3, <1>5, SMTT(60)
<1>10. ASSUME NEW p \in Paths, NEW v \in Versions
       PROVE  CopiesOK(p, v)' /\ \A u \in Workers : LocalsOK(u, p, v)'
  <2>1. CopiesOK(p, v) /\ LocalsOK(w, p, v)
    BY ZenonT(60) DEF PayloadsAhead
  <2>2. (Ahead(p, v) <=> OnDisk(p, v)) /\ (Ahead(p, v)' <=> OnDisk(p, v)')
    <3>1. 1..Len(queue) = {} /\ 1..Len(batch) = {} /\ 1..Len(queue') = {} /\ 1..Len(batch') = {}
      BY <1>3, <1>5, SMTT(60)
    <3>2. Ahead(p, v) <=> OnDisk(p, v)
      BY <3>1, ZenonT(60) DEF Ahead, InBatch, InQueue
    <3>3. Ahead(p, v)' <=> OnDisk(p, v)'
      BY <3>1, ZenonT(60) DEF Ahead, InBatch, InQueue
    <3> QED BY <3>2, <3>3, ZenonT(60)
  <2>3. MetaKey(p) \in Keys /\ VersionKey(p, v) \in Keys /\ VersionKey(p, v) # MetaKey(p)
    BY KeyFacts, ZenonT(60)
  <2>4. OnDisk(p, v) /\ <<p, v>> \notin wiped' => OnDisk(p, v)'
    BY <1>4, <1>6, <2>3, ZenonT(60) DEF OnDisk, Recorded
  <2>5. \A x : Needs(x, p, v)' => Needs(x, p, v) /\ <<p, v>> \notin wiped'
    BY <1>4, ZenonT(60) DEF Needs
  <2>6. h.key = MetaKey(p) /\ Needs(h.value, p, v) => Ahead(p, v)
    <3>1. 1 \in 1..Len(todo[w]) /\ 1..(1 - 1) = {}
      BY <1>2
    <3> QED BY <1>2, <2>1, <3>1, ZenonT(60) DEF LocalsOK
  <2>7. Needs(disk[MetaKey(p)], p, v)' => OnDisk(p, v)'
    <3>1. CASE h.key = MetaKey(p)
      <4>1. disk'[MetaKey(p)] = h.value
        BY <1>6, <2>3, <3>1, ZenonT(60)
      <4>2. Needs(disk[MetaKey(p)], p, v)' => Needs(h.value, p, v) /\ <<p, v>> \notin wiped'
        BY <1>4, <4>1, ZenonT(60) DEF Needs
      <4> QED BY <2>2, <2>4, <2>6, <3>1, <4>2, SMTT(60)
    <3>2. CASE h.key # MetaKey(p)
      <4>1. disk'[MetaKey(p)] = disk[MetaKey(p)]
        BY <1>6, <2>3, <3>2, ZenonT(60)
      <4>2. Needs(disk[MetaKey(p)], p, v)' => Needs(disk[MetaKey(p)], p, v) /\ <<p, v>> \notin wiped'
        BY <1>4, <4>1, ZenonT(60) DEF Needs
      <4> QED BY <2>1, <2>4, <4>2, ZenonT(60) DEF CopiesOK
    <3> QED BY <3>1, <3>2, ZenonT(60)
  <2>8. Needs(cache[MetaKey(p)], p, v)' => Ahead(p, v)'
    <3>1. Needs(cache[MetaKey(p)], p, v)' => Needs(cache[MetaKey(p)], p, v) /\ <<p, v>> \notin wiped'
      BY <1>3, <1>4, ZenonT(60) DEF Needs
    <3> QED BY <2>1, <2>2, <2>4, <3>1, ZenonT(60) DEF CopiesOK
  <2>9. CopiesOK(p, v)'
    BY <1>3, <1>5, <2>7, <2>8, SMTT(60) DEF CopiesOK
  <2>10. Carries(h, p, v) => Ahead(p, v)'
    BY <1>6, <2>2, <2>3, ZenonT(60) DEF Carries, OnDisk
  <2>11. ASSUME NEW u \in Workers PROVE LocalsOK(u, p, v)'
    <3>1. key'[u] = key[u] /\ got'[u] = got[u] /\ todo'[u] = todo[u]
      BY <1>3, ZenonT(60)
    <3>2. pc'[u] = "cache" => pc[u] = "cache" \/ (Carries(todo[u][1], p, v) => Ahead(p, v)')
      BY <1>2, <1>7, <2>10, ZenonT(60)
    <3>3. Ahead(p, v) /\ <<p, v>> \notin wiped' => Ahead(p, v)'
      BY <2>2, <2>4, ZenonT(60)
    <3> QED BY <1>4, <3>1, <3>2, <3>3, LocalsKept, ZenonT(60)
  <2> QED BY <2>9, <2>11, ZenonT(60)
<1> QED BY <1>8, <1>9, <1>10, ZenonT(60) DEF PayloadsAhead

\* The background thread takes a write from the queue into its batch.
LEMMA DequeueStep ==
  ASSUME PayloadsAhead, TypeOK', ControlOK', WorkerDequeue \/ WorkerDrain
  PROVE  PayloadsAhead'
<1>n. PICK n, b, h : n = Len(queue) /\ b = Len(batch) /\ h = Head(queue)
  BY ZenonT(60)
<1>1. /\ TypeOK /\ queue \in Seq(Write) /\ batch \in Seq(Write) /\ queue # <<>>
      /\ batch' = Append(batch, Head(queue)) /\ queue' = Tail(queue)
      /\ UNCHANGED <<cache, disk, sync_mode, phase, pc, key, got, todo, wiped>>
  BY ZenonT(60) DEF PayloadsAhead, TypeOK, WorkerDequeue, WorkerDrain, local
<1>2. /\ n \in Nat \ {0} /\ h \in Write /\ h = queue[1] /\ Len(queue') = n - 1
      /\ \A i \in 1..Len(queue') : queue'[i] = queue[i + 1]
  BY <1>1, <1>n, TailFacts, ZenonT(60)
<1>3. /\ b \in Nat /\ Len(batch') = b + 1 /\ batch'[b + 1] = h
      /\ \A i \in 1..b : batch'[i] = batch[i]
  BY <1>1, <1>2, <1>n, AppendProperties, LenProperties, SMTT(60)
<1>4. ModeOK'
  BY <1>1, ZenonT(60) DEF PayloadsAhead, ModeOK
<1>5. \A i \in 1..Len(batch') : Recorded(batch[i])'
  <2>1. \A i \in 1..b : Recorded(batch[i])'
    BY <1>1, <1>3, <1>n, SMTT(60) DEF PayloadsAhead, Recorded
  <2>2. Recorded(queue[1])
    BY <1>2, <1>n, SMTT(60) DEF PayloadsAhead
  <2>3. ASSUME NEW i, i = b + 1 PROVE Recorded(batch[i])'
    BY <1>1, <1>2, <1>3, <2>2, <2>3, ZenonT(60) DEF Recorded
  <2>4. \A i \in 1..Len(batch') : i \in 1..b \/ i = b + 1
    BY <1>3, SMTT(60)
  <2> QED BY <2>1, <2>3, <2>4, ZenonT(60)
<1>6. \A i \in 1..Len(queue') : Recorded(queue[i])'
  <2> SUFFICES ASSUME NEW i \in 1..Len(queue') PROVE Recorded(queue[i])'
    BY ZenonT(60)
  <2>1. i + 1 \in 1..n /\ queue'[i] = queue[i + 1]
    BY <1>2, SMTT(60)
  <2>2. Recorded(queue[i + 1])
    BY <1>n, <2>1, ZenonT(60) DEF PayloadsAhead
  <2> QED BY <1>1, <2>1, <2>2, ZenonT(60) DEF Recorded
<1>7. ASSUME NEW p \in Paths, NEW v \in Versions
      PROVE  CopiesOK(p, v)' /\ \A u \in Workers : LocalsOK(u, p, v)'
  <2>1. CopiesOK(p, v)
    BY ZenonT(60) DEF PayloadsAhead
  <2>2. OnDisk(p, v)' = OnDisk(p, v) /\ \A x : Needs(x, p, v)' = Needs(x, p, v)
    BY <1>1, ZenonT(60) DEF OnDisk, Needs
  <2>3. \A i \in 1..(b + 1) : InBatch(p, v, i - 1) => InBatch(p, v, i - 1)'
    BY <1>3, SMTT(60) DEF InBatch, Carries
  <2>4. InBatch(p, v, b) => InBatch(p, v, b + 1)'
    BY <1>3, SMTT(60) DEF InBatch, Carries
  <2>5. Carries(h, p, v) => InBatch(p, v, b + 1)'
    BY <1>3, SMTT(60) DEF InBatch, Carries
  <2>6. ASSUME NEW i \in 0..n, i # 0, InQueue(p, v, i)
        PROVE  InBatch(p, v, b + 1)' \/ InQueue(p, v, i - 1)'
    <3>1. PICK j \in 1..i : Carries(queue[j], p, v)
      BY <2>6, ZenonT(60) DEF InQueue
    <3>2. CASE j = 1
      BY <1>2, <2>5, <3>1, <3>2, ZenonT(60)
    <3>3. CASE j # 1
      <4>1. j - 1 \in 1..(i - 1) /\ j - 1 \in 1..Len(queue') /\ (j - 1) + 1 = j
        BY <1>2, <2>6, <3>1, <3>3, SMTT(60)
      <4>2. queue'[j - 1] = queue[j]
        BY <1>2, <4>1, ZenonT(60)
      <4>3. Carries(queue'[j - 1], p, v)
        BY <3>1, <4>2, ZenonT(60)
      <4> QED BY <4>1, <4>3, ZenonT(60) DEF InQueue, Carries
    <3> QED BY <3>2, <3>3, ZenonT(60)
  <2>7. Ahead(p, v) => Ahead(p, v)'
    <3>1. InQueue(p, v, n) => InBatch(p, v, b + 1)' \/ InQueue(p, v, n - 1)'
      BY <1>2, <2>6, SMTT(60)
    <3> QED BY <1>2, <1>3, <1>n, <2>2, <2>4, <3>1, ZenonT(60) DEF Ahead
  <2>8. Needs(disk[MetaKey(p)], p, v)' => OnDisk(p, v)'
    BY <1>1, <2>1, <2>2, ZenonT(60) DEF CopiesOK, Needs
  <2>9. Needs(cache[MetaKey(p)], p, v)' => Ahead(p, v)'
    BY <1>1, <2>1, <2>7, ZenonT(60) DEF CopiesOK, Needs
  <2>10. ASSUME NEW i \in 1..Len(batch'), batch'[i].key = MetaKey(p), Needs(batch[i].value, p, v)'
         PROVE  OnDisk(p, v)' \/ InBatch(p, v, i - 1)'
    <3>1. CASE i \in 1..b
      <4>1. batch'[i] = batch[i] /\ Needs(batch[i].value, p, v)
        BY <1>1, <1>3, <2>10, <3>1, ZenonT(60) DEF Needs
      <4>2. OnDisk(p, v) \/ InBatch(p, v, i - 1)
        BY <1>n, <2>1, <2>10, <3>1, <4>1, ZenonT(60) DEF CopiesOK
      <4> QED BY <1>3, <2>2, <2>3, <2>10, <4>2, ZenonT(60)
    <3>2. CASE i = b + 1
      <4>1. queue[1].key = MetaKey(p) /\ Needs(queue[1].value, p, v)
        BY <1>1, <1>2, <1>3, <2>10, <3>2, SMTT(60) DEF Needs
      <4>2. 1 \in 1..Len(queue) /\ 1..(1 - 1) = {} /\ i - 1 = b /\ i \in 1..(b + 1)
        BY <1>2, <1>3, <1>n, <3>2, SMTT(60)
      <4>3. OnDisk(p, v) \/ InBatch(p, v, b)
        BY <1>n, <2>1, <4>1, <4>2, ZenonT(60) DEF CopiesOK, InQueue
      <4>4. InBatch(p, v, i - 1) => InBatch(p, v, i - 1)'
        BY <2>3, <4>2, ZenonT(60)
      <4> QED BY <2>2, <4>2, <4>3, <4>4, SMTT(60)
    <3> QED BY <1>3, <3>1, <3>2, SMTT(60)
  <2>11. ASSUME NEW i \in 1..Len(queue'), queue'[i].key = MetaKey(p), Needs(queue[i].value, p, v)'
         PROVE  OnDisk(p, v)' \/ InBatch(p, v, Len(batch))' \/ InQueue(p, v, i - 1)'
    <3>1. i + 1 \in 1..n /\ queue'[i] = queue[i + 1] /\ (i + 1) - 1 = i /\ i \in 0..n /\ i # 0
      BY <1>2, SMTT(60)
    <3>2. Needs(queue[i + 1].value, p, v) /\ queue[i + 1].key = MetaKey(p)
      BY <1>1, <2>11, <3>1, ZenonT(60) DEF Needs
    <3>3. OnDisk(p, v) \/ InBatch(p, v, b) \/ InQueue(p, v, i)
      BY <1>n, <2>1, <3>1, <3>2, ZenonT(60) DEF CopiesOK
    <3>4. OnDisk(p, v)' \/ InBatch(p, v, b + 1)' \/ InQueue(p, v, i - 1)'
      BY <2>2, <2>4, <2>6, <3>1, <3>3, ZenonT(60)
    <3> QED BY <1>3, <3>4, ZenonT(60)
  <2>12. CopiesOK(p, v)'
    BY <2>8, <2>9, <2>10, <2>11, ZenonT(60) DEF CopiesOK
  <2>13. ASSUME NEW u \in Workers PROVE LocalsOK(u, p, v)'
    BY <1>1, <2>7, LocalsKept, ZenonT(60)
  <2> QED BY <2>12, <2>13, ZenonT(60)
<1> QED BY <1>4, <1>5, <1>6, <1>7, SMTT(60) DEF PayloadsAhead

\* The background thread applies its batch, one of its last acts included.
LEMMA FlushStep ==
  ASSUME PayloadsAhead, TypeOK', ControlOK',
         disk' = Apply(disk, batch), batch' = <<>>, cache' \in {cache, Empty},
         UNCHANGED <<queue, sync_mode, pc, key, got, todo, wiped>>
  PROVE  PayloadsAhead'
<1>1. TypeOK /\ batch \in Seq(Write) /\ IsStore(disk)
  BY ZenonT(60) DEF PayloadsAhead, TypeOK
<1>2. \A k \in Keys : \/ Touches(batch, k) = {} /\ disk'[k] = disk[k]
                      \/ \E i \in 1..Len(batch) : batch[i].key = k /\ disk'[k] = batch[i].value
  BY <1>1, ApplyFacts, SMTT(60)
<1>3. ModeOK'
  BY ZenonT(60) DEF PayloadsAhead, ModeOK
<1>4. \A i \in 1..Len(queue') : Recorded(queue[i])'
  BY ZenonT(60) DEF PayloadsAhead, Recorded
<1>5. 1..Len(batch') = {}
  BY SMTT(60)
<1>6. ASSUME NEW p \in Paths, NEW v \in Versions
      PROVE  CopiesOK(p, v)' /\ \A u \in Workers : LocalsOK(u, p, v)'
  <2>1. CopiesOK(p, v)
    BY ZenonT(60) DEF PayloadsAhead
  <2>2. MetaKey(p) \in Keys /\ VersionKey(p, v) \in Keys
    BY KeyFacts, ZenonT(60)
  <2>3. \A x : Needs(x, p, v)' = Needs(x, p, v)
    BY ZenonT(60) DEF Needs
  <2>4. ASSUME OnDisk(p, v) \/ InBatch(p, v, Len(batch)), <<p, v>> \notin wiped
        PROVE  OnDisk(p, v)'
    <3>1. CASE Touches(batch, VersionKey(p, v)) = {} /\ disk'[VersionKey(p, v)] = disk[VersionKey(p, v)]
      <4>1. ~ InBatch(p, v, Len(batch))
        BY <3>1, ZenonT(60) DEF InBatch, Carries, Touches
      <4> QED BY <2>4, <3>1, <4>1, ZenonT(60) DEF OnDisk
    <3>2. CASE \E i \in 1..Len(batch) : /\ batch[i].key = VersionKey(p, v)
                                        /\ disk'[VersionKey(p, v)] = batch[i].value
      <4>1. PICK i \in 1..Len(batch) : /\ batch[i].key = VersionKey(p, v)
                                       /\ disk'[VersionKey(p, v)] = batch[i].value
        BY <3>2, ZenonT(60)
      <4>2. Recorded(batch[i])
        BY ZenonT(60) DEF PayloadsAhead
      <4> QED BY <2>4, <4>1, <4>2, ZenonT(60) DEF Recorded, OnDisk
    <3> QED BY <1>2, <2>2, <3>1, <3>2, ZenonT(60)
  <2>5. Ahead(p, v) /\ <<p, v>> \notin wiped' => Ahead(p, v)'
    <3>1. InQueue(p, v, Len(queue))' = InQueue(p, v, Len(queue))
      BY ZenonT(60) DEF InQueue
    <3> QED BY <2>4, <3>1, ZenonT(60) DEF Ahead
  <2>6. Needs(disk[MetaKey(p)], p, v)' => OnDisk(p, v)'
    <3>1. CASE disk'[MetaKey(p)] = disk[MetaKey(p)]
      BY <2>1, <2>4, <3>1, ZenonT(60) DEF CopiesOK, Needs
    <3>2. CASE \E i \in 1..Len(batch) : batch[i].key = MetaKey(p) /\ disk'[MetaKey(p)] = batch[i].value
      <4>1. PICK i \in 1..Len(batch) : batch[i].key = MetaKey(p) /\ disk'[MetaKey(p)] = batch[i].value
        BY <3>2, ZenonT(60)
      <4>2. Needs(disk[MetaKey(p)], p, v)' => Needs(batch[i].value, p, v)
        BY <4>1, ZenonT(60) DEF Needs
      <4>3. Needs(batch[i].value, p, v) => OnDisk(p, v) \/ InBatch(p, v, i - 1)
        BY <2>1, <4>1, ZenonT(60) DEF CopiesOK
      <4>4. InBatch(p, v, i - 1) => InBatch(p, v, Len(batch))
        BY <1>1, LenProperties, SMTT(60) DEF InBatch
      <4> QED BY <2>4, <4>2, <4>3, <4>4, ZenonT(60) DEF Needs
    <3> QED BY <1>2, <2>2, <3>1, <3>2, ZenonT(60)
  <2>7. Needs(cache[MetaKey(p)], p, v)' => Ahead(p, v)'
    <3>1. cache'[MetaKey(p)] = None \/ cache'[MetaKey(p)] = cache[MetaKey(p)]
      BY <2>2, ZenonT(60) DEF Empty
    <3> QED BY <2>1, <2>5, <3>1, ZenonT(60) DEF CopiesOK, Needs
  <2>8. ASSUME NEW i \in 1..Len(queue'), queue'[i].key = MetaKey(p), Needs(queue[i].value, p, v)'
        PROVE  OnDisk(p, v)' \/ InQueue(p, v, i - 1)'
    <3>1. OnDisk(p, v) \/ InBatch(p, v, Len(batch)) \/ InQueue(p, v, i - 1)
      BY <2>1, <2>8, ZenonT(60) DEF CopiesOK, Needs
    <3>2. InQueue(p, v, i - 1)' = InQueue(p, v, i - 1) /\ <<p, v>> \notin wiped
      BY <2>8, ZenonT(60) DEF InQueue, Needs
    <3> QED BY <2>4, <3>1, <3>2, ZenonT(60)
  <2>9. CopiesOK(p, v)'
    BY <1>5, <2>6, <2>7, <2>8, ZenonT(60) DEF CopiesOK
  <2>10. ASSUME NEW u \in Workers PROVE LocalsOK(u, p, v)'
    BY <2>5, LocalsKept, ZenonT(60)
  <2> QED BY <2>9, <2>10, ZenonT(60)
<1> QED BY <1>3, <1>4, <1>5, <1>6, ZenonT(60) DEF PayloadsAhead

-----------------------------------------------------------------------------
\* The engine's life

\* A step that moves no write and no local.
LEMMA Untouched ==
  ASSUME PayloadsAhead, TypeOK', ControlOK', ModeOK',
         UNCHANGED <<cache, disk, queue, batch, pc, key, got, todo, wiped>>
  PROVE  PayloadsAhead'
<1>1. /\ \A i \in 1..Len(batch') : Recorded(batch[i])'
      /\ \A i \in 1..Len(queue') : Recorded(queue[i])'
  BY ZenonT(60) DEF PayloadsAhead, Recorded
<1>2. ASSUME NEW p \in Paths, NEW v \in Versions
      PROVE  CopiesOK(p, v)' /\ \A u \in Workers : LocalsOK(u, p, v)'
  <2>1. CopiesOK(p, v)
    BY ZenonT(60) DEF PayloadsAhead
  <2>2. CopiesOK(p, v)'
    BY <2>1, ZenonT(60) DEF CopiesOK, Needs, Ahead, OnDisk, InBatch, InQueue
  <2>3. Ahead(p, v)' = Ahead(p, v)
    BY ZenonT(60) DEF Ahead, OnDisk, InBatch, InQueue
  <2>4. ASSUME NEW u \in Workers PROVE LocalsOK(u, p, v)'
    BY <2>3, LocalsKept, ZenonT(60)
  <2> QED BY <2>2, <2>4, ZenonT(60)
<1> QED BY <1>1, <1>2, ZenonT(60) DEF PayloadsAhead

\* Mode switches, shutdown and open change no copy.
LEMMA LifeStep ==
  ASSUME PayloadsAhead, TypeOK', ControlOK', OrderlyWrites, ChangeSyncMode \/ Drop \/ Open
  PROVE  PayloadsAhead'
<1>1. UNCHANGED <<cache, disk, queue, batch, pc, key, got, todo, wiped>>
  BY ZenonT(60) DEF ChangeSyncMode, Drop, Open, local
<1>2. ModeOK'
  <2>1. CASE ChangeSyncMode
    BY <1>1, <2>1, ZenonT(60) DEF ChangeSyncMode, OrderlyWrites, Quiescent, Idle, ModeOK
  <2>2. CASE Drop
    BY <1>1, <2>2, ZenonT(60) DEF Drop, PayloadsAhead, ModeOK
  <2>3. CASE Open
    BY <1>1, <2>3, ZenonT(60) DEF Open, PayloadsAhead, ModeOK, ControlOK
  <2> QED BY <2>1, <2>2, <2>3, ZenonT(60)
<1> QED BY <1>1, <1>2, Untouched, ZenonT(60)

\* A crash drops every copy but the ones on disk.
LEMMA CrashStep ==
  ASSUME PayloadsAhead, TypeOK', ControlOK', Crash
  PROVE  PayloadsAhead'
<1>1. /\ cache' = Empty /\ queue' = <<>> /\ batch' = <<>>
      /\ pc' = [w \in Workers |-> "idle"]
      /\ got' = [w \in Workers |-> None]
      /\ todo' = [w \in Workers |-> <<>>]
      /\ UNCHANGED <<disk, wiped>>
  BY ZenonT(60) DEF Crash
<1>2. 1..Len(queue') = {} /\ 1..Len(batch') = {}
  BY <1>1, SMTT(60)
<1>3. ModeOK'
  BY <1>1, ZenonT(60) DEF ModeOK
<1>4. \A u \in Workers, p \in Paths, v \in Versions : LocalsOK(u, p, v)'
  BY <1>1, NothingHeld, ZenonT(60)
<1>5. ASSUME NEW p \in Paths, NEW v \in Versions PROVE CopiesOK(p, v)'
  <2>1. CopiesOK(p, v)
    BY ZenonT(60) DEF PayloadsAhead
  <2>2. cache'[MetaKey(p)] = None
    BY <1>1, KeyFacts, ZenonT(60) DEF Empty
  <2> QED BY <1>1, <1>2, <2>1, <2>2, ZenonT(60) DEF CopiesOK, Needs, OnDisk
<1> QED BY <1>2, <1>3, <1>4, <1>5, ZenonT(60) DEF PayloadsAhead

\* Every step leaves the budget for troubles alone or takes from it.
LEMMA BatchesSucceedStep ==
  ASSUME TypeOK, ControlOK, BatchesSucceed, [Next]_vars
  PROVE  BatchesSucceed'
<1>1. UNCHANGED left \/ \E t \in Troubles : Trouble(t)
  <2>1. ASSUME NEW w \in Workers, Operation(w) PROVE UNCHANGED left \/ \E t \in Troubles : Trouble(t)
    <3>1. CASE GetFails(w) \/ ExecuteFails(w)
      BY <3>1, TroubleFacts, ZenonT(60) DEF GetFails, ExecuteFails
    <3>2. CASE Fill(w) \/ UpdateCache(w)
      BY <3>2, TroubleFacts, ZenonT(60) DEF Fill, UpdateCache, CacheInsert, CacheRemove
    <3>3. CASE Begin(w) \/ Lookup(w) \/ Get(w) \/ Decide(w) \/ LoadMode(w)
      BY <3>3, ZenonT(60) DEF Begin, Lookup, Get, Decide, LoadMode
    <3>4. CASE Enqueue(w) \/ EnqueueFull(w) \/ Execute(w) \/ IndexPath(w)
      BY <3>4, ZenonT(60) DEF Enqueue, EnqueueFull, Execute, IndexPath
    <3> QED BY <2>1, <3>1, <3>2, <3>3, <3>4, ZenonT(60) DEF Operation
  <2>2. ASSUME BackgroundThread PROVE UNCHANGED left \/ \E t \in Troubles : Trouble(t)
    BY <2>2, TroubleFacts, SMTT(60) DEF BackgroundThread, WorkerDequeue, WorkerFlush, WorkerFlushFails, WorkerSleep,
                              WorkerExits, WorkerDrain, WorkerFinalFlush, vars
  <2>3. ASSUME ChangeSyncMode \/ Drop \/ Crash \/ Open PROVE UNCHANGED left \/ \E t \in Troubles : Trouble(t)
    BY <2>3, TroubleFacts, ZenonT(60) DEF ChangeSyncMode, Drop, Crash, Open
  <2> QED BY <2>1, <2>2, <2>3, ZenonT(60) DEF Next, vars
<1> QED BY <1>1, LeftType, TroubleFacts, ZenonT(60) DEF BatchesSucceed

\* Every step keeps the payloads ahead.
LEMMA PayloadsStep ==
  ASSUME PayloadsAhead, BatchesSucceed, OrderlyWrites, [Next]_vars
  PROVE  PayloadsAhead'
<1>1. TypeOK' /\ ControlOK'
  BY TypeStep, ZenonT(60) DEF PayloadsAhead
<1>2. ASSUME UNCHANGED vars PROVE PayloadsAhead'
  BY <1>1, <1>2, Untouched, ZenonT(60) DEF vars, shared, local, PayloadsAhead, ModeOK
<1>3. ASSUME NEW w \in Workers, Operation(w) PROVE PayloadsAhead'
  <2>1. CASE GetFails(w) \/ EnqueueFull(w) \/ ExecuteFails(w)
    <3>1. /\ \E r : Reply(w, r)
          /\ UNCHANGED <<cache, disk, queue, batch, wiped, sync_mode>>
      BY <2>1, ZenonT(60) DEF GetFails, EnqueueFull, ExecuteFails, shared
    <3> QED BY <1>1, <3>1, ReturnStep, CacheKept, ZenonT(60)
  <2>2. CASE IndexPath(w)
    <3>1. Reply(w, Ok(None)) /\ UNCHANGED <<cache, disk, queue, batch, wiped, sync_mode>>
      BY <2>2, ZenonT(60) DEF IndexPath
    <3> QED BY <1>1, <3>1, ReturnStep, CacheKept, ZenonT(60)
  <2> QED BY <1>1, <1>3, <2>1, <2>2, BeginStep, ReadStep, FillStep, DecideStep, LoadModeStep,
             EnqueueStep, ExecuteStep, UpdateCacheStep, SMTT(60) DEF Operation
<1>4. ASSUME BackgroundThread PROVE PayloadsAhead'
  <2>1. CASE WorkerDequeue \/ WorkerDrain
    BY <1>1, <2>1, DequeueStep, ZenonT(60)
  <2>2. CASE WorkerFlush
    BY <1>1, <2>2, FlushStep, ZenonT(60) DEF WorkerFlush, local
  <2>3. ~ WorkerFlushFails
    BY SMTT(60) DEF WorkerFlushFails, Trouble, BatchesSucceed
  <2>4. CASE WorkerFinalFlush
    <3>1. disk' = Apply(disk, batch)
      BY <2>4, SMTT(60) DEF WorkerFinalFlush, Trouble, BatchesSucceed
    <3> QED BY <1>1, <2>4, <3>1, FlushStep, ZenonT(60) DEF WorkerFinalFlush, local
  <2>5. CASE WorkerSleep
    BY <1>2, <2>5, ZenonT(60) DEF WorkerSleep
  <2>6. CASE WorkerExits
    BY <1>1, <2>6, Untouched, ZenonT(60) DEF WorkerExits, local, PayloadsAhead, ModeOK
  <2> QED BY <1>4, <2>1, <2>2, <2>3, <2>4, <2>5, <2>6, ZenonT(60) DEF BackgroundThread
<1> QED BY <1>1, <1>2, <1>3, <1>4, LifeStep, CrashStep, ZenonT(60) DEF Next

\* A new engine has no copies.
LEMMA PayloadsInit == Init => PayloadsAhead
<1> SUFFICES ASSUME Init PROVE PayloadsAhead
  OBVIOUS
<1>1. TypeOK /\ ControlOK
  BY TypeInit, ZenonT(60)
<1>2. /\ cache = Empty /\ disk = Empty /\ queue = <<>> /\ batch = <<>> /\ sync_mode = "Batch"
      /\ \A w \in Workers : pc[w] = "idle" /\ got[w] = None /\ todo[w] = <<>>
  BY ZenonT(60) DEF Init
<1>3. 1..Len(queue) = {} /\ 1..Len(batch) = {} /\ ModeOK
  BY <1>2, SMTT(60) DEF ModeOK
<1>4. \A p \in Paths, v \in Versions : CopiesOK(p, v)
  <2>1. \A p \in Paths : cache[MetaKey(p)] = None /\ disk[MetaKey(p)] = None
    BY <1>2, KeyFacts, ZenonT(60) DEF Empty
  <2> QED BY <1>3, <2>1, ZenonT(60) DEF CopiesOK, Needs
<1>5. ASSUME NEW u \in Workers, NEW p \in Paths, NEW v \in Versions PROVE LocalsOK(u, p, v)
  <2>1. got[u] = None /\ pc[u] # "cache"
    BY <1>2, ZenonT(60)
  <2>2. 1..Len(todo[u]) = {}
    BY <1>2, SMTT(60)
  <2> QED BY <2>1, <2>2, ZenonT(60) DEF LocalsOK, Needs
<1> QED BY <1>1, <1>3, <1>4, <1>5, ZenonT(60) DEF PayloadsAhead

\* Wherever in the engine the metadata of a path is (cache, queue, batch,
\* disk, or in the hands of a worker), the payload of each version it lists is
\* ahead of it on the way to the disk, unless destroy_version deleted it.
THEOREM PayloadsStayAhead == OrderlyWrites /\ Spec => []PayloadsAhead
<1>1. OrderlyWrites /\ Init => PayloadsAhead /\ BatchesSucceed
  BY PayloadsInit, ZenonT(60) DEF OrderlyWrites, BatchesSucceed, Init
<1>2. OrderlyWrites /\ PayloadsAhead /\ BatchesSucceed /\ [Next]_vars => PayloadsAhead' /\ BatchesSucceed'
  BY PayloadsStep, BatchesSucceedStep, ZenonT(60) DEF PayloadsAhead
<1>3. CASE OrderlyWrites
  BY <1>1, <1>2, <1>3, PTL DEF Spec
<1> QED BY <1>3, ZenonT(60)

\* No crash, eviction, full queue, failed read or interleaving of operations
\* leaves metadata on disk that lists a version without its payload on disk
\* (put_version, lines 323 to 341, and the atomic batches of the background
\* thread), unless destroy_version deleted it.
THEOREM DiskIsComplete == OrderlyWrites /\ Spec => []DiskMetadataHasPayloads
<1>1. PayloadsAhead => DiskMetadataHasPayloads
  BY ZenonT(60) DEF PayloadsAhead, CopiesOK, Needs, OnDisk, DiskMetadataHasPayloads
<1> QED BY <1>1, PayloadsStayAhead, PTL
=============================================================================
