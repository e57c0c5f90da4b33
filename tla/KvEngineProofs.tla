--------------------------- MODULE KvEngineProofs ---------------------------
(***************************************************************************)
(* Type correctness of KvEngine, for any number of workers, paths,         *)
(* operations, crashes and restarts.                                       *)
(***************************************************************************)
EXTENDS KvEngineFacts

\* The tail of a nonempty sequence of writes.
LEMMA TailFacts ==
  ASSUME NEW S, NEW s \in Seq(S), s # <<>>
  PROVE  /\ Tail(s) \in Seq(S) /\ Len(s) \in Nat \ {0} /\ Len(Tail(s)) = Len(s) - 1
         /\ \A i \in 1..Len(Tail(s)) : Tail(s)[i] = s[i + 1]
         /\ Head(s) \in S /\ Head(s) = s[1]
         /\ Len(s) > 1 => Tail(s) # <<>>
<1>1. Tail(s) \in Seq(S) /\ Len(Tail(s)) = Len(s) - 1 /\ Head(s) \in S
  BY HeadTailProperties, ZenonT(60)
<1>2. \A i \in 1..Len(Tail(s)) : Tail(s)[i] = s[i + 1]
  BY HeadTailProperties, ZenonT(60)
<1>3. Len(s) \in Nat \ {0}
  BY EmptySeq, LenProperties, ZenonT(60)
<1>4. Head(s) = s[1]
  OBVIOUS
<1>5. ASSUME Tail(s) = <<>> PROVE Len(s) = 1
  <2> DEFINE t == Tail(s)
  <2>1. t = <<>> /\ Len(t) = Len(s) - 1
    BY <1>1, <1>5, ZenonT(60)
  <2> HIDE DEF t
  <2> QED BY <1>3, <2>1
<1> QED BY <1>1, <1>2, <1>3, <1>4, <1>5, SMTT(60)

\* A worker that is writing has a next write.
LEMMA HeadOfTodo ==
  ASSUME TypeOK, ControlOK, NEW w \in Workers, pc[w] \in Writing
  PROVE  /\ todo[w] \in Seq(Write) /\ todo[w] # <<>>
         /\ Head(todo[w]) \in Write /\ Head(todo[w]) = todo[w][1]
         /\ Len(todo[w]) \in Nat \ {0}
<1>1. todo[w] \in Seq(Write) /\ todo[w] # <<>>
  BY ZenonT(60) DEF TypeOK, ControlOK
<1> QED BY <1>1, EmptySeq, HeadTailProperties, SMTT(60)

\* The recorded deletions are pairs of a path and a version.
LEMMA WipeType ==
  ASSUME TypeOK, NEW x, Wipe(x)
  PROVE  wiped' \subseteq Paths \X Versions
BY ZenonT(60) DEF Wipe, TypeOK

\* Handing over a write, or failing to, keeps the types and the control state.
LEMMA WriteType ==
  ASSUME TypeOK, ControlOK, NEW w \in Workers,
         \/ LoadMode(w) \/ Enqueue(w) \/ EnqueueFull(w) \/ Execute(w) \/ ExecuteFails(w)
  PROVE  TypeOK' /\ ControlOK'
<1>1. pc[w] \in Writing /\ pc[w] # "idle" /\ req[w] \in Request
  BY ZenonT(60) DEF LoadMode, Enqueue, EnqueueFull, Execute, ExecuteFails, Writing, ControlOK
<1>2. Head(todo[w]) \in Write
  BY <1>1, HeadOfTodo, ZenonT(60)
<1>3. ASSUME LoadMode(w) PROVE TypeOK' /\ ControlOK'
  <2>1. pc' = [pc EXCEPT ![w] = "execute"] \/ pc' = [pc EXCEPT ![w] = "enqueue"]
    BY <1>3, ZenonT(60) DEF LoadMode, Goto
  <2>2. pc' \in [Workers -> {"idle", "index"} \cup Reading \cup Writing]
    BY <2>1, ZenonT(60) DEF TypeOK, Writing
  <2>3. TypeOK'
    BY <1>3, <2>2, ZenonT(60) DEF LoadMode, TypeOK, shared, IsStore
  <2>4. ControlOK'
    BY <1>1, <1>3, <2>1, SMTT(60) DEF LoadMode, ControlOK, TypeOK, Reading, Writing, shared
  <2> QED BY <2>3, <2>4, ZenonT(60)
<1>4. ASSUME Enqueue(w) \/ Execute(w) PROVE TypeOK' /\ ControlOK'
  <2>1. pc' = [pc EXCEPT ![w] = "cache"]
    BY <1>4, ZenonT(60) DEF Enqueue, Execute, Goto
  <2>2. pc' \in [Workers -> {"idle", "index"} \cup Reading \cup Writing]
    BY <2>1, ZenonT(60) DEF TypeOK, Writing
  <2>3. wiped' \subseteq Paths \X Versions
    BY <1>4, WipeType, ZenonT(60) DEF Enqueue, Execute
  <2>4. queue' \in Seq(Write)
    <3>1. queue \in Seq(Write)
      BY ZenonT(60) DEF TypeOK
    <3>2. Append(queue, Head(todo[w])) \in Seq(Write)
      BY <1>2, <3>1, AppendProperties, ZenonT(60)
    <3>3. queue' = queue \/ queue' = Append(queue, Head(todo[w]))
      BY <1>4, ZenonT(60) DEF Enqueue, Execute
    <3> QED BY <3>1, <3>2, <3>3, ZenonT(60)
  <2>5. IsStore(disk)'
    <3>1. CASE Enqueue(w)
      BY <3>1, ZenonT(60) DEF Enqueue, TypeOK, IsStore
    <3>2. CASE Execute(w)
      <4>1. <<Head(todo[w])>> \in Seq(Write)
        BY <1>2, SMTT(60)
      <4>2. IsStore(Apply(disk, <<Head(todo[w])>>))
        BY <4>1, ApplyFacts, ZenonT(60) DEF TypeOK
      <4> QED BY <3>2, <4>2, ZenonT(60) DEF Execute, IsStore
    <3> QED BY <1>4, <3>1, <3>2, ZenonT(60)
  <2>6. TypeOK'
    BY <1>4, <2>2, <2>3, <2>4, <2>5, ZenonT(60) DEF Enqueue, Execute, TypeOK, IsStore
  <2>7. ControlOK'
    BY <1>1, <1>4, <2>1, SMTT(60) DEF Enqueue, Execute, ControlOK, TypeOK, Reading, Writing
  <2> QED BY <2>6, <2>7
<1>5. ASSUME EnqueueFull(w) \/ ExecuteFails(w) PROVE TypeOK' /\ ControlOK'
  <2>1. left' \in [Troubles -> Nat]
    <3>1. CASE ExecuteFails(w)
      BY <3>1, LeftType, TroubleFacts, ZenonT(60) DEF ExecuteFails
    <3>2. CASE EnqueueFull(w)
      BY <3>2, ZenonT(60) DEF EnqueueFull, TypeOK
    <3> QED BY <1>5, <3>1, <3>2, ZenonT(60)
  <2>2. PICK r : Reply(w, r) /\ UNCHANGED <<shared, req, ops, wiped>>
    BY <1>5, ZenonT(60) DEF EnqueueFull, ExecuteFails
  <2> QED BY <2>1, <2>2, ReplyType, ZenonT(60) DEF TypeOK, shared, IsStore
<1> QED BY <1>3, <1>4, <1>5, ZenonT(60)

\* The cache update after a write keeps the types and the control state.
LEMMA UpdateCacheType ==
  ASSUME TypeOK, ControlOK, NEW w \in Workers, UpdateCache(w)
  PROVE  TypeOK' /\ ControlOK'
<1>1. pc[w] \in Writing /\ pc[w] = "cache" /\ req[w] \in Request
  BY ZenonT(60) DEF UpdateCache, Writing, ControlOK
<1>2. /\ Head(todo[w]) \in Write
      /\ todo[w] \in Seq(Write) /\ todo[w] # <<>>
  BY <1>1, HeadOfTodo, ZenonT(60)
<1>3. IsStore(cache)' /\ left' \in [Troubles -> Nat]
  <2>1. ASSUME Head(todo[w]).value = None PROVE IsStore(cache)' /\ UNCHANGED left
    BY <1>2, <2>1, WriteFacts, CacheRemoveType, ZenonT(60) DEF UpdateCache, TypeOK
  <2>2. ASSUME Head(todo[w]).value # None PROVE IsStore(cache)' /\ (UNCHANGED left \/ Trouble("evict"))
    BY <1>2, <2>2, WriteFacts, CacheInsertType, ZenonT(60) DEF UpdateCache, TypeOK
  <2> QED BY <2>1, <2>2, LeftType, TroubleFacts, ZenonT(60)
<1>4. UNCHANGED <<disk, path_index, queue, batch, sync_mode, phase, req, ops, wiped>>
  BY ZenonT(60) DEF UpdateCache
<1>5. CASE /\ Len(todo[w]) > 1
           /\ todo' = [todo EXCEPT ![w] = Tail(@)]
           /\ Goto(w, "mode")
           /\ UNCHANGED <<key, got, result>>
  <2>1. Tail(todo[w]) \in Seq(Write) /\ Tail(todo[w]) # <<>>
    BY <1>2, <1>5, TailFacts, ZenonT(60)
  <2>2. pc' = [pc EXCEPT ![w] = "mode"] /\ todo' = [todo EXCEPT ![w] = Tail(todo[w])]
    BY <1>5, ZenonT(60) DEF Goto
  <2>3. pc' \in [Workers -> {"idle", "index"} \cup Reading \cup Writing]
    BY <2>2, ZenonT(60) DEF TypeOK, Writing
  <2>4. todo' \in [Workers -> Seq(Write)]
    BY <2>1, <2>2, ZenonT(60) DEF TypeOK
  <2>5. TypeOK'
    BY <1>3, <1>4, <1>5, <2>3, <2>4, SMTT(60) DEF TypeOK, IsStore
  <2>6. ControlOK'
    BY <1>1, <1>4, <1>5, <2>1, <2>2, SMTT(60) DEF ControlOK, TypeOK, Reading, Writing
  <2> QED BY <2>5, <2>6, ZenonT(60)
<1>6. CASE Goto(w, "index") /\ UNCHANGED <<key, got, todo, result>>
  <2>1. pc' \in [Workers -> {"idle", "index"} \cup Reading \cup Writing]
    BY <1>6, ZenonT(60) DEF TypeOK, Goto
  <2>2. TypeOK'
    BY <1>3, <1>4, <1>6, <2>1, ZenonT(60) DEF TypeOK, IsStore
  <2>3. ControlOK'
    BY <1>1, <1>4, <1>6, ZenonT(60) DEF Goto, ControlOK, TypeOK, Reading, Writing
  <2> QED BY <2>2, <2>3
<1>7. CASE Reply(w, Ok(None))
  BY <1>3, <1>4, <1>7, ReplyType, ZenonT(60) DEF TypeOK, IsStore
<1> QED BY <1>5, <1>6, <1>7, ZenonT(60) DEF UpdateCache

\* The insertion into the path index keeps the types and the control state.
LEMMA IndexPathType ==
  ASSUME TypeOK, ControlOK, NEW w \in Workers, IndexPath(w)
  PROVE  TypeOK' /\ ControlOK'
<1>1. req[w].path \in Paths
  BY ZenonT(60) DEF IndexPath, ControlOK, Request
<1>2. path_index' \subseteq Paths
  BY <1>1, ZenonT(60) DEF IndexPath, TypeOK
<1>3. /\ Reply(w, Ok(None))
      /\ UNCHANGED <<cache, disk, queue, batch, sync_mode, phase, req, ops, left, wiped>>
  BY ZenonT(60) DEF IndexPath
<1> QED BY <1>2, <1>3, ReplyType, ZenonT(60) DEF TypeOK, IsStore

\* Every step of an operation keeps the types and the control state.
LEMMA OperationType ==
  ASSUME TypeOK, ControlOK, NEW w \in Workers, Operation(w)
  PROVE  TypeOK' /\ ControlOK'
BY BeginType, ReadType, DecideType, WriteType, UpdateCacheType, IndexPathType, ZenonT(60) DEF Operation

\* Every step of the background thread keeps the types and the control state.
LEMMA BackgroundType ==
  ASSUME TypeOK, ControlOK, BackgroundThread
  PROVE  TypeOK' /\ ControlOK'
<1>1. batch \in Seq(Write) /\ queue \in Seq(Write) /\ IsStore(disk)
  BY ZenonT(60) DEF TypeOK
<1>2. CASE WorkerDequeue \/ WorkerDrain
  <2>1. queue # <<>> /\ batch' = Append(batch, Head(queue)) /\ queue' = Tail(queue)
    BY <1>2, ZenonT(60) DEF WorkerDequeue, WorkerDrain
  <2>2. Head(queue) \in Write /\ Tail(queue) \in Seq(Write)
    BY <1>1, <2>1, TailFacts, ZenonT(60)
  <2>3. Append(batch, Head(queue)) \in Seq(Write)
    BY <1>1, <2>2, AppendProperties, ZenonT(60)
  <2>4. queue' \in Seq(Write) /\ batch' \in Seq(Write)
    BY <2>1, <2>2, <2>3, ZenonT(60)
  <2>5. UNCHANGED <<cache, disk, path_index, sync_mode, phase, local, left, wiped>>
    BY <1>2, ZenonT(60) DEF WorkerDequeue, WorkerDrain
  <2> QED BY <2>4, <2>5, ZenonT(60) DEF TypeOK, ControlOK, local, IsStore
<1>3. IsStore(Apply(disk, batch)) /\ <<>> \in Seq(Write)
  BY <1>1, ApplyFacts, EmptySeq, ZenonT(60)
<1>4. CASE WorkerFlush
  <2>1. disk' = Apply(disk, batch) /\ batch' = <<>>
    BY <1>4, ZenonT(60) DEF WorkerFlush
  <2>2. IsStore(disk)' /\ batch' \in Seq(Write)
    BY <1>3, <2>1, ZenonT(60) DEF IsStore
  <2>3. UNCHANGED <<cache, path_index, queue, sync_mode, phase, local, left, wiped>>
    BY <1>4, ZenonT(60) DEF WorkerFlush
  <2> QED BY <2>2, <2>3, ZenonT(60) DEF TypeOK, ControlOK, local, IsStore
<1>5. CASE WorkerFlushFails
  <2>1. left' \in [Troubles -> Nat]
    BY <1>5, LeftType, TroubleFacts, ZenonT(60) DEF WorkerFlushFails
  <2>2. batch' \in Seq(Write)
    BY <1>3, <1>5, ZenonT(60) DEF WorkerFlushFails
  <2>3. UNCHANGED <<cache, disk, path_index, queue, sync_mode, phase, local, wiped>>
    BY <1>5, ZenonT(60) DEF WorkerFlushFails
  <2> QED BY <2>1, <2>2, <2>3, ZenonT(60) DEF TypeOK, ControlOK, local, IsStore
<1>6. CASE WorkerSleep
  BY <1>6, ZenonT(60) DEF WorkerSleep, TypeOK, ControlOK, vars, shared, local, IsStore
<1>7. CASE WorkerExits
  BY <1>7, ZenonT(60) DEF WorkerExits, TypeOK, ControlOK, local, IsStore
<1>8. CASE WorkerFinalFlush
  <2>1. left' \in [Troubles -> Nat]
    <3>1. CASE Trouble("batch")
      BY <3>1, LeftType, TroubleFacts, ZenonT(60)
    <3>2. CASE UNCHANGED left
      BY <3>2, ZenonT(60) DEF TypeOK
    <3> QED BY <1>8, <3>1, <3>2, ZenonT(60) DEF WorkerFinalFlush
  <2>2. disk' = Apply(disk, batch) \/ disk' = disk
    BY <1>8, ZenonT(60) DEF WorkerFinalFlush
  <2>3. IsStore(disk)'
    BY <1>1, <1>3, <2>2, ZenonT(60) DEF IsStore
  <2>4. cache' = Empty /\ batch' = <<>> /\ phase' = "closed"
    BY <1>8, ZenonT(60) DEF WorkerFinalFlush
  <2>5. IsStore(cache)' /\ batch' \in Seq(Write)
    BY <1>3, <2>4, EmptyIsStore, ZenonT(60) DEF IsStore
  <2>6. UNCHANGED <<path_index, queue, sync_mode, local, wiped>>
    BY <1>8, ZenonT(60) DEF WorkerFinalFlush
  <2>7. TypeOK'
    BY <2>1, <2>3, <2>4, <2>5, <2>6, SMTT(60) DEF TypeOK, local
  <2>8. ControlOK'
    BY <1>8, <2>4, <2>6, ZenonT(60) DEF ControlOK, local, WorkerFinalFlush
  <2> QED BY <2>7, <2>8, ZenonT(60)
<1> QED BY <1>2, <1>4, <1>5, <1>6, <1>7, <1>8, ZenonT(60) DEF BackgroundThread

\* Mode switches, shutdown, crash and open keep the types and the control state.
LEMMA LifeType ==
  ASSUME TypeOK, ControlOK, ChangeSyncMode \/ Drop \/ Crash \/ Open
  PROVE  TypeOK' /\ ControlOK'
<1>1. CASE ChangeSyncMode
  <2>1. left' \in [Troubles -> Nat]
    BY <1>1, LeftType, TroubleFacts, ZenonT(60) DEF ChangeSyncMode
  <2>2. sync_mode' \in {"Batch", "Immediate"}
    BY <1>1, ZenonT(60) DEF ChangeSyncMode
  <2>3. UNCHANGED <<cache, disk, path_index, queue, batch, phase, local, wiped>>
    BY <1>1, ZenonT(60) DEF ChangeSyncMode
  <2> QED BY <2>1, <2>2, <2>3, SMTT(60) DEF TypeOK, ControlOK, local, IsStore
<1>2. CASE Drop
  <2>1. left' \in [Troubles -> Nat]
    BY <1>2, LeftType, TroubleFacts, ZenonT(60) DEF Drop
  <2>2. phase' = "dropping" /\ UNCHANGED <<cache, disk, path_index, queue, batch, sync_mode, local, wiped>>
    BY <1>2, ZenonT(60) DEF Drop
  <2>3. \A w \in Workers : pc[w] = "idle"
    BY <1>2, ZenonT(60) DEF Drop, Idle
  <2> QED BY <2>1, <2>2, <2>3, ZenonT(60) DEF TypeOK, ControlOK, local, IsStore
<1>3. CASE Crash
  <2>1. left' \in [Troubles -> Nat]
    BY <1>3, LeftType, TroubleFacts, ZenonT(60) DEF Crash
  <2>2. /\ phase' = "crashed" /\ cache' = Empty /\ queue' = <<>> /\ batch' = <<>>
        /\ pc' = [w \in Workers |-> "idle"]
        /\ key' = [w \in Workers |-> None]
        /\ got' = [w \in Workers |-> None]
        /\ todo' = [w \in Workers |-> <<>>]
        /\ UNCHANGED <<disk, path_index, sync_mode, req, result, ops, wiped>>
    BY <1>3, ZenonT(60) DEF Crash
  <2>3. IsStore(cache)' /\ IsStore(disk)' /\ queue' \in Seq(Write) /\ batch' \in Seq(Write)
    BY <2>2, EmptyIsStore, EmptySeq, ZenonT(60) DEF IsStore, TypeOK
  <2>4. todo' \in [Workers -> Seq(Write)]
    BY <2>2, EmptySeq, ZenonT(60)
  <2>5. TypeOK'
    BY <2>1, <2>2, <2>3, <2>4, ZenonT(60) DEF TypeOK
  <2>6. ControlOK'
    BY <2>2, ZenonT(60) DEF ControlOK, Reading, Writing
  <2> QED BY <2>5, <2>6, ZenonT(60)
<1>4. CASE Open
  <2>1. path_index' \subseteq Paths
    BY <1>4, ZenonT(60) DEF Open
  <2>2. /\ phase' = "open" /\ sync_mode' = "Batch"
        /\ UNCHANGED <<cache, disk, queue, batch, local, left, wiped>>
    BY <1>4, ZenonT(60) DEF Open
  <2> QED BY <2>1, <2>2, ZenonT(60) DEF TypeOK, ControlOK, local, IsStore
<1> QED BY <1>1, <1>2, <1>3, <1>4, ZenonT(60)

\* Every step keeps the types and the control state.
LEMMA TypeStep ==
  ASSUME TypeOK, ControlOK, [Next]_vars
  PROVE  TypeOK' /\ ControlOK'
<1>1. CASE UNCHANGED vars
  BY <1>1, ZenonT(60) DEF vars, shared, local, TypeOK, ControlOK, IsStore
<1>2. CASE Next
  BY <1>2, OperationType, BackgroundType, LifeType, ZenonT(60) DEF Next
<1> QED BY <1>1, <1>2, ZenonT(60)

\* The engine's state is well formed for any number of workers, paths and
\* versions, any queue, batch and cache behaviour, any failures and restarts:
\* metadata keys hold metadata, version keys hold payloads, in the cache, on
\* disk, in the queue, in the batch and among the writes of an operation.
THEOREM TypeCorrect == Spec => []TypeOK
<1>1. Init => TypeOK /\ ControlOK
  BY TypeInit, ZenonT(60)
<1>2. TypeOK /\ ControlOK /\ [Next]_vars => TypeOK' /\ ControlOK'
  BY TypeStep, ZenonT(60)
<1> QED BY <1>1, <1>2, PTL DEF Spec
=============================================================================
