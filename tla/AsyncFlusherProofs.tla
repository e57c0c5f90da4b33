------------------------- MODULE AsyncFlusherProofs -------------------------
(***************************************************************************)
(* Proofs about AsyncFlusher and RocksDbBackend, for any number of threads *)
(* and operations, any size of batch and channel, and any number of        *)
(* failing writes, mode switches, power failures and restarts.             *)
(***************************************************************************)
EXTENDS AsyncFlusherSteps

\* The flusher has applied its batch.
LEMMA BatchApplied ==
  ASSUME FlusherAssumption, StorageInv, Applied
  PROVE  StorageInv'
<1>1. /\ UNCHANGED <<sync, next, running, owner, answer, channel>>
      /\ batch' = <<>> /\ overdue' = FALSE
      /\ call' = [call EXCEPT ![Flusher] = Idle]
      /\ phase \in {"apply", "final"} /\ phase' = IF phase = "apply" THEN "loop" ELSE "exited"
  BY DEF Applied, Write, WriteFails
<1>2. Flusher \in Threads /\ call[Flusher].ops = batch
  BY <1>1 DEF FlusherAssumption, StorageInv, PhasesOK
<1>3. /\ call' \in [Threads -> [pc : {"idle", "load", "write"}, ops : Seq(Op), opt : BOOLEAN, strict : BOOLEAN]]
      /\ call'[Flusher] = Idle
      /\ CallsOK'
      /\ InCalls \subseteq InCalls' \cup Numbers(batch)
  BY <1>1, <1>2, CallEnds, ZenonT(60)
<1>4. PhasesOK'
  BY <1>1, <1>3 DEF StorageInv, PhasesOK, Idle
<1>5. Buffered' = channel /\ batch \in Seq(Op) /\ channel \in Seq(Op)
  BY <1>1 DEF Buffered, StorageInv, TypeOK
<1>6. \A i \in DOMAIN channel : /\ Len(batch) + i \in DOMAIN Buffered
                                /\ Buffered[Len(batch) + i] = channel[i]
  BY BuffersSplit
<1>7. \A i, j \in DOMAIN channel : i < j => channel[i].n < channel[j].n
  <2>1. \A i, j \in DOMAIN channel : i < j => Len(batch) + i < Len(batch) + j
    BY <1>5
  <2> QED BY <1>6, <2>1 DEF StorageInv, InOrder
<1>8. \A i \in DOMAIN channel : channel[i].by = Flusher /\ channel[i].n < next
  BY <1>6 DEF StorageInv, Numbered
<1>9. batch' \in Seq(Op) /\ phase' \in {"loop", "check", "apply", "drain", "final", "exited"} /\ overdue' \in BOOLEAN
  <2>1. batch' \in Seq(Op)
    BY <1>1
  <2>2. phase' \in {"loop", "check", "apply", "drain", "final", "exited"}
    BY <1>1
  <2>3. overdue' \in BOOLEAN
    BY <1>1, ZenonT(60)
  <2> QED BY <2>1, <2>2, <2>3
<1>10. CASE WriteFails(Flusher) /\ lost' = lost \cup Numbers(batch)
  <2>1. UNCHANGED <<wal, ends, durable, owed>>
    BY <1>10 DEF WriteFails
  <2>2. lost' \subseteq 1..(next' - 1)
    BY <1>1, <1>2, <1>10, CallNumbers, ZenonT(60) DEF StorageInv, TypeOK
  <2>3. TypeOK'
    BY <1>1, <1>3, <1>9, <2>1, <2>2 DEF StorageInv, TypeOK
  <2>4. Numbered'
    BY <1>1, <1>5, <1>8, <2>1, SMTT(60) DEF StorageInv, Numbered
  <2>5. InOrder'
    <3>1. \A i \in DOMAIN wal, j \in DOMAIN channel : wal[i].by = Flusher => wal[i].n < channel[j].n
      BY <1>6, SMTT(60) DEF StorageInv, InOrder
    <3> QED BY <1>5, <1>7, <2>1, <3>1, SMTT(60) DEF StorageInv, InOrder
  <2>6. Known \subseteq Known'
    BY <1>1, <1>3, <1>10, <2>1, SMTT(60) DEF Known
  <2> QED BY <1>1, <1>3, <1>4, <2>1, <2>3, <2>4, <2>5, <2>6, PromiseKept, NoneLostKept DEF StorageInv
<1>11. CASE Write(Flusher) /\ lost' = lost
  <2>1. /\ wal' \in Seq(Op) /\ owed' \in Seq(Op)
        /\ ends' \subseteq 0..Len(wal') /\ Len(wal') \in ends' /\ durable' \in ends'
        /\ Promised'
        /\ Numbers(wal') = Numbers(wal) \cup Numbers(batch)
        /\ \A i \in 1..Len(wal) : wal'[i] = wal[i]
        /\ \A i \in (Len(wal) + 1)..Len(wal') : i - Len(wal) \in DOMAIN batch /\ wal'[i] = batch[i - Len(wal)]
    BY <1>2, <1>11, LogGrows, SMTT(60)
  <2>2. TypeOK'
    BY <1>1, <1>3, <1>11, <1>9, <2>1, SMTT(60) DEF StorageInv, TypeOK
  <2>3. DOMAIN wal' = 1..Len(wal') /\ DOMAIN wal = 1..Len(wal) /\ Len(wal) \in Nat /\ Len(wal') \in Nat
    BY <2>1 DEF StorageInv, TypeOK
  <2>4. \A i \in DOMAIN wal' : \/ i \in DOMAIN wal /\ wal'[i] = wal[i]
                               \/ i > Len(wal) /\ i - Len(wal) \in DOMAIN batch /\ wal'[i] = batch[i - Len(wal)]
    BY <2>1, <2>3
  <2>5. \A i \in DOMAIN batch : i \in DOMAIN Buffered /\ Buffered[i] = batch[i]
    BY BuffersSplit, SMTT(60)
  <2>6. Numbered'
    BY <1>1, <1>5, <1>8, <2>4, BatchNumbered, SMTT(60) DEF StorageInv, Numbered
  <2>7. ASSUME NEW i \in DOMAIN wal', NEW j \in DOMAIN wal', i < j, wal'[i].by = Flusher, wal'[j].by = Flusher
        PROVE  wal'[i].n < wal'[j].n
    <3>1. CASE i \in DOMAIN wal /\ wal'[i] = wal[i] /\ j \in DOMAIN wal /\ wal'[j] = wal[j]
      BY <2>7, <3>1, SMTT(60) DEF StorageInv, InOrder
    <3>2. CASE i \in DOMAIN wal /\ wal'[i] = wal[i] /\ j - Len(wal) \in DOMAIN batch /\ wal'[j] = batch[j - Len(wal)]
      BY <2>5, <2>7, <3>2, SMTT(60) DEF StorageInv, InOrder
    <3>3. CASE /\ i - Len(wal) \in DOMAIN batch /\ wal'[i] = batch[i - Len(wal)]
               /\ j - Len(wal) \in DOMAIN batch /\ wal'[j] = batch[j - Len(wal)]
      <4>1. i - Len(wal) < j - Len(wal)
        BY <2>3, <2>7
      <4> QED BY <2>5, <3>3, <4>1 DEF StorageInv, InOrder
    <3>4. i > Len(wal) => j > Len(wal) /\ j \notin DOMAIN wal
      BY <2>3, <2>7, SMTT(60)
    <3> QED BY <2>4, <3>1, <3>2, <3>3, <3>4, SMTT(60)
  <2>8. ASSUME NEW i \in DOMAIN wal', NEW j \in DOMAIN channel, wal'[i].by = Flusher
        PROVE  wal'[i].n < channel[j].n
    <3>1. CASE i \in DOMAIN wal /\ wal'[i] = wal[i]
      BY <1>6, <2>8, <3>1, SMTT(60) DEF StorageInv, InOrder
    <3>2. CASE i - Len(wal) \in DOMAIN batch /\ wal'[i] = batch[i - Len(wal)]
      <4>1. i - Len(wal) < Len(batch) + j
        BY <3>2, BuffersSplit, SMTT(60)
      <4> QED BY <1>6, <2>5, <3>2, <4>1, SMTT(60) DEF StorageInv, InOrder
    <3> QED BY <2>4, <3>1, <3>2, SMTT(60)
  <2>9. InOrder'
    BY <1>5, <1>7, <2>7, <2>8, SMTT(60) DEF InOrder
  <2>10. Known \subseteq Known'
    BY <1>1, <1>3, <1>11, <2>1 DEF Known
  <2> QED BY <1>1, <1>3, <1>4, <2>1, <2>2, <2>6, <2>9, <2>10, NoneLostKept, SMTT(60) DEF StorageInv
<1> QED BY <1>10, <1>11 DEF Applied

\* A flush, or a switch of the mode.
LEMMA ModeSteps ==
  ASSUME FlusherAssumption, StorageInv, Flush \/ \E b \in BOOLEAN : SetSync(b)
  PROVE  StorageInv'
<1>1. UNCHANGED <<wal, ends, next, lost, running, phase, overdue, owner, answer, channel, batch>>
  BY SMTT(60) DEF Flush, SetSync, flush, set_sync, flusher
<1>2. Buffered' = Buffered /\ next' \in Nat /\ next' >= next
  BY <1>1 DEF Buffered, StorageInv, TypeOK
<1>3. Numbered' /\ InOrder'
  BY <1>1, <1>2, LogAndBuffersKept, SMTT(60)
<1>4. CASE Flush
  <2>1. UNCHANGED <<sync, call>> /\ durable' = Len(wal) /\ owed' = wal
    BY <1>4, SMTT(60) DEF Flush, flush
  <2>2. TypeOK'
    BY <1>1, <2>1, SMTT(60) DEF StorageInv, TypeOK
  <2>3. Promised'
    <3>1. wal \in Seq(Op) /\ Len(wal) \in Nat
      BY SMTT(60) DEF StorageInv, TypeOK
    <3> QED BY <1>1, <2>1, <3>1 DEF Promised
  <2>4. PhasesOK'
    BY <1>1, <2>1, SMTT(60) DEF StorageInv, PhasesOK
  <2>5. Known \subseteq Known'
    BY <1>1, <2>1 DEF Known, InCalls
  <2> QED BY <1>1, <1>2, <1>3, <2>1, <2>2, <2>3, <2>4, <2>5, CallsKept, NoneLostKept, SMTT(60) DEF StorageInv
<1>5. CASE \E b \in BOOLEAN : SetSync(b)
  <2>1. PICK b \in BOOLEAN : SetSync(b)
    BY <1>5
  <2>2. /\ sync' = b /\ UNCHANGED <<durable, owed>>
        /\ call' = [t \in Threads |-> [call[t] EXCEPT !.strict = @ /\ b]]
    BY <2>1 DEF SetSync, set_sync
  <2>3. ASSUME NEW t \in Threads
        PROVE  /\ call'[t].pc = call[t].pc /\ call'[t].ops = call[t].ops /\ call'[t].opt = call[t].opt
               /\ call'[t].strict = (call[t].strict /\ b)
               /\ call'[t] \in [pc : {"idle", "load", "write"}, ops : Seq(Op), opt : BOOLEAN, strict : BOOLEAN]
    <3>1. call[t] \in [pc : {"idle", "load", "write"}, ops : Seq(Op), opt : BOOLEAN, strict : BOOLEAN]
      BY DEF StorageInv, TypeOK
    <3>2. call'[t] = [call[t] EXCEPT !.strict = @ /\ b]
      BY <2>2
    <3> QED BY <3>1, <3>2, SMTT(60)
  <2>4. TypeOK'
    <3>1. call' \in [Threads -> [pc : {"idle", "load", "write"}, ops : Seq(Op), opt : BOOLEAN, strict : BOOLEAN]]
      BY <2>2, <2>3
    <3> QED BY <1>1, <2>2, <3>1, SMTT(60) DEF StorageInv, TypeOK
  <2>5. ASSUME NEW t \in Threads, call'[t].pc = "idle" PROVE call'[t] = Idle
    <3>1. call[t] = Idle
      BY <2>3, <2>5, SMTT(60) DEF StorageInv, CallsOK
    <3>2. call'[t].strict = FALSE
      BY <2>3, <3>1, SMTT(60) DEF Idle
    <3>3. call[t] \in [pc : {"idle", "load", "write"}, ops : Seq(Op), opt : BOOLEAN, strict : BOOLEAN]
      BY DEF StorageInv, TypeOK
    <3>4. call[t].strict = FALSE
      BY <3>1, SMTT(60) DEF Idle
    <3>5. call'[t] = call[t]
      BY <2>3, <3>2, <3>3, <3>4, SMTT(60)
    <3> QED BY <3>1, <3>5, SMTT(60)
  <2>6. CallsOK'
    BY <1>1, <2>2, <2>3, <2>5, SMTT(60) DEF StorageInv, CallsOK
  <2>7. PhasesOK'
    BY <1>1, <2>3, SMTT(60) DEF StorageInv, PhasesOK, FlusherAssumption
  <2>8. Known \subseteq Known'
    <3>1. InCalls \subseteq InCalls'
      BY <2>3, SMTT(60) DEF InCalls
    <3> QED BY <1>1, <3>1, SMTT(60) DEF Known
  <2> QED BY <1>1, <1>3, <2>2, <2>4, <2>6, <2>7, <2>8, PromiseKept, NoneLostKept DEF StorageInv
<1> QED BY <1>4, <1>5

\* An operation is handed over directly.
LEMMA DirectStarts ==
  ASSUME FlusherAssumption, StorageInv, NEW t \in Threads, Direct(t)
  PROVE  StorageInv'
<1> DEFINE x == [by |-> t, n |-> next]
           c == [pc |-> "load", ops |-> <<x>>, opt |-> FALSE, strict |-> sync]
<1>1. UNCHANGED <<wal, ends, durable, sync, owed, lost, running, phase, overdue, owner, answer, channel, batch>>
  BY SMTT(60) DEF Direct, Start, flusher
<1>2. call' = [call EXCEPT ![t] = c] /\ call[t] = Idle /\ t # Flusher
  BY SMTT(60) DEF Direct, Start, StorageInv, CallsOK
<1>3. next \in Nat \ {0} /\ next' = next + 1
  BY SMTT(60) DEF Direct, StorageInv, TypeOK
<1>4. x \in Op /\ x.n = next /\ x.by = t
  BY <1>3, SMTT(60) DEF Op
<1> HIDE DEF x
<1>5. /\ c \in [pc : {"idle", "load", "write"}, ops : Seq(Op), opt : BOOLEAN, strict : BOOLEAN]
      /\ c.pc = "load" /\ c.ops = <<x>> /\ c.strict = sync
  BY <1>4, SMTT(60) DEF StorageInv, TypeOK
<1> HIDE DEF c
<1>6. call'[t] = c /\ \A u \in Threads \ {t} : call'[u] = call[u]
  BY <1>2 DEF StorageInv, TypeOK
<1>7. Buffered' = Buffered /\ next' \in Nat /\ next' >= next
  BY <1>1, <1>3, SMTT(60) DEF Buffered
<1>8. TypeOK'
  <2>1. call' \in [Threads -> [pc : {"idle", "load", "write"}, ops : Seq(Op), opt : BOOLEAN, strict : BOOLEAN]]
    BY <1>2, <1>5 DEF StorageInv, TypeOK
  <2>2. lost' \subseteq 1..(next' - 1) /\ next' \in Nat \ {0}
    BY <1>1, <1>3 DEF StorageInv, TypeOK
  <2> QED BY <1>1, <2>1, <2>2, ZenonT(60) DEF StorageInv, TypeOK
<1>9. CallsOK'
  <2>1. ASSUME NEW u \in Threads \ {t}, NEW i \in DOMAIN call[u].ops PROVE call[u].ops[i].n < next'
    <3>1. call[u].ops[i].n \in Nat /\ call[u].ops[i].n < next
      BY CallNumbers, Fields DEF StorageInv, CallsOK
    <3> QED BY <1>3, <3>1
  <2>2. \A i \in DOMAIN <<x>> : <<x>>[i] = x
    OBVIOUS
  <2>3. next < next'
    BY <1>3, SMTT(60)
  <2>4. ASSUME NEW u \in Threads \ {t}
        PROVE  /\ call'[u].strict => sync' /\ (call'[u].pc = "write" => call'[u].opt)
               /\ call'[u].pc = "idle" => call'[u] = Idle
               /\ \A i \in DOMAIN call'[u].ops : call'[u].ops[i].by = u /\ call'[u].ops[i].n < next'
    BY <1>1, <1>6, <2>1, SMTT(60) DEF StorageInv, CallsOK
  <2>5. /\ call'[t].strict => sync' /\ (call'[t].pc = "write" => call'[t].opt)
        /\ call'[t].pc = "idle" => call'[t] = Idle
        /\ \A i \in DOMAIN call'[t].ops : call'[t].ops[i].by = t /\ call'[t].ops[i].n < next'
    BY <1>1, <1>4, <1>5, <1>6, <2>2, <2>3, SMTT(60)
  <2> QED BY <2>4, <2>5 DEF CallsOK
<1>10. PhasesOK'
  BY <1>1, <1>2, <1>6, SMTT(60) DEF StorageInv, PhasesOK, FlusherAssumption
<1>11. NoneLost'
  <2>1. Numbers(c.ops) = {next}
    BY <1>4, <1>5, NumbersOfOne, SMTT(60)
  <2>2. Numbers(call[t].ops) = {}
    BY <1>2, NumbersOfNone, SMTT(60) DEF Idle
  <2>3. InCalls' = InCalls \cup {next}
    BY <1>2, <2>1, <2>2, CallChanges, ZenonT(60)
  <2>4. 1..(next - 1) \subseteq Known
    BY DEF StorageInv, NoneLost, Known, InCalls
  <2>5. Known' = Known \cup {next}
    BY <1>1, <2>3 DEF Known
  <2>6. 1..(next' - 1) \subseteq Known'
    BY <1>3, <2>4, <2>5
  <2> QED BY <2>6 DEF NoneLost, Known, InCalls
<1> QED BY <1>1, <1>7, <1>8, <1>9, <1>10, <1>11, PromiseKept, LogAndBuffersKept, SMTT(60) DEF StorageInv

\* An operation is enqueued, or refused.
LEMMA EnqueueStep ==
  ASSUME FlusherAssumption, StorageInv, enqueue
  PROVE  StorageInv'
<1>1. /\ UNCHANGED <<wal, ends, durable, sync, call, owed, batch, running, phase, overdue, owner, lost>>
      /\ answer' \in {"Ok", "QueueFull", "WorkerStopped"}
  BY DEF enqueue, storage
<1>2. batch \in Seq(Op) /\ channel \in Seq(Op) /\ Buffered \in Seq(Op)
  BY BuffersSplit
<1>3. CASE UNCHANGED <<channel, next>>
  <2>1. Buffered' = Buffered /\ next' \in Nat /\ next' >= next
    BY <1>1, <1>3 DEF Buffered, StorageInv, TypeOK
  <2>2. TypeOK'
    BY <1>1, <1>3, SMTT(60) DEF StorageInv, TypeOK
  <2>3. PhasesOK'
    BY <1>1, <1>3, SMTT(60) DEF StorageInv, PhasesOK
  <2>4. Known \subseteq Known'
    BY <1>1, <1>3, SMTT(60) DEF Known, InCalls
  <2> QED BY <1>1, <1>3, <2>1, <2>2, <2>3, <2>4, PromiseKept, CallsKept, LogAndBuffersKept, NoneLostKept DEF StorageInv
<1>4. CASE /\ phase # "exited" /\ Len(channel) < Capacity
           /\ channel' = Append(channel, [by |-> Flusher, n |-> next]) /\ next' = next + 1
  <2> DEFINE x == [by |-> Flusher, n |-> next]
  <2>1. next \in Nat \ {0} /\ next' \in Nat \ {0} /\ next' = next + 1 /\ next <= next'
    BY <1>4, SMTT(60) DEF StorageInv, TypeOK
  <2>2. x \in Op /\ x.by = Flusher /\ x.n = next
    BY <2>1 DEF Op, FlusherAssumption
  <2>3. channel' = Append(channel, x)
    BY <1>4
  <2> HIDE DEF x
  <2>4. Buffered' = Append(Buffered, x)
    BY <1>1, <1>2, <2>2, <2>3, SMTT(60) DEF Buffered
  <2>5. channel' \in Seq(Op) /\ Len(channel') <= Capacity
    <3>1. channel' \in Seq(Op) /\ Len(channel') = Len(channel) + 1
      BY <1>2, <2>2, <2>3, Appending, SMTT(60)
    <3> QED BY <1>2, <1>4, <3>1, SMTT(60) DEF FlusherAssumption
  <2>6. TypeOK'
    <3>1. lost' \subseteq 1..(next' - 1)
      BY <1>1, <2>1, SMTT(60) DEF StorageInv, TypeOK
    <3> QED BY <1>1, <2>1, <2>5, <3>1, SMTT(60) DEF StorageInv, TypeOK
  <2>7. PhasesOK'
    <3>1. phase # "final"
      <4>1. owner # "stopping" /\ (phase = "final" => owner = "stopping")
        BY SMTT(60) DEF enqueue, StorageInv, TypeOK, PhasesOK
      <4> QED BY <4>1, SMTT(60)
    <3> QED BY <1>1, <1>4, <3>1 DEF StorageInv, PhasesOK
  <2>8. /\ DOMAIN Buffered' = DOMAIN Buffered \cup {Len(Buffered) + 1}
        /\ \A i \in DOMAIN Buffered : Buffered'[i] = Buffered[i] /\ i < Len(Buffered) + 1
        /\ Buffered'[Len(Buffered) + 1] = x
    BY <1>2, <2>2, <2>4, SMTT(60)
  <2>9. \A i \in DOMAIN Buffered : Buffered[i].n \in Nat /\ Buffered[i].n < next /\ Buffered[i].by = Flusher
    BY <1>2, Fields, SMTT(60) DEF StorageInv, Numbered
  <2>10. \A i \in DOMAIN wal : wal[i].n \in Nat /\ wal[i].n < next
    BY Fields DEF StorageInv, TypeOK, Numbered
  <2>11. \A k \in Nat : k < next => k < next'
    BY <2>1, SMTT(60)
  <2>12. Numbered'
    BY <1>1, <2>1, <2>2, <2>8, <2>9, <2>10, <2>11, SMTT(60) DEF Numbered
  <2>13. ASSUME NEW i \in DOMAIN Buffered', NEW j \in DOMAIN Buffered', i < j
         PROVE  Buffered'[i].n < Buffered'[j].n
    <3>1. i \in DOMAIN Buffered
      BY <1>2, <2>8, <2>13, SMTT(60)
    <3>2. CASE j \in DOMAIN Buffered
      BY <2>8, <2>13, <3>1, <3>2, SMTT(60) DEF StorageInv, InOrder
    <3>3. CASE j = Len(Buffered) + 1
      BY <2>2, <2>8, <2>9, <3>1, <3>3, SMTT(60)
    <3> QED BY <2>8, <3>2, <3>3, SMTT(60)
  <2>14. ASSUME NEW i \in DOMAIN wal', NEW j \in DOMAIN Buffered', wal'[i].by = Flusher
         PROVE  wal'[i].n < Buffered'[j].n
    <3>1. CASE j \in DOMAIN Buffered
      BY <1>1, <2>8, <2>14, <3>1, SMTT(60) DEF StorageInv, InOrder
    <3>2. CASE j = Len(Buffered) + 1
      BY <1>1, <2>2, <2>8, <2>10, <3>2, SMTT(60)
    <3> QED BY <2>8, <3>1, <3>2, SMTT(60)
  <2>15. InOrder'
    BY <1>1, <2>13, <2>14, SMTT(60) DEF StorageInv, InOrder
  <2>16. NoneLost'
    <3>1. Numbers(channel') = Numbers(channel) \cup {next}
      BY <1>2, <2>2, <2>3, NumbersOfMore, SMTT(60)
    <3>2. 1..(next - 1) \subseteq Known
      BY SMTT(60) DEF StorageInv, NoneLost, Known, InCalls
    <3>3. Known' = Known \cup {next}
      BY <1>1, <3>1 DEF Known, InCalls
    <3>4. 1..(next' - 1) \subseteq Known'
      BY <2>1, <3>2, <3>3
    <3> QED BY <3>4 DEF NoneLost, Known, InCalls
  <2>17. next' \in Nat /\ next' >= next
    BY <2>1, SMTT(60)
  <2> QED BY <1>1, <2>6, <2>7, <2>12, <2>15, <2>16, <2>17, PromiseKept, CallsKept, SMTT(60) DEF StorageInv
<1> QED BY <1>3, <1>4 DEF enqueue

\* The power fails.
LEMMA FailStep ==
  ASSUME FlusherAssumption, StorageInv, Fail
  PROVE  StorageInv'
<1>1. PICK n \in ends :
        /\ PowerFailure(n)
        /\ lost' = lost \cup Numbers(channel) \cup Numbers(batch) \cup {wal[i].n : i \in (n + 1)..Len(wal)} \cup InCalls
        /\ Started(channel', batch', running', phase', overdue', owner')
        /\ UNCHANGED <<answer, next>>
  BY SMTT(60) DEF Fail, InCalls
<1>2. /\ wal' = SubSeq(wal, 1, n) /\ ends' = {e \in ends : e <= n} /\ durable' = n /\ n >= durable
      /\ sync' = FALSE /\ call' = [t \in Threads |-> Idle] /\ owed' = owed
  BY <1>1, SMTT(60) DEF PowerFailure
<1>3. /\ channel' = <<>> /\ batch' = <<>> /\ running' = TRUE /\ phase' = "loop"
      /\ overdue' = FALSE /\ owner' = "open" /\ next' = next /\ answer' = answer
  BY <1>1, SMTT(60) DEF Started
<1>4. wal \in Seq(Op) /\ Len(wal) \in Nat /\ n \in 0..Len(wal) /\ n \in Nat /\ durable \in Nat /\ n <= Len(wal)
  BY SMTT(60) DEF StorageInv, TypeOK
<1>5. wal' \in Seq(Op) /\ Len(wal') = n /\ \A i \in 1..n : wal'[i] = wal[i]
  BY <1>2, <1>4, Cutting, SMTT(60)
<1>6. DOMAIN wal' = 1..n /\ DOMAIN wal = 1..Len(wal) /\ \A i \in 1..n : i \in 1..Len(wal)
  BY <1>4, <1>5
<1>7. ends' \subseteq 0..n /\ n \in ends'
  <2>1. \A e \in ends : e \in Int /\ 0 <= e
    BY <1>4, SMTT(60) DEF StorageInv, TypeOK
  <2>2. \A e \in ends' : e \in 0..n
    BY <1>2, <1>4, <2>1
  <2>3. n \in ends'
    BY <1>2, <1>4, SMTT(60)
  <2> QED BY <2>2, <2>3, SMTT(60)
<1>8. Numbers(wal) = Numbers(wal') \cup {wal[i].n : i \in (n + 1)..Len(wal)}
  BY <1>2, <1>4, NumbersOfCut, SMTT(60)
<1>9. lost' \subseteq 1..(next - 1)
  <2>1. InCalls \subseteq 1..(next - 1)
    BY CallNumbers DEF InCalls
  <2>2. \A i \in DOMAIN wal : wal[i].n \in 1..(next - 1)
    BY <1>4, Fields, SMTT(60) DEF StorageInv, TypeOK, Numbered
  <2>3. {wal[i].n : i \in (n + 1)..Len(wal)} \subseteq 1..(next - 1)
    <3>1. \A i \in (n + 1)..Len(wal) : i \in DOMAIN wal
      BY <1>4, <1>6, SMTT(60)
    <3> QED BY <2>2, <3>1
  <2>4. \A i \in DOMAIN Buffered : Buffered[i].n \in 1..(next - 1)
    BY BuffersSplit, Fields, SMTT(60) DEF StorageInv, TypeOK, Numbered
  <2>5. Numbers(batch) \subseteq 1..(next - 1) /\ Numbers(channel) \subseteq 1..(next - 1)
    BY <2>4, BuffersSplit DEF Numbers
  <2> QED BY <1>1, <2>1, <2>3, <2>5, ZenonT(60) DEF StorageInv, TypeOK
<1>10. Idle \in [pc : {"idle", "load", "write"}, ops : Seq(Op), opt : BOOLEAN, strict : BOOLEAN]
  BY DEF Idle
<1>11. TypeOK'
  <2>1. call' \in [Threads -> [pc : {"idle", "load", "write"}, ops : Seq(Op), opt : BOOLEAN, strict : BOOLEAN]]
    BY <1>2, <1>10
  <2>2. channel' \in Seq(Op) /\ batch' \in Seq(Op) /\ Len(channel') <= Capacity
    BY <1>3 DEF FlusherAssumption
  <2> QED BY <1>2, <1>3, <1>5, <1>7, <1>9, <2>1, <2>2, ZenonT(60) DEF StorageInv, TypeOK
<1>12. Promised'
  <2>1. owed \in Seq(Op) /\ Len(owed) \in Nat /\ DOMAIN owed = 1..Len(owed) /\ Len(owed) <= durable
    BY DEF StorageInv, TypeOK, Promised
  <2>2. Len(owed) <= n /\ \A i \in DOMAIN owed : i \in 1..n
    BY <1>2, <1>4, <2>1, SMTT(60)
  <2>3. \A i \in DOMAIN owed : owed[i] = wal[i]
    BY SMTT(60) DEF StorageInv, Promised
  <2> QED BY <1>2, <1>5, <2>2, <2>3 DEF Promised
<1>13. CallsOK'
  BY <1>2, SMTT(60) DEF CallsOK, Idle
<1>14. PhasesOK'
  BY <1>2, <1>3 DEF PhasesOK, Idle, FlusherAssumption
<1>15. DOMAIN Buffered' = {}
  BY <1>3, SMTT(60) DEF Buffered
<1>16. Numbered' /\ InOrder'
  BY <1>3, <1>5, <1>6, <1>15, SMTT(60) DEF StorageInv, Numbered, InOrder
<1>17. Known \subseteq Known'
  BY <1>1, <1>8, ZenonT(60) DEF Known
<1> QED BY <1>3, <1>11, <1>12, <1>13, <1>14, <1>16, <1>17, NoneLostKept, SMTT(60) DEF StorageInv

-----------------------------------------------------------------------------
\* The theorems.

\* Every step keeps the invariant.
LEMMA Inductive == FlusherAssumption /\ StorageInv /\ [Next]_vars => StorageInv'
<1> SUFFICES ASSUME FlusherAssumption, StorageInv, [Next]_vars PROVE StorageInv'
  BY SMTT(60)
<1>1. ASSUME NEW t \in Threads, DirectStep(t) PROVE StorageInv'
  <2>1. t \in Threads \ {Flusher} /\ UNCHANGED <<flusher, next>>
    BY <1>1 DEF DirectStep
  <2>2. CASE LoadSync(t) /\ lost' = lost
    BY <2>1, <2>2, LoadStep, SMTT(60)
  <2>3. CASE Write(t) /\ lost' = lost
    BY <2>1, <2>3, DirectWrites, SMTT(60)
  <2>4. CASE WriteFails(t) /\ lost' = lost \cup Numbers(call[t].ops)
    BY <2>1, <2>4, DirectFails, SMTT(60)
  <2> QED BY <1>1, <2>2, <2>3, <2>4 DEF DirectStep
<1>2. CASE worker_loop
  <2>1. CASE ApplyLoads
    BY <2>1, LoadStep, SMTT(60) DEF ApplyLoads, FlusherAssumption
  <2> QED BY <1>2, <2>1, MovingSteps, StartSteps, BatchApplied, SMTT(60) DEF worker_loop
<1>3. CASE UNCHANGED vars
  <2>1. UNCHANGED <<wal, ends, durable, sync, call, owed, channel, batch, running, phase, overdue, owner, answer, next, lost>>
    BY <1>3 DEF vars, storage, flusher
  <2>2. Buffered' = Buffered
    BY <2>1, SMTT(60) DEF Buffered
  <2>3. TypeOK' /\ Promised' /\ CallsOK' /\ PhasesOK'
    BY <2>1, SMTT(60) DEF StorageInv, TypeOK, Promised, CallsOK, PhasesOK
  <2>4. Numbered' /\ InOrder'
    BY <2>1, <2>2, ZenonT(60) DEF StorageInv, Numbered, InOrder
  <2>5. Known \subseteq Known'
    BY <2>1 DEF Known, InCalls
  <2> QED BY <2>1, <2>3, <2>4, <2>5, NoneLostKept, SMTT(60) DEF StorageInv
<1> QED BY <1>1, <1>2, <1>3, OwnerSteps, ModeSteps, EnqueueStep, DirectStarts, FailStep DEF Next

\* The invariant holds at the start.
LEMMA Initially == FlusherAssumption /\ Init => StorageInv
<1> SUFFICES ASSUME FlusherAssumption, Init PROVE StorageInv
  OBVIOUS
<1>1. /\ wal = <<>> /\ owed = <<>> /\ ends = {0} /\ durable = 0 /\ sync = FALSE
      /\ call = [t \in Threads |-> Idle]
      /\ channel = <<>> /\ batch = <<>> /\ running = TRUE /\ phase = "loop" /\ overdue = FALSE
      /\ owner = "open" /\ answer = "Ok" /\ next = 1 /\ lost = {}
  BY SMTT(60) DEF Init, open, Started
<1>2. Idle \in [pc : {"idle", "load", "write"}, ops : Seq(Op), opt : BOOLEAN, strict : BOOLEAN]
  BY SMTT(60) DEF Idle
<1>3. call \in [Threads -> [pc : {"idle", "load", "write"}, ops : Seq(Op), opt : BOOLEAN, strict : BOOLEAN]]
  BY <1>1, <1>2, SMTT(60)
<1>4. TypeOK
  <2>1. wal \in Seq(Op) /\ owed \in Seq(Op) /\ channel \in Seq(Op) /\ batch \in Seq(Op)
    BY <1>1
  <2>2. Len(wal) = 0 /\ Len(channel) = 0
    BY <1>1
  <2>3. ends \subseteq 0..Len(wal) /\ Len(wal) \in ends /\ durable \in ends
    BY <1>1, <2>2
  <2>4. Len(channel) <= Capacity /\ next \in Nat \ {0} /\ lost \subseteq 1..(next - 1)
    BY <1>1, <2>2 DEF FlusherAssumption
  <2> QED BY <1>1, <1>3, <2>1, <2>3, <2>4, ZenonT(60) DEF TypeOK
<1>5. Promised
  BY <1>1 DEF Promised
<1>6. CallsOK
  <2>1. \A t \in Threads : call[t] = Idle
    BY <1>1, ZenonT(60)
  <2>2. Idle.strict = FALSE /\ Idle.pc = "idle" /\ DOMAIN Idle.ops = {}
    BY DEF Idle
  <2> QED BY <2>1, <2>2, ZenonT(60) DEF CallsOK
<1>7. PhasesOK
  BY <1>1 DEF PhasesOK, Idle, FlusherAssumption
<1>8. DOMAIN Buffered = {}
  BY <1>1, SMTT(60) DEF Buffered
<1>9. Numbered /\ InOrder
  <2>1. DOMAIN wal = {}
    BY <1>1
  <2> QED BY <1>8, <2>1, ZenonT(60) DEF Numbered, InOrder
<1>10. NoneLost
  BY <1>1 DEF NoneLost
<1> QED BY <1>4, <1>5, <1>6, <1>7, <1>9, <1>10 DEF StorageInv

\* The invariant behind the others holds in every state (worker_loop, enqueue,
\* stop and the calls of the backend).
THEOREM StorageInvariant == Spec => []StorageInv
<1>1. Init => StorageInv
  BY FlusherAssumption, Initially
<1>2. StorageInv /\ [Next]_vars => StorageInv'
  BY FlusherAssumption, Inductive
<1> QED BY <1>1, <1>2, PTL DEF Spec

\* What a write made in sync mode or a flush promised is in the log after any
\* power failures and mode switches (put_raw, del_raw, apply_batch, flush).
THEOREM SyncedWritesSurvive == Spec => []SyncedSurvives
<1>1. StorageInv => SyncedSurvives
  <2> SUFFICES ASSUME StorageInv PROVE SyncedSurvives
    BY SMTT(60)
  <2>1. wal \in Seq(Op) /\ owed \in Seq(Op) /\ Len(wal) \in Nat /\ Len(owed) \in Nat /\ durable \in 0..Len(wal)
    BY DEF StorageInv, TypeOK
  <2>2. Len(owed) <= Len(wal) /\ Len(owed) \in 0..Len(wal)
    BY <2>1, SMTT(60) DEF StorageInv, Promised
  <2>3. DOMAIN owed = 1..Len(owed) /\ \A i \in 1..Len(owed) : owed[i] = wal[i]
    BY <2>1 DEF StorageInv, Promised
  <2>4. owed = SubSeq(wal, 1, Len(owed))
    BY <2>1, <2>2, <2>3, SMTT(60)
  <2> QED BY <2>2, <2>4 DEF SyncedSurvives
<1> QED BY <1>1, StorageInvariant, PTL

\* The flusher's operations reach the log in the order of their acceptance
\* (enqueue, worker_loop).
THEOREM WrittenInOrder == Spec => []InOrder
<1>1. StorageInv => InOrder
  BY DEF StorageInv
<1> QED BY <1>1, StorageInvariant, PTL

\* Only failed writes and power failures lose an accepted operation.
THEOREM NothingLost == Spec => []NoneLost
<1>1. StorageInv => NoneLost
  BY DEF StorageInv
<1> QED BY <1>1, StorageInvariant, PTL

\* When stop has returned, the channel and the batch are empty and the thread
\* is not in a write.
THEOREM StopHasDrained == Spec => []StopDrains
<1>1. StorageInv => StopDrains
  BY DEF StorageInv, PhasesOK, StopDrains
<1> QED BY <1>1, StorageInvariant, PTL
=============================================================================
