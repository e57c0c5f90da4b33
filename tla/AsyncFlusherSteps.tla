------------------------- MODULE AsyncFlusherSteps --------------------------
(***************************************************************************)
(* Facts about sequences of operations, and the lemmas that the steps of   *)
(* direct writers and the first steps of the flusher keep StorageInv.      *)
(***************************************************************************)
EXTENDS AsyncFlusher, TLAPS

-----------------------------------------------------------------------------
\* Sequences of operations

\* Indexing into a concatenation.
LEMMA Concatenation ==
  ASSUME NEW a \in Seq(Op), NEW b \in Seq(Op)
  PROVE  /\ a \o b \in Seq(Op)
         /\ Len(a \o b) = Len(a) + Len(b)
         /\ \A i \in 1..Len(a) : (a \o b)[i] = a[i]
         /\ \A i \in (Len(a) + 1)..(Len(a) + Len(b)) : (a \o b)[i] = b[i - Len(a)]
  BY SMTT(60)

\* Indexing into a sequence with one more element.
LEMMA Appending ==
  ASSUME NEW a \in Seq(Op), NEW x \in Op
  PROVE  /\ Append(a, x) \in Seq(Op)
         /\ Len(Append(a, x)) = Len(a) + 1
         /\ \A i \in 1..Len(a) : Append(a, x)[i] = a[i]
         /\ Append(a, x)[Len(a) + 1] = x
  BY SMTT(60)

\* Indexing into a tail.
LEMMA HeadAndTail ==
  ASSUME NEW a \in Seq(Op), a # <<>>
  PROVE  /\ Head(a) \in Op /\ Head(a) = a[1]
         /\ Tail(a) \in Seq(Op) /\ Len(Tail(a)) = Len(a) - 1
         /\ \A i \in 1..(Len(a) - 1) : Tail(a)[i] = a[i + 1]
  BY SMTT(60)

\* Indexing into a first part.
LEMMA Cutting ==
  ASSUME NEW a \in Seq(Op), NEW n \in 0..Len(a)
  PROVE  /\ SubSeq(a, 1, n) \in Seq(Op)
         /\ Len(SubSeq(a, 1, n)) = n
         /\ \A i \in 1..n : SubSeq(a, 1, n)[i] = a[i]
  BY SMTT(60)

\* Moving the first operation of the channel to the batch changes nothing.
LEMMA Moving ==
  ASSUME NEW a \in Seq(Op), NEW b \in Seq(Op), b # <<>>
  PROVE  Append(a, Head(b)) \o Tail(b) = a \o b
  BY SMTT(60)

\* The fields of an operation in a sequence.
LEMMA Fields ==
  ASSUME NEW a \in Seq(Op), NEW i \in DOMAIN a
  PROVE  a[i] \in Op /\ a[i].n \in Nat \ {0} /\ a[i].by \in Threads
<1>1. a[i] \in Op
  OBVIOUS
<1> QED BY <1>1 DEF Op

\* A number occurs in a sequence at some index.
LEMMA Member ==
  ASSUME NEW a \in Seq(Op), NEW k
  PROVE  k \in Numbers(a) <=> \E i \in 1..Len(a) : k = a[i].n
<1>1. DOMAIN a = 1..Len(a)
  OBVIOUS
<1> QED BY <1>1 DEF Numbers

\* The numbers in the empty sequence,
LEMMA NumbersOfNone == Numbers(<<>>) = {}
  BY DEF Numbers

\* in a sequence of one,
LEMMA NumbersOfOne ==
  ASSUME NEW x \in Op
  PROVE  Numbers(<<x>>) = {x.n}
<1>1. DOMAIN <<x>> = {1} /\ <<x>>[1] = x
  OBVIOUS
<1> QED BY <1>1 DEF Numbers

\* in a concatenation,
LEMMA NumbersOfBoth ==
  ASSUME NEW a \in Seq(Op), NEW b \in Seq(Op)
  PROVE  Numbers(a \o b) = Numbers(a) \cup Numbers(b)
<1> DEFINE c == a \o b
<1>1. c \in Seq(Op) /\ Len(c) = Len(a) + Len(b)
  BY Concatenation
<1>2. \A i \in 1..Len(a) : i \in 1..Len(c) /\ c[i] = a[i]
  BY Concatenation
<1>3. \A i \in 1..Len(b) : Len(a) + i \in 1..Len(c) /\ c[Len(a) + i] = b[i]
  BY Concatenation, SMTT(60)
<1>4. \A i \in 1..Len(c) : i \in 1..Len(a) \/ (i - Len(a) \in 1..Len(b) /\ c[i] = b[i - Len(a)])
  BY Concatenation, SMTT(60)
<1> HIDE DEF c
<1>5. ASSUME NEW k \in Numbers(c) PROVE k \in Numbers(a) \cup Numbers(b)
  <2>1. PICK i \in 1..Len(c) : k = c[i].n
    BY <1>1, Member
  <2>2. CASE i \in 1..Len(a)
    BY <1>2, <2>1, <2>2, Member
  <2>3. CASE i - Len(a) \in 1..Len(b) /\ c[i] = b[i - Len(a)]
    BY <2>1, <2>3, Member, SMTT(60)
  <2> QED BY <1>4, <2>2, <2>3
<1>6. ASSUME NEW k \in Numbers(a) PROVE k \in Numbers(c)
  <2>1. PICK i \in 1..Len(a) : k = a[i].n
    BY Member
  <2> QED BY <1>1, <1>2, <2>1, Member, ZenonT(60)
<1>7. ASSUME NEW k \in Numbers(b) PROVE k \in Numbers(c)
  <2>1. PICK i \in 1..Len(b) : k = b[i].n
    BY Member
  <2>2. Len(a) + i \in 1..Len(c) /\ c[Len(a) + i] = b[i]
    BY <1>3
  <2> QED BY <1>1, <2>1, <2>2, Member, ZenonT(60)
<1> QED BY <1>5, <1>6, <1>7 DEF c

\* in a sequence with one more element,
LEMMA NumbersOfMore ==
  ASSUME NEW a \in Seq(Op), NEW x \in Op
  PROVE  Numbers(Append(a, x)) = Numbers(a) \cup {x.n}
<1>1. Append(a, x) = a \o <<x>> /\ <<x>> \in Seq(Op)
  BY SMTT(60)
<1> QED BY <1>1, NumbersOfBoth, NumbersOfOne, ZenonT(60)

\* in a tail,
LEMMA NumbersOfRest ==
  ASSUME NEW a \in Seq(Op), a # <<>>
  PROVE  Numbers(a) = Numbers(Tail(a)) \cup {Head(a).n}
<1>1. a = <<Head(a)>> \o Tail(a) /\ <<Head(a)>> \in Seq(Op) /\ Tail(a) \in Seq(Op) /\ Head(a) \in Op
  BY SMTT(60)
<1>2. Numbers(<<Head(a)>> \o Tail(a)) = Numbers(<<Head(a)>>) \cup Numbers(Tail(a))
  BY <1>1, NumbersOfBoth, ZenonT(60)
<1>3. Numbers(<<Head(a)>>) = {Head(a).n}
  BY <1>1, NumbersOfOne
<1> QED BY <1>1, <1>2, <1>3, ZenonT(60)

\* and in a first part.
LEMMA NumbersOfCut ==
  ASSUME NEW a \in Seq(Op), NEW n \in 0..Len(a)
  PROVE  Numbers(a) = Numbers(SubSeq(a, 1, n)) \cup {a[i].n : i \in (n + 1)..Len(a)}
<1> DEFINE c == SubSeq(a, 1, n)
<1>1. c \in Seq(Op) /\ Len(c) = n /\ \A i \in 1..n : c[i] = a[i]
  BY Cutting
<1>2. 1..Len(a) = 1..n \cup (n + 1)..Len(a)
  BY SMTT(60)
<1> HIDE DEF c
<1>3. ASSUME NEW k \in Numbers(a) PROVE k \in Numbers(c) \cup {a[i].n : i \in (n + 1)..Len(a)}
  <2>1. PICK i \in 1..Len(a) : k = a[i].n
    BY Member
  <2>2. CASE i \in 1..n
    BY <1>1, <2>1, <2>2, Member
  <2>3. CASE i \in (n + 1)..Len(a)
    BY <2>1, <2>3
  <2> QED BY <1>2, <2>2, <2>3
<1>4. ASSUME NEW k \in Numbers(c) PROVE k \in Numbers(a)
  <2>1. PICK i \in 1..n : k = c[i].n
    BY <1>1, Member
  <2> QED BY <1>1, <1>2, <2>1, Member
<1>5. ASSUME NEW i \in (n + 1)..Len(a) PROVE a[i].n \in Numbers(a)
  BY <1>2, Member
<1> QED BY <1>3, <1>4, <1>5 DEF c

-----------------------------------------------------------------------------
\* What a step leaves alone keeps its part of the invariant.

\* The order of log and buffers, when neither changes.
LEMMA LogAndBuffersKept ==
  ASSUME StorageInv, wal' = wal, Buffered' = Buffered, next' \in Nat, next' >= next
  PROVE  Numbered' /\ InOrder'
<1>1. \A i \in DOMAIN wal : wal[i].n \in Nat
  BY Fields DEF StorageInv, TypeOK
<1>2. Buffered \in Seq(Op)
  BY Concatenation DEF StorageInv, TypeOK, Buffered
<1>3. \A i \in DOMAIN Buffered : Buffered[i].n \in Nat
  BY <1>2, Fields
<1>4. Numbered'
  BY <1>1, <1>3, SMTT(60) DEF StorageInv, TypeOK, Numbered
<1>5. InOrder'
  BY DEF StorageInv, InOrder
<1> QED BY <1>4, <1>5

\* The promise, when neither log nor promise changes.
LEMMA PromiseKept ==
  ASSUME StorageInv, UNCHANGED <<wal, owed, durable>>
  PROVE  Promised'
  BY DEF StorageInv, Promised

\* The calls, when neither they nor the flag change.
LEMMA CallsKept ==
  ASSUME StorageInv, UNCHANGED <<sync, call>>, next' \in Nat, next' >= next
  PROVE  CallsOK'
<1> SUFFICES ASSUME NEW t \in Threads, NEW i \in DOMAIN call[t].ops
             PROVE  call[t].ops[i].n < next'
  BY DEF StorageInv, CallsOK
<1>1. call[t].ops \in Seq(Op)
  BY DEF StorageInv, TypeOK
<1>2. call[t].ops[i].n \in Nat
  BY <1>1, Fields
<1> QED BY <1>2, SMTT(60) DEF StorageInv, CallsOK, TypeOK

\* The operations that are somewhere.
InCalls == UNION {Numbers(call[t].ops) : t \in Threads}
Known == Numbers(wal) \cup Numbers(batch) \cup Numbers(channel) \cup lost \cup InCalls

\* Operations, when those that are somewhere stay somewhere.
LEMMA NoneLostKept ==
  ASSUME StorageInv, next' = next, Known \subseteq Known'
  PROVE  NoneLost'
<1>1. 1..(next - 1) \subseteq Known
  BY DEF StorageInv, NoneLost, Known, InCalls
<1>2. 1..(next' - 1) \subseteq Known'
  BY <1>1
<1> QED BY <1>2 DEF NoneLost, Known, InCalls

\* One call changes.
LEMMA CallChanges ==
  ASSUME StorageInv, NEW t \in Threads, NEW c, call' = [call EXCEPT ![t] = c]
  PROVE  /\ call'[t] = c
         /\ \A u \in Threads \ {t} : call'[u] = call[u]
         /\ InCalls' \cup Numbers(call[t].ops) = InCalls \cup Numbers(c.ops)
         /\ Numbers(c.ops) \subseteq InCalls'
<1>1. call'[t] = c /\ \A u \in Threads \ {t} : call'[u] = call[u]
  BY DEF StorageInv, TypeOK
<1>2. InCalls' = UNION {Numbers(call'[u].ops) : u \in Threads}
  BY DEF InCalls, Numbers
<1>3. Numbers(c.ops) \subseteq InCalls' /\ Numbers(call[t].ops) \subseteq InCalls
  BY <1>1, <1>2 DEF InCalls
<1>4. ASSUME NEW k \in InCalls PROVE k \in InCalls' \cup Numbers(call[t].ops)
  <2>1. PICK u \in Threads : k \in Numbers(call[u].ops)
    BY DEF InCalls
  <2> QED BY <1>1, <1>2, <2>1
<1>5. ASSUME NEW k \in InCalls' PROVE k \in InCalls \cup Numbers(c.ops)
  <2>1. PICK u \in Threads : k \in Numbers(call'[u].ops)
    BY <1>2
  <2> QED BY <1>1, <2>1 DEF InCalls
<1> QED BY <1>1, <1>3, <1>4, <1>5

\* What Numbered and InOrder say of the two buffers.
LEMMA BuffersSplit ==
  ASSUME StorageInv
  PROVE  /\ batch \in Seq(Op) /\ channel \in Seq(Op) /\ Buffered \in Seq(Op)
         /\ \A i \in DOMAIN batch : i \in DOMAIN Buffered /\ Buffered[i] = batch[i]
         /\ \A i \in DOMAIN channel : Len(batch) + i \in DOMAIN Buffered /\ Buffered[Len(batch) + i] = channel[i]
         /\ \A i \in DOMAIN batch, j \in DOMAIN channel : i < Len(batch) + j
<1>1. batch \in Seq(Op) /\ channel \in Seq(Op)
  BY DEF StorageInv, TypeOK
<1> QED BY <1>1, Concatenation, SMTT(60) DEF Buffered

\* The numbers of the batch are the flusher's and in use.
LEMMA BatchNumbered ==
  ASSUME StorageInv
  PROVE  \A i \in DOMAIN batch : batch[i].by = Flusher /\ batch[i].n < next
  BY BuffersSplit DEF StorageInv, Numbered

\* The operations of a call are in use.
LEMMA CallNumbers ==
  ASSUME StorageInv, NEW t \in Threads
  PROVE  call[t].ops \in Seq(Op) /\ Numbers(call[t].ops) \subseteq 1..(next - 1)
<1>1. call[t].ops \in Seq(Op)
  BY DEF StorageInv, TypeOK
<1>2. \A i \in DOMAIN call[t].ops : call[t].ops[i].n \in Nat \ {0} /\ call[t].ops[i].n < next
  BY <1>1, Fields DEF StorageInv, CallsOK
<1> QED BY <1>1, <1>2, SMTT(60) DEF Numbers, StorageInv, TypeOK

-----------------------------------------------------------------------------
\* One lemma per group of actions.

\* stop and start, and the passing of time.
LEMMA OwnerSteps ==
  ASSUME FlusherAssumption, StorageInv, Stop \/ StopReturns \/ start \/ TimePasses
  PROVE  StorageInv'
<1>1. UNCHANGED <<storage, next, lost>> /\ batch' = batch /\ channel' = channel
  BY DEF Stop, StopReturns, start, TimePasses, Started, StorageInv, PhasesOK
<1>2. Buffered' = Buffered
  BY <1>1 DEF Buffered
<1>3. next' \in Nat /\ next' >= next
  BY <1>1 DEF StorageInv, TypeOK
<1>4. TypeOK'
  BY <1>1, ZenonT(60) DEF StorageInv, TypeOK, Stop, StopReturns, start, TimePasses, Started, storage
<1>5. PhasesOK'
  BY <1>1 DEF StorageInv, TypeOK, PhasesOK, Stop, StopReturns, start, TimePasses, Started, storage
<1>6. Known' = Known
  BY <1>1 DEF Known, InCalls, storage
<1>7. Promised' /\ CallsOK' /\ Numbered' /\ InOrder' /\ NoneLost'
  BY <1>1, <1>2, <1>3, <1>6, PromiseKept, CallsKept, LogAndBuffersKept, NoneLostKept DEF storage
<1> QED BY <1>4, <1>5, <1>7 DEF StorageInv

\* An operation goes from the channel to the batch.
LEMMA MovingSteps ==
  ASSUME FlusherAssumption, StorageInv, Receive \/ Drain
  PROVE  StorageInv'
<1> USE DEF Idles
<1>1. UNCHANGED <<storage, next, lost, running, owner>>
  BY DEF Receive, Drain
<1>2. \/ channel # <<>> /\ batch' = Append(batch, Head(channel)) /\ channel' = Tail(channel)
      \/ channel' = channel /\ batch' = batch
  BY DEF Receive, Drain
<1>3. batch \in Seq(Op) /\ channel \in Seq(Op)
  BY DEF StorageInv, TypeOK
<1>4. Buffered' = Buffered
  BY <1>2, <1>3, Moving, ZenonT(60) DEF Buffered
<1>5. next' \in Nat /\ next' >= next
  BY <1>1 DEF StorageInv, TypeOK
<1>6. batch' \in Seq(Op) /\ channel' \in Seq(Op) /\ Len(channel') <= Len(channel)
  <2>1. CASE channel # <<>> /\ batch' = Append(batch, Head(channel)) /\ channel' = Tail(channel)
    <3>1. Head(channel) \in Op /\ Tail(channel) \in Seq(Op) /\ Len(Tail(channel)) = Len(channel) - 1
      BY <1>3, <2>1, HeadAndTail
    <3> QED BY <1>3, <2>1, <3>1, SMTT(60)
  <2> QED BY <1>2, <1>3, <2>1
<1>7. TypeOK'
  <2>1. Len(channel') <= Capacity
    BY <1>3, <1>6 DEF StorageInv, TypeOK, FlusherAssumption
  <2> QED BY <1>1, <1>6, <2>1, ZenonT(60) DEF StorageInv, TypeOK, Receive, Drain, storage
<1>8. PhasesOK'
  BY <1>1, <1>2, SMTT(60) DEF StorageInv, TypeOK, PhasesOK, Receive, Drain, storage
<1>9. Numbers(batch') \cup Numbers(channel') = Numbers(batch) \cup Numbers(channel)
  <2>1. CASE channel # <<>> /\ batch' = Append(batch, Head(channel)) /\ channel' = Tail(channel)
    <3>1. Head(channel) \in Op /\ Tail(channel) \in Seq(Op)
      BY <1>3, <2>1, HeadAndTail
    <3>2. Numbers(batch') = Numbers(batch) \cup {Head(channel).n}
      BY <1>3, <2>1, <3>1, NumbersOfMore
    <3>3. Numbers(channel) = Numbers(channel') \cup {Head(channel).n}
      BY <1>3, <2>1, NumbersOfRest
    <3> QED BY <3>2, <3>3
  <2> QED BY <1>2, <2>1
<1>10. Known' = Known
  BY <1>1, <1>9 DEF Known, InCalls, storage
<1>11. Promised' /\ CallsOK' /\ Numbered' /\ InOrder' /\ NoneLost'
  BY <1>1, <1>4, <1>5, <1>10, PromiseKept, CallsKept, LogAndBuffersKept, NoneLostKept DEF storage
<1> QED BY <1>7, <1>8, <1>11 DEF StorageInv

\* The flusher begins to apply its batch, or goes on without.
LEMMA StartSteps ==
  ASSUME FlusherAssumption, StorageInv, Check \/ Leave \/ Drained
  PROVE  StorageInv'
<1> USE DEF Idles
<1>1. UNCHANGED <<wal, ends, durable, sync, owed, next, lost, running, owner, channel, batch>>
  BY DEF Check, Leave, Drained, Start, storage
<1>2. Buffered' = Buffered
  BY <1>1 DEF Buffered
<1>3. next' \in Nat /\ next' >= next
  BY <1>1 DEF StorageInv, TypeOK
<1>4. Promised' /\ Numbered' /\ InOrder'
  BY <1>1, <1>2, <1>3, PromiseKept, LogAndBuffersKept
<1>5. CASE call' = call
  <2>1. TypeOK'
    BY <1>1, <1>5, SMTT(60) DEF StorageInv, TypeOK, Check, Leave, Drained, Start
  <2>2. PhasesOK'
    BY <1>1, <1>5 DEF StorageInv, TypeOK, PhasesOK, Check, Leave, Drained, Start, FlusherAssumption
  <2>3. Known' = Known
    BY <1>1, <1>5 DEF Known, InCalls
  <2>4. CallsOK' /\ NoneLost'
    BY <1>1, <1>3, <1>5, <2>3, CallsKept, NoneLostKept
  <2> QED BY <1>4, <2>1, <2>2, <2>4, SMTT(60) DEF StorageInv
<1>6. CASE Start(Flusher, batch)
  <2> DEFINE c == [pc |-> "load", ops |-> batch, opt |-> FALSE, strict |-> sync]
  <2>1. call' = [call EXCEPT ![Flusher] = c] /\ call[Flusher] = Idle
    BY <1>6 DEF Start, StorageInv, CallsOK, FlusherAssumption
  <2>2. call'[Flusher] = c /\ \A u \in Threads \ {Flusher} : call'[u] = call[u]
    BY <2>1 DEF StorageInv, TypeOK, FlusherAssumption
  <2>3. c \in [pc : {"idle", "load", "write"}, ops : Seq(Op), opt : BOOLEAN, strict : BOOLEAN]
    BY DEF StorageInv, TypeOK
  <2>4. phase' \in {"apply", "final"} /\ phase \in {"check", "drain"}
    <3>1. call'[Flusher].pc # call[Flusher].pc
      BY <2>1, <2>2 DEF Idle
    <3> QED BY <3>1 DEF Check, Leave, Drained, storage
  <2>5. TypeOK'
    <3>1. call' \in [Threads -> [pc : {"idle", "load", "write"}, ops : Seq(Op), opt : BOOLEAN, strict : BOOLEAN]]
      BY <2>1, <2>3 DEF StorageInv, TypeOK
    <3>2. UNCHANGED <<overdue, answer>>
      BY DEF Check, Leave, Drained
    <3> QED BY <1>1, <2>4, <3>1, <3>2 DEF StorageInv, TypeOK
  <2>6. PhasesOK'
    <3>1. phase' = "final" => phase = "drain" /\ channel = <<>>
      BY DEF Check, Leave, Drained
    <3>2. call'[Flusher].pc = "load" /\ call'[Flusher].ops = batch
      BY <2>2
    <3> QED BY <1>1, <2>4, <3>1, <3>2 DEF StorageInv, PhasesOK
  <2>7. InCalls \subseteq InCalls'
    <3>1. Flusher \in Threads /\ Numbers(call[Flusher].ops) = {}
      BY <2>1, NumbersOfNone DEF Idle, FlusherAssumption
    <3> HIDE DEF c
    <3>2. InCalls' \cup Numbers(call[Flusher].ops) = InCalls \cup Numbers(c.ops)
      BY <2>1, <3>1, CallChanges, ZenonT(60)
    <3> QED BY <3>1, <3>2
  <2>8. Known \subseteq Known'
    BY <1>1, <2>7 DEF Known
  <2>9. \A i \in DOMAIN batch : batch[i].by = Flusher /\ batch[i].n < next
    BY BatchNumbered
  <2>10. CallsOK'
    BY <1>1, <2>2, <2>9 DEF StorageInv, CallsOK
  <2> QED BY <1>1, <1>4, <2>5, <2>6, <2>8, <2>10, NoneLostKept, SMTT(60) DEF StorageInv
<1> QED BY <1>5, <1>6 DEF Check, Leave, Drained, storage

\* A thread loads the flag.
LEMMA LoadStep ==
  ASSUME FlusherAssumption, StorageInv, NEW t \in Threads, LoadSync(t), UNCHANGED <<flusher, next, lost>>
  PROVE  StorageInv'
<1> DEFINE c == [call[t] EXCEPT !.pc = "write", !.opt = sync]
<1>1. UNCHANGED <<wal, ends, durable, sync, owed, next, lost, running, phase, owner, channel, batch>>
  BY DEF LoadSync, flusher
<1>2. call' = [call EXCEPT ![t] = c] /\ call[t].pc = "load"
  BY ZenonT(60) DEF LoadSync, StorageInv, TypeOK
<1>3. /\ c \in [pc : {"idle", "load", "write"}, ops : Seq(Op), opt : BOOLEAN, strict : BOOLEAN]
      /\ c.pc = "write" /\ c.opt = sync /\ c.ops = call[t].ops /\ c.strict = call[t].strict
  BY <1>1, ZenonT(60) DEF StorageInv, TypeOK
<1> HIDE DEF c
<1>4. call'[t] = c /\ \A u \in Threads \ {t} : call'[u] = call[u]
  BY <1>2 DEF StorageInv, TypeOK
<1>5. TypeOK'
  <2>1. call' \in [Threads -> [pc : {"idle", "load", "write"}, ops : Seq(Op), opt : BOOLEAN, strict : BOOLEAN]]
    BY <1>2, <1>3 DEF StorageInv, TypeOK
  <2> QED BY <1>1, <2>1 DEF StorageInv, TypeOK, flusher
<1>6. Buffered' = Buffered /\ next' \in Nat /\ next' >= next
  BY <1>1 DEF Buffered, StorageInv, TypeOK
<1>7. \A u \in Threads : /\ call'[u].pc = "idle" <=> call[u].pc = "idle"
                         /\ call'[u].ops = call[u].ops
  BY <1>2, <1>3, <1>4
<1>8. CallsOK'
  BY <1>1, <1>2, <1>3, <1>4, SMTT(60) DEF StorageInv, CallsOK
<1>9. PhasesOK'
  BY <1>1, <1>7 DEF StorageInv, PhasesOK, FlusherAssumption
<1>10. Known \subseteq Known'
  BY <1>1, <1>7, SMTT(60) DEF Known, InCalls
<1> QED BY <1>1, <1>5, <1>6, <1>8, <1>9, <1>10, PromiseKept, LogAndBuffersKept, NoneLostKept DEF StorageInv

\* A call ends, with or without success.
LEMMA CallEnds ==
  ASSUME StorageInv, NEW t \in Threads, call' = [call EXCEPT ![t] = Idle], sync' = sync, next' = next
  PROVE  /\ call' \in [Threads -> [pc : {"idle", "load", "write"}, ops : Seq(Op), opt : BOOLEAN, strict : BOOLEAN]]
         /\ call'[t] = Idle
         /\ \A u \in Threads \ {t} : call'[u] = call[u]
         /\ CallsOK'
         /\ InCalls \subseteq InCalls' \cup Numbers(call[t].ops)
<1>1. call'[t] = Idle /\ \A u \in Threads \ {t} : call'[u] = call[u]
  BY DEF StorageInv, TypeOK
<1>2. Idle \in [pc : {"idle", "load", "write"}, ops : Seq(Op), opt : BOOLEAN, strict : BOOLEAN]
  BY DEF Idle
<1>3. call' \in [Threads -> [pc : {"idle", "load", "write"}, ops : Seq(Op), opt : BOOLEAN, strict : BOOLEAN]]
  BY <1>2 DEF StorageInv, TypeOK
<1>4. InCalls' \cup Numbers(call[t].ops) = InCalls \cup Numbers(Idle.ops)
  BY CallChanges, ZenonT(60)
<1>5. Idle.strict = FALSE /\ Idle.pc = "idle" /\ DOMAIN Idle.ops = {}
  BY DEF Idle
<1>6. CallsOK'
  BY <1>1, <1>5 DEF StorageInv, CallsOK
<1> QED BY <1>1, <1>3, <1>4, <1>6

\* A write fails in a thread other than the flusher.
LEMMA DirectFails ==
  ASSUME FlusherAssumption, StorageInv, NEW t \in Threads \ {Flusher}, WriteFails(t),
         UNCHANGED <<flusher, next>>, lost' = lost \cup Numbers(call[t].ops)
  PROVE  StorageInv'
<1>1. UNCHANGED <<wal, ends, durable, sync, owed, next, running, phase, overdue, owner, answer, channel, batch>>
  BY DEF WriteFails, flusher
<1>2. call' = [call EXCEPT ![t] = Idle]
  BY DEF WriteFails
<1>3. Buffered' = Buffered /\ next' \in Nat /\ next' >= next
  BY <1>1 DEF Buffered, StorageInv, TypeOK
<1>4. lost' \subseteq 1..(next' - 1)
  BY <1>1, CallNumbers, ZenonT(60) DEF StorageInv, TypeOK
<1>5. TypeOK'
  BY <1>1, <1>2, <1>4, CallEnds, ZenonT(60) DEF StorageInv, TypeOK
<1>6. call'[Flusher] = call[Flusher]
  BY <1>1, <1>2, CallEnds DEF FlusherAssumption
<1>7. PhasesOK'
  BY <1>1, <1>6 DEF StorageInv, PhasesOK
<1>8. Known \subseteq Known'
  BY <1>1, <1>2, CallEnds, ZenonT(60) DEF Known
<1> QED BY <1>1, <1>2, <1>3, <1>5, <1>7, <1>8, CallEnds, PromiseKept, LogAndBuffersKept, NoneLostKept, ZenonT(60) DEF StorageInv

\* What a write does to the log.
LEMMA LogGrows ==
  ASSUME StorageInv, NEW t \in Threads, Write(t)
  PROVE  /\ wal' \in Seq(Op) /\ owed' \in Seq(Op)
         /\ ends' \subseteq 0..Len(wal') /\ Len(wal') \in ends' /\ durable' \in ends'
         /\ Promised'
         /\ Numbers(wal') = Numbers(wal) \cup Numbers(call[t].ops)
         /\ Len(wal') = Len(wal) + Len(call[t].ops)
         /\ \A i \in 1..Len(wal) : wal'[i] = wal[i]
         /\ \A i \in (Len(wal) + 1)..Len(wal') :
              i - Len(wal) \in DOMAIN call[t].ops /\ wal'[i] = call[t].ops[i - Len(wal)]
<1> DEFINE ops == call[t].ops
<1>1. wal \in Seq(Op) /\ ops \in Seq(Op)
  BY DEF StorageInv, TypeOK
<1>2. wal' = wal \o ops
  BY DEF Write
<1> HIDE DEF ops
<1>3. wal' \in Seq(Op) /\ Len(wal') = Len(wal) + Len(ops)
  BY <1>1, <1>2, Concatenation
<1>4. \A i \in 1..Len(wal) : wal'[i] = wal[i]
  BY <1>1, <1>2, Concatenation
<1>5. \A i \in (Len(wal) + 1)..Len(wal') : i - Len(wal) \in DOMAIN ops /\ wal'[i] = ops[i - Len(wal)]
  <2>1. \A i \in (Len(wal) + 1)..(Len(wal) + Len(ops)) : wal'[i] = ops[i - Len(wal)]
    BY <1>1, <1>2, Concatenation
  <2>2. DOMAIN ops = 1..Len(ops) /\ Len(ops) \in Nat /\ Len(wal) \in Nat
    BY <1>1
  <2> QED BY <1>3, <2>1, <2>2
<1>6. Numbers(wal') = Numbers(wal) \cup Numbers(ops)
  BY <1>1, <1>2, NumbersOfBoth
<1>7. Len(wal) \in Nat /\ Len(ops) \in Nat /\ Len(wal') \in Nat /\ Len(wal) <= Len(wal')
  BY <1>1, <1>3
<1>8. ends' = ends \cup {Len(wal')} /\ durable' \in {durable, Len(wal')} /\ durable \in ends /\ ends \subseteq 0..Len(wal)
  BY DEF Write, StorageInv, TypeOK
<1>9. ends' \subseteq 0..Len(wal') /\ Len(wal') \in ends' /\ durable' \in ends'
  <2>1. \A e \in ends : e \in 0..Len(wal')
    BY <1>7, <1>8
  <2>2. ends' \subseteq 0..Len(wal')
    <3>1. ASSUME NEW e \in ends' PROVE e \in 0..Len(wal')
      <4>1. e \in ends \/ e = Len(wal')
        BY <1>8
      <4> QED BY <1>7, <2>1, <4>1
    <3> QED BY <3>1
  <2>3. Len(wal') \in ends' /\ durable' \in ends'
    BY <1>8
  <2> QED BY <2>2, <2>3
<1>10. durable \in Nat /\ durable <= Len(wal) /\ durable <= durable'
  BY <1>7, <1>8
<1>11. owed' \in Seq(Op) /\ Promised'
  <2>1. CASE call[t].strict
    <3>1. call[t].opt /\ owed' = wal' /\ durable' = Len(wal')
      BY <2>1 DEF Write, StorageInv, CallsOK
    <3>2. Len(owed') <= durable' /\ \A i \in DOMAIN owed' : owed'[i] = wal'[i]
      BY <1>3, <1>7, <3>1
    <3> QED BY <1>3, <3>1, <3>2, SMTT(60) DEF Promised
  <2>2. CASE ~ call[t].strict
    <3>1. owed' = owed /\ owed \in Seq(Op) /\ Len(owed) <= durable /\ \A i \in DOMAIN owed : owed[i] = wal[i]
      BY <2>2 DEF Write, StorageInv, TypeOK, Promised
    <3>2. Len(owed) \in Nat /\ DOMAIN owed = 1..Len(owed)
      BY <3>1
    <3>3. Len(owed) <= durable'
      BY <1>10, <3>1, <3>2, <1>8, <1>7
    <3>4. \A i \in DOMAIN owed : i \in 1..Len(wal)
      BY <1>7, <1>10, <3>1, <3>2
    <3>5. \A i \in DOMAIN owed' : owed'[i] = wal'[i]
      BY <1>4, <3>1, <3>4, SMTT(60)
    <3> QED BY <3>1, <3>3, <3>5, SMTT(60) DEF Promised
  <2> QED BY <2>1, <2>2
<1> QED BY <1>3, <1>4, <1>5, <1>6, <1>9, <1>11 DEF ops

\* A thread other than the flusher writes.
LEMMA DirectWrites ==
  ASSUME FlusherAssumption, StorageInv, NEW t \in Threads \ {Flusher}, Write(t), UNCHANGED <<flusher, next, lost>>
  PROVE  StorageInv'
<1>1. UNCHANGED <<sync, next, lost, running, phase, overdue, owner, answer, channel, batch>>
  BY DEF Write, flusher
<1>2. call' = [call EXCEPT ![t] = Idle]
  BY DEF Write
<1>3. Buffered' = Buffered
  BY <1>1 DEF Buffered
<1>4. TypeOK'
  <2>1. call' \in [Threads -> [pc : {"idle", "load", "write"}, ops : Seq(Op), opt : BOOLEAN, strict : BOOLEAN]]
    BY <1>1, <1>2, CallEnds, ZenonT(60)
  <2>2. /\ wal' \in Seq(Op) /\ owed' \in Seq(Op)
        /\ ends' \subseteq 0..Len(wal') /\ Len(wal') \in ends' /\ durable' \in ends'
    BY LogGrows
  <2> QED BY <1>1, <2>1, <2>2, SMTT(60) DEF StorageInv, TypeOK
<1>5. call'[Flusher] = call[Flusher]
  BY <1>1, <1>2, CallEnds DEF FlusherAssumption
<1>6. PhasesOK'
  BY <1>1, <1>5 DEF StorageInv, PhasesOK
<1>7. \A i \in 1..Len(wal') : \/ i \in 1..Len(wal) /\ wal'[i] = wal[i]
                              \/ wal'[i].by = t /\ wal'[i].n < next
  <2> SUFFICES ASSUME NEW i \in 1..Len(wal'), i \notin 1..Len(wal)
               PROVE  wal'[i].by = t /\ wal'[i].n < next
    BY LogGrows
  <2>1. Len(wal) \in Nat /\ Len(wal') \in Nat
    BY LogGrows, SMTT(60) DEF StorageInv, TypeOK
  <2>2. i \in (Len(wal) + 1)..Len(wal')
    BY <2>1
  <2>3. i - Len(wal) \in DOMAIN call[t].ops /\ wal'[i] = call[t].ops[i - Len(wal)]
    BY <2>2, LogGrows, SMTT(60)
  <2> QED BY <2>3 DEF StorageInv, CallsOK
<1>8. DOMAIN wal' = 1..Len(wal') /\ DOMAIN wal = 1..Len(wal)
  BY LogGrows, SMTT(60) DEF StorageInv, TypeOK
<1>9. Numbered'
  BY <1>1, <1>3, <1>7, <1>8, SMTT(60) DEF StorageInv, Numbered
<1>10. InOrder'
  BY <1>1, <1>3, <1>7, <1>8, SMTT(60) DEF StorageInv, InOrder
<1>11. Known \subseteq Known'
  <2>1. InCalls \subseteq InCalls' \cup Numbers(call[t].ops)
    BY <1>1, <1>2, CallEnds, ZenonT(60)
  <2>2. Numbers(wal') = Numbers(wal) \cup Numbers(call[t].ops)
    BY LogGrows
  <2> QED BY <1>1, <2>1, <2>2, SMTT(60) DEF Known
<1> QED BY <1>1, <1>2, <1>4, <1>6, <1>9, <1>10, <1>11, CallEnds, LogGrows, NoneLostKept, ZenonT(60) DEF StorageInv
=============================================================================
