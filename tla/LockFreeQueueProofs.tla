------------------------ MODULE LockFreeQueueProofs -------------------------
(***************************************************************************)
(* LockFreeQueue is correct for every capacity of at least two, and every  *)
(* number of producers, consumers and calls: its invariant, the properties *)
(* that follow, and that it implements BoundedQueue.                       *)
(***************************************************************************)
EXTENDS LockFreeQueueSteps

\* Releasing makes the cell free for the position Capacity further on.
LEMMA DeqReleaseStep ==
  ASSUME QueueInv, TypeOK', NEW c \in Consumers, DeqRelease(c)
  PROVE  QueueInv'
<1> DEFINE e == enqueue_pos
           i == Cell(pos[c])
<1>1. /\ e \in Nat /\ dequeue_pos \in Nat /\ sequence \in [Cells -> Nat]
      /\ \A t \in Threads : pos[t] \in Nat
      /\ c \in Threads /\ Producers \subseteq Threads /\ Consumers \subseteq Threads
      /\ dequeue_pos <= e
  BY ZenonT(60) DEF QueueInv, TypeOK, Threads
<1>2. /\ pc[c] = "release" /\ pc'[c] = "idle" /\ \A t \in Threads \ {c} : pc'[t] = pc[t]
      /\ UNCHANGED <<data, enqueue_pos, dequeue_pos, pos, item, accepted>>
  BY <1>1, ZenonT(60) DEF DeqRelease, Goto, QueueInv, TypeOK
<1>3. /\ \A q \in Producers : (Writing(q)' <=> Writing(q)) /\ q # c
      /\ \A b \in Consumers : Reading(b)' <=> Reading(b) /\ b # c
      /\ Reading(c)
  BY <1>1, <1>2, ThreadsAssumption, ZenonT(60) DEF Writing, Reading
<1>4. /\ i \in Cells /\ sequence'[i] = pos[c] + Capacity
      /\ \A j \in Cells \ {i} : sequence'[j] = sequence[j]
  BY <1>1, CellType, ZenonT(60) DEF DeqRelease
<1>5. /\ pos[c] < dequeue_pos /\ e <= pos[c] + Capacity /\ sequence[i] = pos[c] + 1
  BY <1>3, ZenonT(60) DEF QueueInv, ConsumerInv
<1>6. CellsInv'
  <2> SUFFICES ASSUME NEW n \in e .. (e + Capacity - 1)
               PROVE  FreeFor(n)' \/ Published(n)' \/ BeingWritten(n)'
    BY <1>2, ZenonT(60) DEF CellsInv
  <2>1. FreeFor(n) \/ Published(n) \/ BeingWritten(n)
    BY ZenonT(60) DEF QueueInv, CellsInv
  <2>2. Cell(n) \in Cells
    BY <1>1, CellType, CapacityAssumption, SMTT(60)
  <2>3. CASE Cell(n) = i
    <3>1. n = pos[c] + Capacity
      BY <1>1, <1>5, <2>3, NextInCell, SMTT(60)
    <3> QED BY <1>1, <1>2, <1>4, <1>5, <2>3, <3>1, CapacityAssumption, SMTT(60) DEF FreeFor
  <2>4. CASE Cell(n) # i
    <3>1. sequence'[Cell(n)] = sequence[Cell(n)]
      BY <1>4, <2>2, <2>4, ZenonT(60)
    <3>2. CASE FreeFor(n)
      BY <1>2, <3>1, <3>2, ZenonT(60) DEF FreeFor
    <3>3. CASE Published(n)
      <4>1. pos[c] # n - Capacity
        <5> SUFFICES ASSUME pos[c] = n - Capacity PROVE FALSE
          OBVIOUS
        <5>1. n = pos[c] + Capacity
          BY <1>1, CapacityAssumption, SMTT(60)
        <5> QED BY <1>1, <2>4, <5>1, CellPeriodic, ZenonT(60)
      <4> QED BY <1>2, <1>3, <3>1, <3>3, <4>1, ZenonT(60) DEF Published
    <3>4. CASE BeingWritten(n)
      BY <1>2, <1>3, <3>1, <3>4, ZenonT(60) DEF BeingWritten
    <3> QED BY <2>1, <3>2, <3>3, <3>4, ZenonT(60)
  <2> QED BY <2>3, <2>4, ZenonT(60)
<1>7. ASSUME NEW q \in Producers PROVE ProducerInv(q)'
  <2>1. ProducerInv(q) /\ pos[q] \in Nat /\ Cell(pos[q]) \in Cells
    BY <1>1, CellType, ZenonT(60) DEF QueueInv
  <2>2. ASSUME Writing(q) PROVE Cell(pos[q]) # i
    BY <1>1, <1>5, <2>1, <2>2, SameCell, CapacityAssumption, SMTT(60) DEF ProducerInv
  <2>3. pos[q] < e \/ pc[q] = "cas" => sequence'[Cell(pos[q])] >= pos[q]
    BY <1>1, <1>4, <1>5, <2>1, CapacityAssumption, SMTT(60) DEF ProducerInv
  <2> QED BY <1>1, <1>2, <1>3, <1>4, <2>1, <2>2, <2>3, ZenonT(60) DEF ProducerInv
<1>8. ASSUME NEW b \in Consumers PROVE ConsumerInv(b)'
  <2>1. ConsumerInv(b) /\ pos[b] \in Nat /\ Cell(pos[b]) \in Cells
    BY <1>1, CellType, ZenonT(60) DEF QueueInv
  <2>2. CASE b = c
    BY <1>1, <1>2, <1>3, <1>4, <2>1, <2>2, CapacityAssumption, SMTT(60) DEF ConsumerInv
  <2>3. CASE b # c
    <3>1. ASSUME Reading(b) PROVE Cell(pos[b]) # i
      <4>1. pos[b] # pos[c]
        BY <1>3, <2>3, <3>1, ZenonT(60) DEF QueueInv
      <4> QED BY <1>1, <1>5, <2>1, <3>1, <4>1, SameCell, CapacityAssumption, SMTT(60) DEF ConsumerInv
    <3>2. pos[b] < dequeue_pos \/ pc[b] = "cas" => sequence'[Cell(pos[b])] >= pos[b] + 1
      BY <1>1, <1>4, <1>5, <2>1, CapacityAssumption, SMTT(60) DEF ConsumerInv
    <3> QED BY <1>1, <1>2, <1>3, <1>4, <2>1, <2>3, <3>1, <3>2, ZenonT(60) DEF ConsumerInv
  <2> QED BY <2>2, <2>3, ZenonT(60)
<1> QED BY <1>2, <1>3, <1>6, <1>7, <1>8, ZenonT(60) DEF QueueInv

\* Every step keeps the invariant.
LEMMA InvStep == QueueInv /\ [Next]_vars => QueueInv'
<1> SUFFICES ASSUME QueueInv, [Next]_vars PROVE QueueInv'
  OBVIOUS
<1>t. TypeOK /\ TypeOK'
  BY TypeStep, ZenonT(60) DEF QueueInv
<1>u. Producers \subseteq Threads /\ Consumers \subseteq Threads
  BY ZenonT(60) DEF Threads
<1>1. ASSUME NEW p \in Producers, EnqCall(p) PROVE QueueInv'
  <2>1. ProducerInv(p) /\ TypeOK
    BY ZenonT(60) DEF QueueInv
  <2>2. /\ ~ Writing(p) /\ pc'[p] \in {"idle", "load", "reload", "cas"}
        /\ UNCHANGED <<sequence, data, enqueue_pos, dequeue_pos, accepted>>
    BY <1>u, <1>1, <2>1, ZenonT(60) DEF EnqCall, Goto, Writing, TypeOK
  <2>3. \A t \in Threads \ {p} : pc'[t] = pc[t] /\ pos'[t] = pos[t] /\ item'[t] = item[t]
    BY <1>u, <1>1, <2>1, ZenonT(60) DEF EnqCall, Goto, TypeOK
  <2>4. /\ pos'[p] <= enqueue_pos
        /\ pos'[p] < enqueue_pos => sequence[Cell(pos'[p])] >= pos'[p]
    BY <1>u, <1>1, <2>1, SMTT(60) DEF EnqCall, TypeOK, ProducerInv
  <2>5. pc'[p] = "cas" => sequence[Cell(pos'[p])] >= pos'[p]
    BY <1>u, <1>1, <2>1, ZenonT(60) DEF EnqCall, Goto, TypeOK
  <2> QED BY <1>t, <2>2, <2>3, <2>4, <2>5, UnownedProducerStep, ZenonT(60)
<1>2. ASSUME NEW p \in Producers, EnqLoad(p) PROVE QueueInv'
  <2>1. ProducerInv(p) /\ TypeOK
    BY DEF QueueInv
  <2>2. /\ ~ Writing(p) /\ pc'[p] \in {"idle", "load", "reload", "cas"}
        /\ UNCHANGED <<sequence, data, enqueue_pos, dequeue_pos, accepted>>
    BY <1>u, <1>2, <2>1, ZenonT(60) DEF EnqLoad, Goto, Writing, TypeOK
  <2>3. \A t \in Threads \ {p} : pc'[t] = pc[t] /\ pos'[t] = pos[t] /\ item'[t] = item[t]
    BY <1>u, <1>2, <2>1, ZenonT(60) DEF EnqLoad, Goto, TypeOK
  <2>4. /\ pos'[p] <= enqueue_pos
        /\ pos'[p] < enqueue_pos => sequence[Cell(pos'[p])] >= pos'[p]
    BY <1>u, <1>2, <2>1, ZenonT(60) DEF EnqLoad, TypeOK, ProducerInv
  <2>5. pc'[p] = "cas" => sequence[Cell(pos'[p])] >= pos'[p]
    BY <1>u, <1>2, <2>1, SMTT(60) DEF EnqLoad, Goto, TypeOK
  <2> QED BY <1>t, <2>2, <2>3, <2>4, <2>5, UnownedProducerStep, SMTT(60)
<1>3. ASSUME NEW p \in Producers, EnqReload(p) PROVE QueueInv'
  <2>1. ProducerInv(p) /\ TypeOK
    BY DEF QueueInv
  <2>2. /\ ~ Writing(p) /\ pc'[p] \in {"idle", "load", "reload", "cas"}
        /\ UNCHANGED <<sequence, data, enqueue_pos, dequeue_pos, accepted>>
    BY <1>u, <1>3, <2>1, ZenonT(60) DEF EnqReload, Goto, Writing, TypeOK
  <2>3. \A t \in Threads \ {p} : pc'[t] = pc[t] /\ pos'[t] = pos[t] /\ item'[t] = item[t]
    BY <1>u, <1>3, <2>1, ZenonT(60) DEF EnqReload, Goto, TypeOK
  <2>4. /\ pos'[p] <= enqueue_pos
        /\ pos'[p] < enqueue_pos => sequence[Cell(pos'[p])] >= pos'[p]
    BY <1>u, <1>3, <2>1, SMTT(60) DEF EnqReload, TypeOK, ProducerInv
  <2>5. pc'[p] = "cas" => sequence[Cell(pos'[p])] >= pos'[p]
    BY <1>u, <1>3, <2>1, ZenonT(60) DEF EnqReload, Goto, TypeOK
  <2> QED BY <1>t, <2>2, <2>3, <2>4, <2>5, UnownedProducerStep, SMTT(60)
<1>4. ASSUME NEW p \in Producers, EnqClaimFails(p) PROVE QueueInv'
  <2>1. ProducerInv(p) /\ TypeOK
    BY DEF QueueInv
  <2>2. /\ ~ Writing(p) /\ pc'[p] \in {"idle", "load", "reload", "cas"}
        /\ UNCHANGED <<sequence, data, enqueue_pos, dequeue_pos, accepted>>
    BY <1>u, <1>4, <2>1, ZenonT(60) DEF EnqClaimFails, Goto, Writing, TypeOK
  <2>3. \A t \in Threads \ {p} : pc'[t] = pc[t] /\ pos'[t] = pos[t] /\ item'[t] = item[t]
    BY <1>u, <1>4, <2>1, ZenonT(60) DEF EnqClaimFails, Goto, TypeOK
  <2>4. /\ pos'[p] <= enqueue_pos
        /\ pos'[p] < enqueue_pos => sequence[Cell(pos'[p])] >= pos'[p]
    BY <1>u, <1>4, <2>1, ZenonT(60) DEF EnqClaimFails, TypeOK, ProducerInv
  <2>5. pc'[p] = "cas" => sequence[Cell(pos'[p])] >= pos'[p]
    BY <1>u, <1>4, <2>1, ZenonT(60) DEF EnqClaimFails, Goto, TypeOK
  <2> QED BY <1>t, <2>2, <2>3, <2>4, <2>5, UnownedProducerStep
<1>5. ASSUME NEW c \in Consumers, DeqCall(c) PROVE QueueInv'
  <2>1. ConsumerInv(c) /\ TypeOK
    BY ZenonT(60) DEF QueueInv
  <2>2. /\ ~ Reading(c) /\ pc'[c] \in {"idle", "load", "reload", "cas"}
        /\ UNCHANGED <<sequence, data, enqueue_pos, dequeue_pos, accepted>>
    BY <1>u, <1>5, <2>1, ZenonT(60) DEF DeqCall, Goto, Reading, TypeOK
  <2>3. \A t \in Threads \ {c} : pc'[t] = pc[t] /\ pos'[t] = pos[t] /\ item'[t] = item[t]
    BY <1>u, <1>5, <2>1, ZenonT(60) DEF DeqCall, Goto, TypeOK
  <2>4. /\ pos'[c] <= dequeue_pos
        /\ pos'[c] < dequeue_pos => sequence[Cell(pos'[c])] >= pos'[c] + 1
    BY <1>u, <1>5, <2>1, SMTT(60) DEF DeqCall, TypeOK, ConsumerInv
  <2>5. pc'[c] = "cas" => sequence[Cell(pos'[c])] >= pos'[c] + 1
    BY <1>u, <1>5, <2>1, ZenonT(60) DEF DeqCall, Goto, TypeOK
  <2> QED BY <1>t, <2>2, <2>3, <2>4, <2>5, UnownedConsumerStep, ZenonT(60)
<1>6. ASSUME NEW c \in Consumers, DeqLoad(c) PROVE QueueInv'
  <2>1. ConsumerInv(c) /\ TypeOK
    BY DEF QueueInv
  <2>2. /\ ~ Reading(c) /\ pc'[c] \in {"idle", "load", "reload", "cas"}
        /\ UNCHANGED <<sequence, data, enqueue_pos, dequeue_pos, accepted>>
    BY <1>u, <1>6, <2>1, ZenonT(60) DEF DeqLoad, Goto, Reading, TypeOK
  <2>3. \A t \in Threads \ {c} : pc'[t] = pc[t] /\ pos'[t] = pos[t] /\ item'[t] = item[t]
    BY <1>u, <1>6, <2>1, ZenonT(60) DEF DeqLoad, Goto, TypeOK
  <2>4. /\ pos'[c] <= dequeue_pos
        /\ pos'[c] < dequeue_pos => sequence[Cell(pos'[c])] >= pos'[c] + 1
    BY <1>u, <1>6, <2>1, ZenonT(60) DEF DeqLoad, TypeOK, ConsumerInv
  <2>5. pc'[c] = "cas" => sequence[Cell(pos'[c])] >= pos'[c] + 1
    BY <1>u, <1>6, <2>1, SMTT(60) DEF DeqLoad, Goto, TypeOK
  <2> QED BY <1>t, <2>2, <2>3, <2>4, <2>5, UnownedConsumerStep
<1>7. ASSUME NEW c \in Consumers, DeqReload(c) PROVE QueueInv'
  <2>1. ConsumerInv(c) /\ TypeOK
    BY DEF QueueInv
  <2>2. /\ ~ Reading(c) /\ pc'[c] \in {"idle", "load", "reload", "cas"}
        /\ UNCHANGED <<sequence, data, enqueue_pos, dequeue_pos, accepted>>
    BY <1>u, <1>7, <2>1, ZenonT(60) DEF DeqReload, Goto, Reading, TypeOK
  <2>3. \A t \in Threads \ {c} : pc'[t] = pc[t] /\ pos'[t] = pos[t] /\ item'[t] = item[t]
    BY <1>u, <1>7, <2>1, ZenonT(60) DEF DeqReload, Goto, TypeOK
  <2>4. /\ pos'[c] <= dequeue_pos
        /\ pos'[c] < dequeue_pos => sequence[Cell(pos'[c])] >= pos'[c] + 1
    BY <1>u, <1>7, <2>1, SMTT(60) DEF DeqReload, TypeOK, ConsumerInv
  <2>5. pc'[c] = "cas" => sequence[Cell(pos'[c])] >= pos'[c] + 1
    BY <1>u, <1>7, <2>1, ZenonT(60) DEF DeqReload, Goto, TypeOK
  <2> QED BY <1>t, <2>2, <2>3, <2>4, <2>5, UnownedConsumerStep
<1>8. ASSUME NEW c \in Consumers, DeqClaimFails(c) PROVE QueueInv'
  <2>1. ConsumerInv(c) /\ TypeOK
    BY DEF QueueInv
  <2>2. /\ ~ Reading(c) /\ pc'[c] \in {"idle", "load", "reload", "cas"}
        /\ UNCHANGED <<sequence, data, enqueue_pos, dequeue_pos, accepted>>
    BY <1>u, <1>8, <2>1, ZenonT(60) DEF DeqClaimFails, Goto, Reading, TypeOK
  <2>3. \A t \in Threads \ {c} : pc'[t] = pc[t] /\ pos'[t] = pos[t] /\ item'[t] = item[t]
    BY <1>u, <1>8, <2>1, ZenonT(60) DEF DeqClaimFails, Goto, TypeOK
  <2>4. /\ pos'[c] <= dequeue_pos
        /\ pos'[c] < dequeue_pos => sequence[Cell(pos'[c])] >= pos'[c] + 1
    BY <1>u, <1>8, <2>1, ZenonT(60) DEF DeqClaimFails, TypeOK, ConsumerInv
  <2>5. pc'[c] = "cas" => sequence[Cell(pos'[c])] >= pos'[c] + 1
    BY <1>u, <1>8, <2>1, ZenonT(60) DEF DeqClaimFails, Goto, TypeOK
  <2> QED BY <1>t, <2>2, <2>3, <2>4, <2>5, UnownedConsumerStep
<1>9. CASE UNCHANGED vars
  <2>1. CellsInv'
    BY <1>9, CellsUnchanged, ZenonT(60) DEF QueueInv, vars, Writing, Reading
  <2> QED
    BY <1>t, <1>9, <2>1, ZenonT(60) DEF QueueInv, vars, Writing, Reading, ProducerInv, ConsumerInv
<1> QED
  BY <1>t, <1>1, <1>2, <1>3, <1>4, <1>5, <1>6, <1>7, <1>8, <1>9, EnqClaimStep, EnqWriteStep,
     EnqPublishStep, DeqClaimStep, DeqReadStep, DeqReleaseStep, SMTT(60) DEF Next, Enqueue, Dequeue

\* Every cell's sequence number agrees, at every step of every interleaving,
\* with the two positions and with the thread that owns the cell.
THEOREM Invariance == Spec => []QueueInv
BY InvInit, InvStep, PTL DEF Spec

-----------------------------------------------------------------------------
\* Consequences of the invariant.

\* No data race: the unsynchronised accesses to a cell's data (lines 74-79 and
\* 107-111) of two different threads never concern the same cell.
THEOREM NoDataRace == Spec => []CellExclusive
<1>1. QueueInv => CellExclusive
  <2> SUFFICES ASSUME QueueInv, NEW t \in Threads, NEW u \in Threads, t # u,
                      Writing(t) \/ Reading(t), Writing(u) \/ Reading(u),
                      Cell(pos[t]) = Cell(pos[u])
               PROVE  FALSE
    BY ZenonT(60) DEF CellExclusive
  <2>1. /\ enqueue_pos \in Nat /\ dequeue_pos \in Nat /\ pos[t] \in Nat /\ pos[u] \in Nat
        /\ dequeue_pos <= enqueue_pos
    BY ZenonT(60) DEF QueueInv, TypeOK
  <2>2. /\ Writing(t) => t \in Producers /\ ProducerInv(t)
        /\ Writing(u) => u \in Producers /\ ProducerInv(u)
        /\ Reading(t) => t \in Consumers /\ ConsumerInv(t)
        /\ Reading(u) => u \in Consumers /\ ConsumerInv(u)
    BY ZenonT(60) DEF QueueInv, TypeOK, Threads
  <2>3. /\ pos[t] < enqueue_pos /\ enqueue_pos <= pos[t] + Capacity
        /\ pos[u] < enqueue_pos /\ enqueue_pos <= pos[u] + Capacity
    BY <2>1, <2>2, CapacityAssumption, SMTT(60) DEF ProducerInv, ConsumerInv
  <2>4. pos[t] = pos[u]
    BY <2>1, <2>3, SameCell, CapacityAssumption, SMTT(60)
  <2>5. CASE Writing(t) /\ Writing(u)
    BY <2>2, <2>4, <2>5, ZenonT(60) DEF QueueInv
  <2>6. CASE Reading(t) /\ Reading(u)
    BY <2>2, <2>4, <2>6, ZenonT(60) DEF QueueInv
  <2>7. CASE Writing(t) /\ Reading(u)
    BY <2>1, <2>2, <2>4, <2>7, SMTT(60) DEF ProducerInv, ConsumerInv
  <2>8. CASE Reading(t) /\ Writing(u)
    BY <2>1, <2>2, <2>4, <2>8, SMTT(60) DEF ProducerInv, ConsumerInv
  <2> QED BY <2>5, <2>6, <2>7, <2>8, ZenonT(60)
<1> QED BY <1>1, Invariance, PTL

\* No uninitialised, stale or torn read: a consumer extracts the item accepted
\* at the position it claimed (line 109).
THEOREM ReadsAreAccepted == Spec => []ReadsAccepted
<1>1. QueueInv => ReadsAccepted
  <2> SUFFICES ASSUME QueueInv, NEW c \in Consumers
               PROVE  /\ Reading(c) => /\ pos[c] < Len(accepted)
                                       /\ data[Cell(pos[c])] = accepted[pos[c] + 1]
                      /\ pc[c] = "release" => item[c] = accepted[pos[c] + 1]
    BY ZenonT(60) DEF ReadsAccepted
  <2>1. enqueue_pos \in Nat /\ dequeue_pos \in Nat /\ pos[c] \in Nat
    BY ZenonT(60) DEF QueueInv, TypeOK, Threads
  <2> QED BY <2>1, SMTT(60) DEF QueueInv, ConsumerInv
<1> QED BY <1>1, Invariance, PTL

\* Claims are bounded: at most Capacity items are in the queue, and dequeue
\* never overtakes enqueue.
THEOREM Bounded == Spec => []BoundedOccupancy
<1>1. QueueInv => BoundedOccupancy
  BY CapacityAssumption, SMTT(60) DEF QueueInv, TypeOK, BoundedOccupancy
<1> QED BY <1>1, Invariance, PTL

-----------------------------------------------------------------------------
\* Refinement of the abstract bounded queue.

\* What is left of a sequence after its first d items.
LEMMA SuffixFacts ==
  ASSUME NEW a \in Seq(Items), NEW d \in Nat, d <= Len(a)
  PROVE  LET s == SubSeq(a, d + 1, Len(a)) IN
         /\ s \in Seq(Items)
         /\ Len(s) = Len(a) - d
         /\ \A i \in 1 .. (Len(a) - d) : s[i] = a[d + i]
         /\ s = <<>> <=> Len(a) = d
         /\ s # <<>> => Head(s) = a[d + 1]
<1> DEFINE s == SubSeq(a, d + 1, Len(a))
<1>1. Len(a) \in Nat /\ \A i \in (d + 1) .. Len(a) : a[i] \in Items
  BY ElementOfSeq
<1>2. /\ s \in Seq(Items)
      /\ Len(s) = IF d + 1 <= Len(a) THEN Len(a) - (d + 1) + 1 ELSE 0
      /\ \A i \in 1 .. (Len(a) - (d + 1) + 1) : s[i] = a[(d + 1) + i - 1]
  BY <1>1, SubSeqProperties
<1> HIDE DEF s
<1>3. Len(s) = Len(a) - d
  BY <1>1, <1>2
<1>4. ASSUME NEW i \in 1 .. (Len(a) - d) PROVE s[i] = a[d + i]
  <2>1. i \in 1 .. (Len(a) - (d + 1) + 1) /\ (d + 1) + i - 1 = d + i
    BY <1>1
  <2> QED BY <1>2, <2>1, ZenonT(60)
<1>5. s = <<>> <=> Len(a) = d
  BY <1>1, <1>2, <1>3, EmptySeq
<1>6. ASSUME s # <<>> PROVE Head(s) = a[d + 1]
  <2>1. 1 \in 1 .. (Len(a) - d)
    BY <1>1, <1>5, <1>6
  <2>2. Head(s) = s[1]
    BY <1>2, <1>6
  <2> QED BY <1>4, <2>1, <2>2, ZenonT(60)
<1> QED BY <1>2, <1>3, <1>4, <1>5, <1>6, ZenonT(60) DEF s

\* The abstract contents: their length and their head.
LEMMA ContentsFacts ==
  ASSUME QueueInv
  PROVE  /\ Contents \in Seq(Items)
         /\ Len(Contents) = enqueue_pos - dequeue_pos
         /\ \A i \in 1 .. (enqueue_pos - dequeue_pos) : Contents[i] = accepted[dequeue_pos + i]
         /\ Contents = <<>> <=> enqueue_pos = dequeue_pos
         /\ Contents # <<>> => Head(Contents) = accepted[dequeue_pos + 1]
<1>1. /\ accepted \in Seq(Items) /\ Len(accepted) = enqueue_pos
      /\ dequeue_pos \in Nat /\ dequeue_pos <= enqueue_pos
  BY ZenonT(60) DEF QueueInv, TypeOK
<1> QED BY <1>1, SuffixFacts, ZenonT(60) DEF Contents

\* The item a consumer reads is one of the accepted ones.
LEMMA ReadingPosition ==
  ASSUME QueueInv, NEW c \in Consumers, Reading(c)
  PROVE  /\ accepted \in Seq(Items) /\ pos[c] + 1 \in 1 .. Len(accepted)
         /\ accepted[pos[c] + 1] \in Items
<1>1. /\ pos[c] \in Nat /\ accepted \in Seq(Items) /\ Len(accepted) = enqueue_pos
      /\ enqueue_pos \in Nat /\ dequeue_pos \in Nat /\ dequeue_pos <= enqueue_pos
  BY ZenonT(60) DEF QueueInv, TypeOK, Threads
<1>2. pos[c] < dequeue_pos
  BY ZenonT(60) DEF QueueInv, ConsumerInv
<1>3. pos[c] + 1 \in 1 .. Len(accepted)
  BY <1>1, <1>2
<1> QED BY <1>1, <1>3, ElementOfSeq, ZenonT(60)

\* A successful compare-exchange of enqueue_pos appends the item.
LEMMA ClaimAppends ==
  ASSUME QueueInv, QueueInv', NEW p \in Producers, EnqClaim(p)
  PROVE  Contents' = Append(Contents, item[p])
<1> DEFINE s == Append(Contents, item[p])
<1>1. /\ enqueue_pos \in Nat /\ dequeue_pos \in Nat /\ dequeue_pos <= enqueue_pos
      /\ accepted \in Seq(Items) /\ Len(accepted) = enqueue_pos /\ item[p] \in Items
      /\ enqueue_pos' = enqueue_pos + 1 /\ dequeue_pos' = dequeue_pos
      /\ accepted' = Append(accepted, item[p])
  BY ZenonT(60) DEF QueueInv, TypeOK, EnqClaim
<1>2. /\ s \in Seq(Items) /\ Len(s) = enqueue_pos - dequeue_pos + 1
      /\ \A i \in 1 .. (enqueue_pos - dequeue_pos) : s[i] = accepted[dequeue_pos + i]
      /\ s[enqueue_pos - dequeue_pos + 1] = item[p]
  <2>1. /\ Contents \in Seq(Items) /\ Len(Contents) = enqueue_pos - dequeue_pos
        /\ \A i \in 1 .. (enqueue_pos - dequeue_pos) : Contents[i] = accepted[dequeue_pos + i]
    BY <1>1, ContentsFacts, ZenonT(60)
  <2>2. /\ s \in Seq(Items) /\ Len(s) = Len(Contents) + 1
        /\ \A i \in 1 .. Len(Contents) : s[i] = Contents[i]
        /\ s[Len(Contents) + 1] = item[p]
    BY <1>1, <2>1, AppendProperties, SMTT(60)
  <2> HIDE DEF s
  <2> QED BY <2>1, <2>2, ZenonT(60)
<1> HIDE DEF s
<1>3. /\ Len(accepted') = enqueue_pos + 1
      /\ Contents' \in Seq(Items) /\ Len(Contents') = Len(accepted') - dequeue_pos
      /\ \A i \in 1 .. (Len(accepted') - dequeue_pos) : Contents'[i] = accepted'[dequeue_pos + i]
  <2>1. accepted' \in Seq(Items) /\ Len(accepted') = enqueue_pos + 1 /\ dequeue_pos <= enqueue_pos + 1
    BY <1>1, AppendProperties
  <2>2. Contents' = SubSeq(accepted', dequeue_pos + 1, Len(accepted'))
    BY <1>1, <2>1, ZenonT(60) DEF Contents
  <2>3. /\ Contents' \in Seq(Items) /\ Len(Contents') = Len(accepted') - dequeue_pos
        /\ \A i \in 1 .. (Len(accepted') - dequeue_pos) : Contents'[i] = accepted'[dequeue_pos + i]
    BY <1>1, <2>1, <2>2, SuffixFacts, ZenonT(60)
  <2> QED BY <2>1, <2>3, ZenonT(60)
<1>4. ASSUME NEW i \in 1 .. (enqueue_pos - dequeue_pos + 1) PROVE Contents'[i] = s[i]
  <2>1. CASE i \in 1 .. Len(accepted) - dequeue_pos
    <3>1. dequeue_pos + i \in 1 .. Len(accepted)
      BY <1>1, <2>1, SMTT(60)
    <3>2. accepted'[dequeue_pos + i] = accepted[dequeue_pos + i]
      BY <1>1, <3>1, AppendProperties, SMTT(60)
    <3> QED BY <1>1, <1>2, <1>3, <2>1, <3>2, SMTT(60)
  <2>2. CASE i = Len(accepted) - dequeue_pos + 1
    <3>1. accepted'[Len(accepted) + 1] = item[p]
      BY <1>1, AppendProperties, SMTT(60)
    <3> QED BY <1>1, <1>2, <1>3, <2>2, <3>1, SMTT(60)
  <2> QED BY <1>1, <2>1, <2>2, SMTT(60)
<1>5. Len(Contents') = Len(s) /\ \A i \in 1 .. Len(Contents') : Contents'[i] = s[i]
  BY <1>1, <1>2, <1>3, <1>4, SMTT(60)
<1>6. Contents' = s
  BY <1>2, <1>3, <1>5, SeqEqual, ZenonT(60)
<1> QED BY <1>6, ZenonT(60) DEF s

\* A successful compare-exchange of dequeue_pos removes the head.
LEMMA ClaimRemovesHead ==
  ASSUME QueueInv, QueueInv', NEW c \in Consumers, DeqClaim(c)
  PROVE  /\ Contents # <<>>
         /\ Contents' = Tail(Contents)
         /\ Head(Contents) = accepted[pos[c] + 1]
<1>1. /\ enqueue_pos \in Nat /\ dequeue_pos \in Nat
      /\ accepted \in Seq(Items) /\ Len(accepted) = enqueue_pos
      /\ enqueue_pos' = enqueue_pos /\ dequeue_pos' = dequeue_pos + 1 /\ dequeue_pos' <= enqueue_pos'
      /\ accepted' = accepted /\ pos[c] = dequeue_pos
  BY ZenonT(60) DEF QueueInv, TypeOK, DeqClaim
<1>2. Contents # <<>> /\ Head(Contents) = accepted[pos[c] + 1]
  BY <1>1, ContentsFacts
<1>3. Contents' = SubSeq(accepted, dequeue_pos + 2, enqueue_pos)
  BY <1>1 DEF Contents
<1>4. Tail(SubSeq(accepted, dequeue_pos + 1, enqueue_pos)) = SubSeq(accepted, (dequeue_pos + 1) + 1, enqueue_pos)
  BY <1>1, HeadTailOfSubSeq
<1> QED BY <1>1, <1>2, <1>3, <1>4, ZenonT(60) DEF Contents

\* Full is answered only when Capacity items are in the queue or the item in
\* the cell is still being dequeued.
LEMMA FullIsJustified ==
  ASSUME QueueInv, NEW p \in Producers, pc[p] = "load", sequence[Cell(pos[p])] < pos[p]
  PROVE  \/ Len(Contents) = Capacity
         \/ \E c \in Consumers : Taken[c] # None
<1> DEFINE e == enqueue_pos
<1>1. /\ e \in Nat /\ dequeue_pos \in Nat /\ sequence \in [Cells -> Nat] /\ pos[p] \in Nat
      /\ dequeue_pos <= e /\ e <= dequeue_pos + Capacity /\ Cell(pos[p]) \in Cells
  BY CellType, ZenonT(60) DEF QueueInv, TypeOK, Threads
<1>2. pos[p] = e
  BY <1>1, SMTT(60) DEF QueueInv, ProducerInv
<1>3. Published(e) \/ BeingWritten(e)
  BY <1>1, <1>2, CapacityAssumption, SMTT(60) DEF QueueInv, CellsInv, FreeFor
<1>4. CASE e - Capacity >= dequeue_pos
  BY <1>1, <1>4, ContentsFacts, CapacityAssumption
<1>5. CASE ~ (e - Capacity >= dequeue_pos)
  <2>1. PICK c \in Consumers : Reading(c)
    BY <1>3, <1>5, ZenonT(60) DEF Published, BeingWritten
  <2>2. accepted[pos[c] + 1] \in Items
    BY <2>1, ReadingPosition, ZenonT(60)
  <2> QED BY <2>1, <2>2, NoneAssumption, ZenonT(60) DEF Taken
<1> QED BY <1>4, <1>5, ZenonT(60)

\* Only the load of a sequence below the position makes enqueue give up.
LEMMA GivesUpOnLoad ==
  ASSUME TypeOK, NEW p \in Producers, pc[p] = "load", pc'[p] = "idle", [Next]_vars
  PROVE  sequence[Cell(pos[p])] < pos[p]
<1>1. /\ pc \in [Threads -> {"idle", "load", "reload", "cas", "write", "publish", "read", "release"}]
      /\ p \in Threads /\ p \notin Consumers
      /\ Producers \subseteq Threads /\ Consumers \subseteq Threads
  BY ThreadsAssumption, ZenonT(60) DEF TypeOK, Threads
<1>2. ASSUME NEW t \in Threads, t # p, NEW l, Goto(t, l) PROVE FALSE
  BY <1>1, <1>2, ZenonT(60) DEF Goto
<1>3. ASSUME NEW c \in Consumers, Dequeue(c) PROVE FALSE
  BY <1>1, <1>2, <1>3, ZenonT(60) DEF Dequeue, DeqCall, DeqLoad, DeqReload, DeqClaim, DeqClaimFails, DeqRead, DeqRelease
<1>4. ASSUME NEW q \in Producers, q # p, Enqueue(q) PROVE FALSE
  BY <1>1, <1>2, <1>4, ZenonT(60) DEF Enqueue, EnqCall, EnqLoad, EnqReload, EnqClaim, EnqClaimFails, EnqWrite, EnqPublish
<1>5. ASSUME Enqueue(p) PROVE sequence[Cell(pos[p])] < pos[p]
  <2>1. EnqLoad(p)
    BY <1>5, ZenonT(60) DEF Enqueue, EnqCall, EnqReload, EnqClaim, EnqClaimFails, EnqWrite, EnqPublish
  <2>2. ~ Goto(p, "cas") /\ ~ Goto(p, "reload")
    BY <1>1, ZenonT(60) DEF Goto
  <2> QED BY <2>1, <2>2, ZenonT(60) DEF EnqLoad
<1> QED BY <1>3, <1>4, <1>5, ZenonT(60) DEF Next, vars

\* enqueue answers Full only when every cell is occupied, or its next cell is
\* in the hands of a consumer that has claimed it and not yet released it.
THEOREM FullIsFull == Spec => FullMeansFull
<1>1. ASSUME QueueInv, [Next]_vars, NEW p \in Producers, pc[p] = "load", pc'[p] = "idle"
      PROVE  \/ enqueue_pos - dequeue_pos = Capacity
             \/ \E c \in Consumers : Reading(c) /\ pos[c] = enqueue_pos - Capacity
  <2> DEFINE e == enqueue_pos
  <2>1. sequence[Cell(pos[p])] < pos[p]
    BY <1>1, GivesUpOnLoad, ZenonT(60) DEF QueueInv
  <2>2. /\ e \in Nat /\ dequeue_pos \in Nat /\ sequence \in [Cells -> Nat] /\ pos[p] \in Nat
        /\ dequeue_pos <= e /\ e <= dequeue_pos + Capacity /\ Cell(pos[p]) \in Cells
    BY <1>1, CellType, ZenonT(60) DEF QueueInv, TypeOK, Threads
  <2>3. pos[p] = e
    BY <1>1, <2>1, <2>2, SMTT(60) DEF QueueInv, ProducerInv
  <2>4. Published(e) \/ BeingWritten(e)
    BY <1>1, <2>1, <2>2, <2>3, CapacityAssumption, SMTT(60) DEF QueueInv, CellsInv, FreeFor
  <2>5. CASE e - Capacity >= dequeue_pos
    BY <2>2, <2>5, CapacityAssumption
  <2>6. CASE ~ (e - Capacity >= dequeue_pos)
    BY <2>4, <2>6, ZenonT(60) DEF Published, BeingWritten
  <2> QED BY <2>5, <2>6, ZenonT(60)
<1>2. QueueInv /\ [Next]_vars => [\A p \in Producers :
        pc[p] = "load" /\ pc'[p] = "idle" =>
          \/ enqueue_pos - dequeue_pos = Capacity
          \/ \E c \in Consumers : Reading(c) /\ pos[c] = enqueue_pos - Capacity]_vars
  BY <1>1, ZenonT(60)
<1> QED BY <1>2, Invariance, PTL DEF Spec, FullMeansFull

\* Empty is answered only when nothing is in the queue or the enqueue of the
\* head has not returned.
LEMMA EmptyIsJustified ==
  ASSUME QueueInv, NEW c \in Consumers, pc[c] = "load", sequence[Cell(pos[c])] < pos[c] + 1
  PROVE  \/ Contents = <<>>
         \/ \E p \in Producers : Committed[p] = Head(Contents)
<1> DEFINE e == enqueue_pos
           d == dequeue_pos
<1>1. /\ e \in Nat /\ d \in Nat /\ sequence \in [Cells -> Nat] /\ pos[c] \in Nat
      /\ d <= e /\ e <= d + Capacity /\ Cell(pos[c]) \in Cells
  BY CellType, ZenonT(60) DEF QueueInv, TypeOK, Threads
<1>2. pos[c] = d
  BY <1>1, SMTT(60) DEF QueueInv, ConsumerInv
<1>3. SUFFICES ASSUME d < e PROVE \E p \in Producers : Committed[p] = Head(Contents)
  BY <1>1, ContentsFacts, SMTT(60)
<1>4. d + Capacity \in e .. (e + Capacity - 1) /\ (d + Capacity) - Capacity = d
  BY <1>1, <1>3, CapacityAssumption, SMTT(60)
<1>5. Cell(d + Capacity) = Cell(d)
  BY <1>1, CellPeriodic, ZenonT(60)
<1>6. FreeFor(d + Capacity) \/ Published(d + Capacity) \/ BeingWritten(d + Capacity)
  BY <1>4, ZenonT(60) DEF QueueInv, CellsInv
<1>7. BeingWritten(d + Capacity)
  BY <1>1, <1>2, <1>4, <1>5, <1>6, CapacityAssumption, SMTT(60) DEF FreeFor, Published
<1>8. PICK p \in Producers : Writing(p) /\ pos[p] = d
  BY <1>4, <1>7, ZenonT(60) DEF BeingWritten
<1>9. Committed[p] = accepted[d + 1]
  BY <1>8, ZenonT(60) DEF Committed, QueueInv, ProducerInv
<1>10. Head(Contents) = accepted[d + 1]
  BY <1>1, <1>3, ContentsFacts, SMTT(60)
<1> QED BY <1>9, <1>10, ZenonT(60)

\* A step of a thread that owns no cell, before or after, is at most a change of
\* its own answer.
LEMMA UnownedStepRefines ==
  ASSUME NEW t \in Threads, ~ Writing(t), ~ Reading(t), ~ Writing(t)', ~ Reading(t)',
         UNCHANGED <<enqueue_pos, dequeue_pos, accepted>>,
         \A u \in Threads \ {t} : pc'[u] = pc[u] /\ pos'[u] = pos[u] /\ item'[u] = item[u]
  PROVE  UNCHANGED <<Contents, Committed, Taken>>
<1>1. Contents' = Contents
  BY ZenonT(60) DEF Contents
<1>2. Committed' = Committed
  <2>1. \A p \in Producers : (IF Writing(p)' THEN item'[p] ELSE None) = (IF Writing(p) THEN item[p] ELSE None)
    BY ZenonT(60) DEF Threads, Writing
  <2> QED BY <2>1, ZenonT(60) DEF Committed
<1>3. Taken' = Taken
  <2>1. \A c \in Consumers : (IF Reading(c)' THEN accepted'[pos'[c] + 1] ELSE None)
                            = (IF Reading(c) THEN accepted[pos[c] + 1] ELSE None)
    BY ZenonT(60) DEF Threads, Reading
  <2> QED BY <2>1, ZenonT(60) DEF Taken
<1> QED BY <1>1, <1>2, <1>3, ZenonT(60)

\* Every step of a producer is an abstract step or a stutter.
LEMMA EnqueueRefines ==
  ASSUME QueueInv, QueueInv', NEW p \in Producers, Enqueue(p)
  PROVE  Abstract!Next \/ UNCHANGED Abstract!vars
<1>1. TypeOK /\ TypeOK' /\ p \in Threads /\ p \notin Consumers
      /\ Producers \subseteq Threads /\ Consumers \subseteq Threads
  BY ThreadsAssumption, ZenonT(60) DEF QueueInv, Threads
<1>2. ASSUME EnqCall(p) PROVE Abstract!Call(p)
  <2>1. UNCHANGED <<Contents, Committed, Taken>>
    BY <1>1, <1>2, UnownedStepRefines, ZenonT(60) DEF EnqCall, Goto, Writing, Reading, TypeOK
  <2> QED BY <1>2, <2>1, ZenonT(60) DEF EnqCall, Reply, Abstract!Call
<1>3. ASSUME EnqLoad(p) PROVE Abstract!Full(p) \/ UNCHANGED Abstract!vars
  <2>1. UNCHANGED <<Contents, Committed, Taken>>
    BY <1>1, <1>3, UnownedStepRefines, ZenonT(60) DEF EnqLoad, Goto, Writing, Reading, TypeOK
  <2>2. CASE result' = result
    BY <2>1, <2>2, ZenonT(60) DEF Abstract!vars
  <2>3. CASE sequence[Cell(pos[p])] < pos[p] /\ Reply(p, Err("Full"))
    <3>1. \/ Len(Contents) = Capacity
          \/ \E c \in Consumers : Taken[c] # None
      BY <1>3, <2>3, FullIsJustified, ZenonT(60) DEF EnqLoad
    <3>2. Committed[p] = None
      BY <1>3, ZenonT(60) DEF EnqLoad, Committed, Writing
    <3> QED BY <2>1, <2>3, <3>1, <3>2, ZenonT(60) DEF Reply, Err, Abstract!Full
  <2> QED BY <1>3, <2>2, <2>3, ZenonT(60) DEF EnqLoad
<1>4. ASSUME EnqReload(p) \/ EnqClaimFails(p) PROVE UNCHANGED Abstract!vars
  <2>1. UNCHANGED <<Contents, Committed, Taken>>
    BY <1>1, <1>4, UnownedStepRefines, ZenonT(60) DEF EnqReload, EnqClaimFails, Goto, Writing, Reading, TypeOK
  <2> QED BY <1>4, <2>1, ZenonT(60) DEF EnqReload, EnqClaimFails, Abstract!vars
<1>5. ASSUME EnqClaim(p) PROVE item[p] \in Items /\ Abstract!Commit(p, item[p])
  <2>1. Contents' = Append(Contents, item[p]) /\ item[p] \in Items
    BY <1>1, <1>5, ClaimAppends, ZenonT(60) DEF EnqClaim, TypeOK
  <2>2. Len(Contents) < Capacity
    <3>1. enqueue_pos' <= dequeue_pos' + Capacity /\ enqueue_pos \in Nat /\ dequeue_pos \in Nat
      BY ZenonT(60) DEF QueueInv, TypeOK
    <3> QED BY <1>5, <3>1, ContentsFacts, CapacityAssumption, SMTT(60) DEF EnqClaim
  <2>3. Committed[p] = None
    BY <1>5, ZenonT(60) DEF EnqClaim, Committed, Writing
  <2>4. Committed' = [Committed EXCEPT ![p] = item[p]]
    BY <1>1, <1>5, ZenonT(60) DEF EnqClaim, Goto, Committed, Writing, TypeOK
  <2>5. Taken' = Taken
    <3>1. \A c \in Consumers : Reading(c) => accepted'[pos[c] + 1] = accepted[pos[c] + 1]
      <4> TAKE c \in Consumers
      <4> HAVE Reading(c)
      <4>1. accepted \in Seq(Items) /\ pos[c] + 1 \in 1 .. Len(accepted)
        BY ReadingPosition, ZenonT(60)
      <4>2. accepted' = Append(accepted, item[p])
        BY <1>5, ZenonT(60) DEF EnqClaim
      <4> QED BY <2>1, <4>1, <4>2, AppendProperties, SMTT(60)
    <3>2. \A c \in Consumers : (Reading(c)' <=> Reading(c)) /\ pos'[c] = pos[c]
      BY <1>1, <1>5, ZenonT(60) DEF EnqClaim, Goto, Reading, TypeOK
    <3>3. \A c \in Consumers : (IF Reading(c)' THEN accepted'[pos'[c] + 1] ELSE None)
                              = (IF Reading(c) THEN accepted[pos[c] + 1] ELSE None)
      BY <3>1, <3>2
    <3> QED BY <3>3, ZenonT(60) DEF Taken
  <2> QED BY <1>5, <2>1, <2>2, <2>3, <2>4, <2>5, ZenonT(60) DEF EnqClaim, Abstract!Commit
<1>6. ASSUME EnqWrite(p) PROVE UNCHANGED Abstract!vars
  BY <1>1, <1>6 DEF EnqWrite, Goto, Writing, Reading, TypeOK, Contents, Committed, Taken, Abstract!vars
<1>7. ASSUME EnqPublish(p) PROVE Abstract!Return(p)
  <2>1. Contents' = Contents
    BY <1>7, ZenonT(60) DEF EnqPublish, Contents
  <2>2. Taken' = Taken
    BY <1>1, <1>7, ZenonT(60) DEF EnqPublish, Goto, Reading, TypeOK, Taken
  <2>3. Committed[p] # None
    BY <1>1, <1>7, NoneAssumption, ZenonT(60) DEF EnqPublish, Writing, TypeOK, Committed
  <2>4. Committed' = [Committed EXCEPT ![p] = None]
    BY <1>1, <1>7, ZenonT(60) DEF EnqPublish, Goto, Writing, TypeOK, Committed
  <2> QED BY <1>7, <2>1, <2>2, <2>3, <2>4, ZenonT(60) DEF EnqPublish, Reply, Ok, Abstract!Return
<1> QED BY <1>1, <1>2, <1>3, <1>4, <1>5, <1>6, <1>7, ZenonT(60) DEF Enqueue, Threads, Abstract!Next

\* Every step of a consumer is an abstract step or a stutter.
LEMMA DequeueRefines ==
  ASSUME QueueInv, QueueInv', NEW c \in Consumers, Dequeue(c)
  PROVE  Abstract!Next \/ UNCHANGED Abstract!vars
<1>1. TypeOK /\ TypeOK' /\ c \in Threads /\ c \notin Producers
      /\ Producers \subseteq Threads /\ Consumers \subseteq Threads
  BY ThreadsAssumption, ZenonT(60) DEF QueueInv, Threads
<1>2. ASSUME DeqCall(c) PROVE Abstract!Call(c)
  <2>1. UNCHANGED <<Contents, Committed, Taken>>
    BY <1>1, <1>2, UnownedStepRefines, ZenonT(60) DEF DeqCall, Goto, Writing, Reading, TypeOK
  <2> QED BY <1>2, <2>1, ZenonT(60) DEF DeqCall, Reply, Abstract!Call
<1>3. ASSUME DeqLoad(c) PROVE Abstract!Empty(c) \/ UNCHANGED Abstract!vars
  <2>1. UNCHANGED <<Contents, Committed, Taken>>
    BY <1>1, <1>3, UnownedStepRefines, ZenonT(60) DEF DeqLoad, Goto, Writing, Reading, TypeOK
  <2>2. CASE result' = result
    BY <2>1, <2>2 DEF Abstract!vars
  <2>3. CASE sequence[Cell(pos[c])] < pos[c] + 1 /\ Reply(c, Err("Empty"))
    <3>1. \/ Contents = <<>>
          \/ \E p \in Producers : Committed[p] = Head(Contents)
      BY <1>3, <2>3, EmptyIsJustified, ZenonT(60) DEF DeqLoad
    <3>2. Taken[c] = None
      BY <1>3, ZenonT(60) DEF DeqLoad, Taken, Reading
    <3> QED BY <2>1, <2>3, <3>1, <3>2, ZenonT(60) DEF Reply, Err, Abstract!Empty
  <2> QED BY <1>3, <2>2, <2>3, ZenonT(60) DEF DeqLoad
<1>4. ASSUME DeqReload(c) \/ DeqClaimFails(c) PROVE UNCHANGED Abstract!vars
  <2>1. UNCHANGED <<Contents, Committed, Taken>>
    BY <1>1, <1>4, UnownedStepRefines, ZenonT(60) DEF DeqReload, DeqClaimFails, Goto, Writing, Reading, TypeOK
  <2> QED BY <1>4, <2>1, ZenonT(60) DEF DeqReload, DeqClaimFails, Abstract!vars
<1>5. ASSUME DeqClaim(c) PROVE Abstract!Take(c)
  <2>1. Contents # <<>> /\ Contents' = Tail(Contents) /\ Head(Contents) = accepted[pos[c] + 1]
    BY <1>5, ClaimRemovesHead, ZenonT(60)
  <2>2. Taken[c] = None
    BY <1>5, ZenonT(60) DEF DeqClaim, Taken, Reading
  <2>3. Taken' = [Taken EXCEPT ![c] = Head(Contents)]
    BY <1>1, <1>5, <2>1, ZenonT(60) DEF DeqClaim, Goto, Taken, Reading, TypeOK
  <2>4. Committed' = Committed
    BY <1>1, <1>5, ZenonT(60) DEF DeqClaim, Goto, Committed, Writing, TypeOK
  <2> QED BY <1>5, <2>1, <2>2, <2>3, <2>4, ZenonT(60) DEF DeqClaim, Abstract!Take
<1>6. ASSUME DeqRead(c) PROVE UNCHANGED Abstract!vars
  BY <1>1, <1>6, ZenonT(60) DEF DeqRead, Goto, Writing, Reading, TypeOK, Contents, Committed, Taken, Abstract!vars
<1>7. ASSUME DeqRelease(c) PROVE Abstract!Deliver(c)
  <2>1. Contents' = Contents
    BY <1>7, ZenonT(60) DEF DeqRelease, Contents
  <2>2. Committed' = Committed
    BY <1>1, <1>7, ZenonT(60) DEF DeqRelease, Goto, Committed, Writing, TypeOK
  <2>3. Taken[c] = accepted[pos[c] + 1] /\ item[c] = accepted[pos[c] + 1]
    BY <1>7, ZenonT(60) DEF DeqRelease, Taken, Reading, QueueInv, ConsumerInv
  <2>4. Taken[c] # None
    <3>1. Reading(c)
      BY <1>7, ZenonT(60) DEF DeqRelease, Reading
    <3> QED BY <2>3, <3>1, ReadingPosition, NoneAssumption, ZenonT(60)
  <2>5. Taken' = [Taken EXCEPT ![c] = None]
    BY <1>1, <1>7, ZenonT(60) DEF DeqRelease, Goto, Taken, Reading, TypeOK
  <2> QED BY <1>7, <2>1, <2>2, <2>3, <2>4, <2>5, ZenonT(60) DEF DeqRelease, Reply, Ok, Abstract!Deliver
<1> QED BY <1>1, <1>2, <1>3, <1>4, <1>5, <1>6, <1>7, ZenonT(60) DEF Dequeue, Threads, Abstract!Next

\* The lock-free queue implements the abstract bounded FIFO queue: items leave
\* in the order in which they were accepted, none is lost or duplicated, and
\* Full and Empty are answered only where the abstract queue may.
THEOREM Refinement == Spec => ImplementsQueue
<1>1. Init => Abstract!Init
  <2> SUFFICES ASSUME Init PROVE Abstract!Init
    OBVIOUS
  <2>1. Contents = <<>>
    BY SubSeqEmpty DEF Init, Contents
  <2> QED BY <2>1, ZenonT(60) DEF Init, Abstract!Init, Committed, Taken, Writing, Reading, Threads
<1>2. QueueInv /\ QueueInv' /\ [Next]_vars => [Abstract!Next]_(Abstract!vars)
  <2> SUFFICES ASSUME QueueInv, QueueInv', [Next]_vars
               PROVE  Abstract!Next \/ UNCHANGED Abstract!vars
    BY ZenonT(60)
  <2>1. CASE UNCHANGED vars
    BY <2>1, ZenonT(60) DEF vars, Abstract!vars, Contents, Committed, Taken, Writing, Reading
  <2> QED BY <2>1, EnqueueRefines, DequeueRefines, ZenonT(60) DEF Next
<1> QED BY <1>1, <1>2, Invariance, PTL DEF Spec, ImplementsQueue, Abstract!Spec
=============================================================================
