------------------------- MODULE LockFreeQueueSteps -------------------------
(***************************************************************************)
(* Facts about cells, type correctness of LockFreeQueue, and lemmas: the   *)
(* steps of producers and the first steps of consumers keep QueueInv.      *)
(***************************************************************************)
EXTENDS LockFreeQueue, SequenceTheorems, TLAPS

-----------------------------------------------------------------------------
\* The cell of a position ("pos & mask").

\* The cell of a position is a cell.
LEMMA CellType ==
  ASSUME NEW n \in Nat
  PROVE  Cell(n) \in Cells
BY CapacityAssumption DEF Cell, Cells

\* Positions less than Capacity apart have different cells.
LEMMA CellInjective ==
  ASSUME NEW m \in Nat, NEW n \in Nat, m < n, n < m + Capacity
  PROVE  Cell(m) # Cell(n)
<1> DEFINE q == m \div Capacity
           k == n \div Capacity
           r == m % Capacity
           s == n % Capacity
<1>1. Capacity \in Nat /\ Capacity >= 2
  BY CapacityAssumption, ZenonT(60)
<1>2. m = Capacity * q + r /\ q \in Int /\ r \in 0..(Capacity - 1)
  BY <1>1
<1>3. n = Capacity * k + s /\ k \in Int /\ s \in 0..(Capacity - 1)
  BY <1>1
<1> HIDE DEF q, k, r, s
<1>4. SUFFICES ASSUME r = s PROVE FALSE
  BY ZenonT(60) DEF r, s, Cell
<1>5. Capacity * (k - q) = n - m
  BY <1>1, <1>2, <1>3, <1>4
<1>6. CASE k - q >= 1
  <2>1. Capacity * (k - q) >= Capacity
    BY <1>1, <1>2, <1>3, <1>6
  <2> QED BY <2>1, <1>1, <1>5
<1>7. CASE k - q <= 0
  <2>1. Capacity * (k - q) <= 0
    BY <1>1, <1>2, <1>3, <1>7
  <2> QED BY <2>1, <1>5
<1> QED BY <1>2, <1>3, <1>6, <1>7

\* Positions that are Capacity apart share a cell.
LEMMA CellPeriodic ==
  ASSUME NEW n \in Nat
  PROVE  Cell(n + Capacity) = Cell(n)
<1> DEFINE q == n \div Capacity
           k == (n + Capacity) \div Capacity
           r == n % Capacity
           s == (n + Capacity) % Capacity
<1>1. Capacity \in Nat /\ Capacity >= 2
  BY CapacityAssumption, ZenonT(60)
<1>2. n = Capacity * q + r /\ q \in Int /\ r \in 0..(Capacity - 1)
  BY <1>1
<1>3. n + Capacity = Capacity * k + s /\ k \in Int /\ s \in 0..(Capacity - 1)
  BY <1>1
<1> HIDE DEF q, k, r, s
<1>4. Capacity * (k - q - 1) = r - s
  BY <1>1, <1>2, <1>3
<1>5. CASE k - q - 1 >= 1
  <2>1. Capacity * (k - q - 1) >= Capacity
    BY <1>1, <1>2, <1>3, <1>5
  <2> QED BY <2>1, <1>1, <1>2, <1>3, <1>4
<1>6. CASE k - q - 1 <= -1
  <2>1. Capacity * (k - q - 1) <= -Capacity
    BY <1>1, <1>2, <1>3, <1>6
  <2> QED BY <2>1, <1>1, <1>2, <1>3, <1>4
<1>7. CASE k - q - 1 = 0
  <2>1. r = s
    BY <1>1, <1>2, <1>3, <1>4, <1>7
  <2> QED BY <2>1, ZenonT(60) DEF r, s, Cell
<1> QED BY <1>2, <1>3, <1>5, <1>6, <1>7

-----------------------------------------------------------------------------
\* Type correctness.

\* A new queue is well typed.
LEMMA TypeInit == Init => TypeOK
BY CapacityAssumption, CallsAssumption, SMTT(60)
DEF Init, TypeOK, Threads, Cells, Writing, Reading

\* Every step keeps the types.
LEMMA TypeStep == TypeOK /\ [Next]_vars => TypeOK'
<1> SUFFICES ASSUME TypeOK, [Next]_vars PROVE TypeOK'
  OBVIOUS
<1> USE CapacityAssumption, CallsAssumption, ThreadsAssumption
    DEF TypeOK, Threads, Goto, Reply, Writing, Reading
<1>1. \A n \in Nat : Cell(n) \in Cells
  BY CellType, ZenonT(60)
<1>r. /\ Err("Full") \in Results /\ Err("Empty") \in Results
      /\ Ok(None) \in Results
  BY ZenonT(60) DEF Results, Ok, Err
<1>2. ASSUME NEW p \in Producers, EnqCall(p) PROVE TypeOK'
  BY <1>2, SMTT(60) DEF EnqCall, Items
<1>3. ASSUME NEW p \in Producers, EnqLoad(p) PROVE TypeOK'
  <2>1. result' \in [Threads -> Results \cup {None}]
    BY <1>3, <1>r, ZenonT(60) DEF EnqLoad
  <2> QED
    BY <2>1, <1>3, ZenonT(60) DEF EnqLoad
<1>4. ASSUME NEW p \in Producers, EnqReload(p) PROVE TypeOK'
  BY <1>4, ZenonT(60) DEF EnqReload
<1>5. ASSUME NEW p \in Producers, EnqClaim(p) PROVE TypeOK'
  BY <1>5 DEF EnqClaim
<1>6. ASSUME NEW p \in Producers, EnqClaimFails(p) PROVE TypeOK'
  BY <1>6, ZenonT(60) DEF EnqClaimFails
<1>7. ASSUME NEW p \in Producers, EnqWrite(p) PROVE TypeOK'
  BY <1>1, <1>7, ZenonT(60) DEF EnqWrite
<1>8. ASSUME NEW p \in Producers, EnqPublish(p) PROVE TypeOK'
  <2>1. result' \in [Threads -> Results \cup {None}]
    BY <1>8, <1>r, ZenonT(60) DEF EnqPublish
  <2>2. sequence' \in [Cells -> Nat]
    <3>1. pos[p] \in Nat /\ pos[p] + 1 \in Nat
      OBVIOUS
    <3> QED BY <3>1, <1>8, ZenonT(60) DEF EnqPublish
  <2> QED
    BY <2>1, <2>2, <1>1, <1>8, ZenonT(60) DEF EnqPublish
<1>9. ASSUME NEW c \in Consumers, DeqCall(c) PROVE TypeOK'
  BY <1>9, ZenonT(60) DEF DeqCall
<1>10. ASSUME NEW c \in Consumers, DeqLoad(c) PROVE TypeOK'
  BY <1>10, <1>r, ZenonT(60) DEF DeqLoad
<1>11. ASSUME NEW c \in Consumers, DeqReload(c) PROVE TypeOK'
  BY <1>11, ZenonT(60) DEF DeqReload
<1>12. ASSUME NEW c \in Consumers, DeqClaim(c) PROVE TypeOK'
  BY <1>12 DEF DeqClaim
<1>13. ASSUME NEW c \in Consumers, DeqClaimFails(c) PROVE TypeOK'
  BY <1>13, ZenonT(60) DEF DeqClaimFails
<1>14. ASSUME NEW c \in Consumers, DeqRead(c) PROVE TypeOK'
  BY <1>1, <1>14, ZenonT(60) DEF DeqRead
<1>15. ASSUME NEW c \in Consumers, DeqRelease(c) PROVE TypeOK'
  <2>0. Ok(item[c]) \in Results
    BY ZenonT(60) DEF Results, Ok
  <2>1. result' \in [Threads -> Results \cup {None}]
    BY <2>0, <1>15, ZenonT(60) DEF DeqRelease
  <2>2. sequence' \in [Cells -> Nat]
    <3>1. pos[c] \in Nat /\ pos[c] + Capacity \in Nat
      OBVIOUS
    <3> QED BY <3>1, <1>15, ZenonT(60) DEF DeqRelease
  <2> QED
    BY <2>1, <2>2, <1>1, <1>15, ZenonT(60) DEF DeqRelease
<1>16. CASE UNCHANGED vars
  BY <1>16, ZenonT(60) DEF vars
<1> QED
  BY <1>2, <1>3, <1>4, <1>5, <1>6, <1>7, <1>8, <1>9, <1>10, <1>11, <1>12,
     <1>13, <1>14, <1>15, <1>16, ZenonT(60) DEF Next, Enqueue, Dequeue

\* Type correctness of the queue's shared and local state, through every
\* interleaving of enqueue and dequeue.
THEOREM TypeCorrect == Spec => []TypeOK
BY TypeInit, TypeStep, PTL DEF Spec

-----------------------------------------------------------------------------
\* The inductive invariant.

\* Positions less than Capacity apart that share a cell are equal.
LEMMA SameCell ==
  ASSUME NEW m \in Nat, NEW n \in Nat, m < n + Capacity, n < m + Capacity, Cell(m) = Cell(n)
  PROVE  m = n
<1>1. CASE m < n
  BY <1>1, CellInjective, ZenonT(60)
<1>2. CASE n < m
  BY <1>2, CellInjective, ZenonT(60)
<1> QED BY <1>1, <1>2

\* The one position among the next Capacity positions that shares its cell
\* with an already claimed position m.
LEMMA NextInCell ==
  ASSUME NEW e \in Nat, NEW n \in e .. (e + Capacity - 1),
         NEW m \in Nat, m < e, e <= m + Capacity, Cell(n) = Cell(m)
  PROVE  n = m + Capacity
<1>1. n \in Nat /\ m + Capacity \in Nat
  BY CapacityAssumption
<1>2. Cell(m + Capacity) = Cell(n)
  BY CellPeriodic, ZenonT(60)
<1>3. n < (m + Capacity) + Capacity /\ m + Capacity < n + Capacity
  BY CapacityAssumption
<1> QED BY <1>1, <1>2, <1>3, SameCell, ZenonT(60)

\* A cell's state depends on the threads only through those that own a cell.
LEMMA CellsUnchanged ==
  ASSUME CellsInv,
         UNCHANGED <<sequence, data, enqueue_pos, dequeue_pos, accepted>>,
         \A p \in Producers : Writing(p) => Writing(p)' /\ pos'[p] = pos[p],
         \A c \in Consumers : Reading(c) => Reading(c)' /\ pos'[c] = pos[c]
  PROVE  CellsInv'
<1> SUFFICES ASSUME NEW n \in enqueue_pos .. (enqueue_pos + Capacity - 1)
             PROVE  FreeFor(n)' \/ Published(n)' \/ BeingWritten(n)'
  BY ZenonT(60) DEF CellsInv
<1>1. CASE FreeFor(n)
  BY <1>1, ZenonT(60) DEF FreeFor
<1>2. CASE Published(n)
  BY <1>2, ZenonT(60) DEF Published
<1>3. CASE BeingWritten(n)
  BY <1>3, ZenonT(60) DEF BeingWritten
<1> QED BY <1>1, <1>2, <1>3, ZenonT(60) DEF CellsInv

\* The invariant holds for a new queue: every cell is free.
LEMMA InvInit == Init => QueueInv
<1> SUFFICES ASSUME Init PROVE QueueInv
  OBVIOUS
<1>1. TypeOK
  BY TypeInit, ZenonT(60)
<1>2. CellsInv
  <2> SUFFICES ASSUME NEW n \in 0 .. (Capacity - 1) PROVE FreeFor(n)
    BY CapacityAssumption DEF Init, CellsInv
  <2>1. Cell(n) = n
    BY CapacityAssumption DEF Cell
  <2> QED BY <2>1, CapacityAssumption DEF Init, FreeFor, Cells
<1>3. Len(accepted) = enqueue_pos /\ dequeue_pos <= enqueue_pos /\ enqueue_pos <= dequeue_pos + Capacity
  BY CapacityAssumption DEF Init
<1> QED
  BY <1>1, <1>2, <1>3 DEF Init, QueueInv, ProducerInv, ConsumerInv, Writing, Reading, Threads

\* Before its compare-exchange a thread owns no cell: such a step leaves the
\* cells and the other threads alone.
LEMMA UnownedProducerStep ==
  ASSUME QueueInv, TypeOK', NEW p \in Producers, ~ Writing(p), pc'[p] \in {"idle", "load", "reload", "cas"},
         UNCHANGED <<sequence, data, enqueue_pos, dequeue_pos, accepted>>,
         \A t \in Threads \ {p} : pc'[t] = pc[t] /\ pos'[t] = pos[t] /\ item'[t] = item[t],
         pos'[p] <= enqueue_pos,
         pos'[p] < enqueue_pos => sequence[Cell(pos'[p])] >= pos'[p],
         pc'[p] = "cas" => sequence[Cell(pos'[p])] >= pos'[p]
  PROVE  QueueInv'
<1> USE ThreadsAssumption DEF Threads
<1>1. CellsInv'
  BY CellsUnchanged, ZenonT(60) DEF QueueInv, Writing, Reading
<1>2. \A q \in Producers : ProducerInv(q)'
  BY SMTT(60) DEF QueueInv, ProducerInv, Writing
<1>3. \A c \in Consumers : ConsumerInv(c)'
  BY SMTT(60) DEF QueueInv, ConsumerInv, Reading
<1> QED BY <1>1, <1>2, <1>3, SMTT(60) DEF QueueInv, Writing, Reading

\* A step of a consumer that changes only its own locals and owns no cell.
LEMMA UnownedConsumerStep ==
  ASSUME QueueInv, TypeOK', NEW c \in Consumers, ~ Reading(c), pc'[c] \in {"idle", "load", "reload", "cas"},
         UNCHANGED <<sequence, data, enqueue_pos, dequeue_pos, accepted>>,
         \A t \in Threads \ {c} : pc'[t] = pc[t] /\ pos'[t] = pos[t] /\ item'[t] = item[t],
         pos'[c] <= dequeue_pos,
         pos'[c] < dequeue_pos => sequence[Cell(pos'[c])] >= pos'[c] + 1,
         pc'[c] = "cas" => sequence[Cell(pos'[c])] >= pos'[c] + 1
  PROVE  QueueInv'
<1> USE ThreadsAssumption DEF Threads
<1>1. CellsInv'
  BY CellsUnchanged, ZenonT(60) DEF QueueInv, Writing, Reading
<1>2. \A q \in Producers : ProducerInv(q)'
  BY SMTT(60) DEF QueueInv, ProducerInv, Writing
<1>3. \A b \in Consumers : ConsumerInv(b)'
  BY SMTT(60) DEF QueueInv, ConsumerInv, Reading
<1> QED BY <1>1, <1>2, <1>3, SMTT(60) DEF QueueInv, Writing, Reading

\* The position a producer claims has a free cell.
LEMMA EnqClaimStep ==
  ASSUME QueueInv, TypeOK', NEW p \in Producers, EnqClaim(p)
  PROVE  QueueInv'
<1> DEFINE e == enqueue_pos
<1>1. /\ e \in Nat /\ dequeue_pos \in Nat /\ sequence \in [Cells -> Nat]
      /\ \A t \in Threads : pos[t] \in Nat
      /\ accepted \in Seq(Items) /\ Len(accepted) = e /\ item[p] \in Items
      /\ p \in Threads /\ Producers \subseteq Threads /\ Consumers \subseteq Threads
  BY ZenonT(60) DEF QueueInv, TypeOK, EnqClaim, Threads
<1>2. /\ pc[p] = "cas" /\ pos[p] = e /\ enqueue_pos' = e + 1 /\ accepted' = Append(accepted, item[p])
      /\ UNCHANGED <<sequence, data, dequeue_pos, pos, item>>
      /\ pc'[p] = "write" /\ \A t \in Threads \ {p} : pc'[t] = pc[t]
  BY <1>1, ZenonT(60) DEF EnqClaim, Goto, QueueInv, TypeOK
<1>3. /\ \A q \in Producers : Writing(q)' <=> Writing(q) \/ q = p
      /\ \A c \in Consumers : (Reading(c)' <=> Reading(c)) /\ c # p
      /\ ~ Writing(p)
  BY <1>1, <1>2, ThreadsAssumption, ZenonT(60) DEF Writing, Reading
<1>4. sequence[Cell(e)] = e /\ e < dequeue_pos + Capacity
  <2>1. FreeFor(e) \/ Published(e) \/ BeingWritten(e)
    BY <1>1, CapacityAssumption, SMTT(60) DEF QueueInv, CellsInv
  <2>2. sequence[Cell(e)] >= e
    BY <1>2, ZenonT(60) DEF QueueInv, ProducerInv
  <2> QED BY <1>1, <2>1, <2>2, CapacityAssumption DEF FreeFor, Published, BeingWritten
<1>5. /\ Len(accepted') = e + 1 /\ accepted'[e + 1] = item[p]
      /\ \A k \in 1..e : accepted'[k] = accepted[k]
  BY <1>1, <1>2, AppendProperties
<1>6. CellsInv'
  <2> SUFFICES ASSUME NEW n \in (e + 1) .. (e + Capacity)
               PROVE  FreeFor(n)' \/ Published(n)' \/ BeingWritten(n)'
    BY <1>1, <1>2, CapacityAssumption, SMTT(60) DEF CellsInv
  <2>1. CASE n = e + Capacity
    <3>1. Cell(n) = Cell(e)
      BY <1>1, <2>1, CellPeriodic, ZenonT(60)
    <3>0. n - Capacity = e /\ n >= Capacity
      BY <1>1, <2>1, CapacityAssumption
    <3>2. dequeue_pos <= e
      BY ZenonT(60) DEF QueueInv
    <3> QED BY <1>2, <1>3, <1>4, <3>0, <3>1, <3>2, ZenonT(60) DEF BeingWritten
  <2>2. CASE n < e + Capacity
    <3>1. FreeFor(n) \/ Published(n) \/ BeingWritten(n)
      BY <1>1, <2>2, CapacityAssumption, SMTT(60) DEF QueueInv, CellsInv
    <3>2. CASE FreeFor(n)
      BY <1>2, <3>2, ZenonT(60) DEF FreeFor
    <3>3. CASE Published(n)
      <4>1. n - Capacity + 1 \in 1..e
        BY <1>1, <2>2, <3>3, CapacityAssumption DEF Published
      <4>2. accepted'[n - Capacity + 1] = accepted[n - Capacity + 1]
        BY <1>5, <4>1, ZenonT(60)
      <4> QED BY <1>2, <1>3, <3>3, <4>2, ZenonT(60) DEF Published
    <3>4. CASE BeingWritten(n)
      BY <1>2, <1>3, <3>4, ZenonT(60) DEF BeingWritten
    <3> QED BY <3>1, <3>2, <3>3, <3>4, ZenonT(60)
  <2> QED BY <1>1, <2>1, <2>2, CapacityAssumption
<1>7. ASSUME NEW q \in Producers PROVE ProducerInv(q)'
  <2>1. CASE q = p
    BY <1>1, <1>2, <1>4, <1>5, <2>1, CapacityAssumption, SMTT(60) DEF QueueInv, ProducerInv
  <2>2. CASE q # p
    <3>1. ProducerInv(q) /\ pos[q] \in Nat
      BY <1>1, ZenonT(60) DEF QueueInv
    <3>2. Writing(q) => pos[q] + Capacity # e
      <4>1. Cell(pos[q] + Capacity) = Cell(pos[q])
        BY <3>1, CellPeriodic, ZenonT(60)
      <4> QED BY <1>1, <1>4, <3>1, <4>1, CapacityAssumption DEF ProducerInv
    <3>3. Writing(q) => accepted'[pos[q] + 1] = accepted[pos[q] + 1]
      BY <1>1, <1>5, <3>1, SMTT(60) DEF ProducerInv
    <3>4. pc'[q] = pc[q] /\ (Writing(q)' <=> Writing(q))
      BY <1>1, <1>2, <1>3, <2>2, ZenonT(60)
    <3>5. pos[q] < e + 1 => sequence[Cell(pos[q])] >= pos[q]
      BY <1>1, <1>4, <3>1, SMTT(60) DEF ProducerInv
    <3>6. pos[q] <= e + 1 /\ (Writing(q) => pos[q] < e + 1 /\ e + 1 <= pos[q] + Capacity)
      <4>1. pos[q] <= e /\ (Writing(q) => e <= pos[q] + Capacity)
        BY <3>1, ZenonT(60) DEF ProducerInv
      <4>2. e \in Nat
        BY <1>1, ZenonT(60)
      <4> QED BY <3>1, <3>2, <4>1, <4>2, CapacityAssumption, SMTT(60)
    <3> QED BY <1>2, <3>1, <3>3, <3>4, <3>5, <3>6, ZenonT(60) DEF ProducerInv
  <2> QED BY <2>1, <2>2, ZenonT(60)
<1>8. ASSUME NEW c \in Consumers PROVE ConsumerInv(c)'
  <2>1. ConsumerInv(c) /\ pos[c] \in Nat
    BY <1>1, ZenonT(60) DEF QueueInv
  <2>2. Reading(c) => pos[c] + Capacity # e
    <3>1. Cell(pos[c] + Capacity) = Cell(pos[c])
      BY <2>1, CellPeriodic, ZenonT(60)
    <3> QED BY <1>1, <1>4, <2>1, <3>1, CapacityAssumption DEF ConsumerInv
  <2>3. Reading(c) => accepted'[pos[c] + 1] = accepted[pos[c] + 1]
    BY <1>1, <1>5, <2>1, SMTT(60) DEF ConsumerInv, QueueInv
  <2>4. pc'[c] = pc[c] /\ (Reading(c)' <=> Reading(c)) /\ (pc[c] = "release" => Reading(c))
    BY <1>1, <1>2, <1>3, ZenonT(60) DEF Reading
  <2>5. Reading(c) => e + 1 <= pos[c] + Capacity
    <3>1. Reading(c) => e <= pos[c] + Capacity
      BY <2>1, ZenonT(60) DEF ConsumerInv
    <3>2. e \in Nat
      BY <1>1, ZenonT(60)
    <3> QED BY <2>1, <2>2, <3>1, <3>2, CapacityAssumption, SMTT(60)
  <2> QED BY <1>2, <2>1, <2>3, <2>4, <2>5, ZenonT(60) DEF ConsumerInv
<1>9. \A q, r \in Producers : q # r /\ Writing(q)' /\ Writing(r)' => pos'[q] # pos'[r]
  BY <1>1, <1>2, <1>3, SMTT(60) DEF QueueInv, ProducerInv
<1>10. \A c, d \in Consumers : c # d /\ Reading(c)' /\ Reading(d)' => pos'[c] # pos'[d]
  BY <1>2, <1>3, ZenonT(60) DEF QueueInv
<1>11. Len(accepted)' = enqueue_pos' /\ dequeue_pos' <= enqueue_pos' /\ enqueue_pos' <= dequeue_pos' + Capacity
  BY <1>1, <1>2, <1>4, <1>5, CapacityAssumption, SMTT(60) DEF QueueInv
<1> QED BY <1>6, <1>7, <1>8, <1>9, <1>10, <1>11, ZenonT(60) DEF QueueInv

\* Writing the data of an owned cell keeps the invariant.
LEMMA EnqWriteStep ==
  ASSUME QueueInv, TypeOK', NEW p \in Producers, EnqWrite(p)
  PROVE  QueueInv'
<1> DEFINE e == enqueue_pos
           i == Cell(pos[p])
<1>1. /\ e \in Nat /\ dequeue_pos \in Nat /\ data \in [Cells -> Items \cup {None}]
      /\ \A t \in Threads : pos[t] \in Nat
      /\ p \in Threads /\ Producers \subseteq Threads /\ Consumers \subseteq Threads
  BY ZenonT(60) DEF QueueInv, TypeOK, Threads
<1>2. /\ pc[p] = "write" /\ pc'[p] = "publish" /\ \A t \in Threads \ {p} : pc'[t] = pc[t]
      /\ UNCHANGED <<sequence, enqueue_pos, dequeue_pos, pos, item, accepted>>
  BY <1>1, ZenonT(60) DEF EnqWrite, Goto, QueueInv, TypeOK
<1>3. /\ \A q \in Producers : Writing(q)' <=> Writing(q)
      /\ \A c \in Consumers : (Reading(c)' <=> Reading(c)) /\ c # p
      /\ Writing(p)
  BY <1>1, <1>2, ThreadsAssumption, ZenonT(60) DEF Writing, Reading
<1>4. i \in Cells /\ data'[i] = item[p] /\ \A j \in Cells \ {i} : data'[j] = data[j]
  BY <1>1, CellType, ZenonT(60) DEF EnqWrite
<1>5. /\ dequeue_pos <= pos[p] /\ pos[p] < e /\ e <= pos[p] + Capacity
      /\ sequence[i] = pos[p] /\ item[p] = accepted[pos[p] + 1]
  BY <1>3, ZenonT(60) DEF QueueInv, ProducerInv
<1>6. CellsInv'
  <2> SUFFICES ASSUME NEW n \in e .. (e + Capacity - 1)
               PROVE  FreeFor(n)' \/ Published(n)' \/ BeingWritten(n)'
    BY <1>2, ZenonT(60) DEF CellsInv
  <2>1. FreeFor(n) \/ Published(n) \/ BeingWritten(n)
    BY ZenonT(60) DEF QueueInv, CellsInv
  <2>2. CASE FreeFor(n)
    BY <1>2, <2>2, ZenonT(60) DEF FreeFor
  <2>3. CASE Published(n)
    <3>1. Cell(n) # i
      <4> SUFFICES ASSUME Cell(n) = i PROVE FALSE
        OBVIOUS
      <4>1. n = pos[p] + Capacity
        BY <1>1, <1>5, NextInCell, ZenonT(60)
      <4> QED BY <1>1, <1>5, <2>3, <4>1, CapacityAssumption DEF Published
    <3>2. Cell(n) \in Cells
      BY <1>1, CellType, CapacityAssumption
    <3> QED BY <1>2, <1>3, <1>4, <2>3, <3>1, <3>2, ZenonT(60) DEF Published
  <2>4. CASE BeingWritten(n)
    BY <1>2, <1>3, <2>4, ZenonT(60) DEF BeingWritten
  <2> QED BY <2>1, <2>2, <2>3, <2>4, ZenonT(60)
<1>7. ASSUME NEW q \in Producers PROVE ProducerInv(q)'
  <2>1. ProducerInv(q) /\ pos[q] \in Nat
    BY <1>1, ZenonT(60) DEF QueueInv
  <2>2. CASE q = p
    BY <1>2, <1>3, <1>4, <2>1, <2>2, ZenonT(60) DEF ProducerInv
  <2>3. CASE q # p
    <3>1. ASSUME pc[q] = "publish" PROVE Cell(pos[q]) # i
      <4>1. Writing(q) /\ pos[q] # pos[p]
        BY <1>3, <2>3, <3>1, ZenonT(60) DEF QueueInv, Writing
      <4> QED BY <1>1, <1>5, <2>1, <4>1, SameCell, CapacityAssumption, ZenonT(60) DEF ProducerInv
    <3>2. Cell(pos[q]) \in Cells
      BY <2>1, CellType, ZenonT(60)
    <3> QED BY <1>1, <1>2, <1>3, <1>4, <2>1, <2>3, <3>1, <3>2, ZenonT(60) DEF ProducerInv
  <2> QED BY <2>2, <2>3
<1>8. ASSUME NEW c \in Consumers PROVE ConsumerInv(c)'
  <2>1. ConsumerInv(c) /\ pos[c] \in Nat
    BY <1>1, ZenonT(60) DEF QueueInv
  <2>2. ASSUME Reading(c) PROVE Cell(pos[c]) # i
    BY <1>1, <1>5, <2>1, <2>2, SameCell, CapacityAssumption DEF ConsumerInv
  <2>3. Cell(pos[c]) \in Cells
    BY <2>1, CellType, ZenonT(60)
  <2> QED BY <1>1, <1>2, <1>3, <1>4, <2>1, <2>2, <2>3, ZenonT(60) DEF ConsumerInv
<1> QED BY <1>2, <1>3, <1>6, <1>7, <1>8, ZenonT(60) DEF QueueInv

\* Publishing turns the producer's own cell, and no other, into a readable one.
LEMMA EnqPublishStep ==
  ASSUME QueueInv, TypeOK', NEW p \in Producers, EnqPublish(p)
  PROVE  QueueInv'
<1> DEFINE e == enqueue_pos
           i == Cell(pos[p])
<1>1. /\ e \in Nat /\ dequeue_pos \in Nat /\ sequence \in [Cells -> Nat]
      /\ \A t \in Threads : pos[t] \in Nat
      /\ p \in Threads /\ Producers \subseteq Threads /\ Consumers \subseteq Threads
  BY ZenonT(60) DEF QueueInv, TypeOK, Threads
<1>2. /\ pc[p] = "publish" /\ pc'[p] = "idle" /\ \A t \in Threads \ {p} : pc'[t] = pc[t]
      /\ UNCHANGED <<data, enqueue_pos, dequeue_pos, pos, item, accepted>>
  BY <1>1, ZenonT(60) DEF EnqPublish, Goto, QueueInv, TypeOK
<1>3. /\ \A q \in Producers : Writing(q)' <=> Writing(q) /\ q # p
      /\ \A c \in Consumers : (Reading(c)' <=> Reading(c)) /\ c # p
      /\ Writing(p)
  BY <1>1, <1>2, ThreadsAssumption, ZenonT(60) DEF Writing, Reading
<1>4. i \in Cells /\ sequence'[i] = pos[p] + 1 /\ \A j \in Cells \ {i} : sequence'[j] = sequence[j]
  BY <1>1, CellType, ZenonT(60) DEF EnqPublish
<1>5. /\ dequeue_pos <= pos[p] /\ pos[p] < e /\ e <= pos[p] + Capacity
      /\ sequence[i] = pos[p] /\ item[p] = accepted[pos[p] + 1] /\ data[i] = item[p]
  BY <1>2, <1>3, ZenonT(60) DEF QueueInv, ProducerInv
<1>6. CellsInv'
  <2> SUFFICES ASSUME NEW n \in e .. (e + Capacity - 1)
               PROVE  FreeFor(n)' \/ Published(n)' \/ BeingWritten(n)'
    BY <1>2, ZenonT(60) DEF CellsInv
  <2>1. FreeFor(n) \/ Published(n) \/ BeingWritten(n)
    BY DEF QueueInv, CellsInv
  <2>2. Cell(n) \in Cells
    BY <1>1, CellType, CapacityAssumption, SMTT(60)
  <2>3. CASE Cell(n) = i
    <3>1. n = pos[p] + Capacity
      BY <1>1, <1>5, <2>3, NextInCell, ZenonT(60)
    <3>2. n >= Capacity /\ n - Capacity = pos[p] /\ n - Capacity + 1 = pos[p] + 1
      BY <1>1, <3>1, CapacityAssumption, SMTT(60)
    <3> QED BY <1>2, <1>4, <1>5, <2>3, <3>2, ZenonT(60) DEF Published
  <2>4. CASE Cell(n) # i
    <3>1. sequence'[Cell(n)] = sequence[Cell(n)]
      BY <1>4, <2>2, <2>4, ZenonT(60)
    <3>2. CASE FreeFor(n)
      BY <1>2, <3>1, <3>2, ZenonT(60) DEF FreeFor
    <3>3. CASE Published(n)
      BY <1>2, <1>3, <3>1, <3>3, ZenonT(60) DEF Published
    <3>4. CASE BeingWritten(n)
      <4>1. PICK q \in Producers : Writing(q) /\ pos[q] = n - Capacity
        BY <3>4, ZenonT(60) DEF BeingWritten
      <4>2. q # p
        <5> SUFFICES ASSUME q = p PROVE FALSE
          OBVIOUS
        <5>1. n = pos[p] + Capacity
          BY <1>1, <4>1, CapacityAssumption, SMTT(60)
        <5> QED BY <1>1, <2>4, <5>1, CellPeriodic, ZenonT(60)
      <4> QED BY <1>2, <1>3, <3>1, <3>4, <4>1, <4>2, ZenonT(60) DEF BeingWritten
    <3> QED BY <2>1, <3>2, <3>3, <3>4
  <2> QED BY <2>3, <2>4, ZenonT(60)
<1>7. ASSUME NEW q \in Producers PROVE ProducerInv(q)'
  <2>1. ProducerInv(q) /\ pos[q] \in Nat /\ Cell(pos[q]) \in Cells
    BY <1>1, CellType, ZenonT(60) DEF QueueInv
  <2>2. CASE q = p
    BY <1>1, <1>2, <1>3, <1>4, <2>1, <2>2, SMTT(60) DEF ProducerInv
  <2>3. CASE q # p
    <3>1. ASSUME Writing(q) PROVE Cell(pos[q]) # i
      <4>1. pos[q] # pos[p]
        BY <1>3, <2>3, <3>1, ZenonT(60) DEF QueueInv
      <4> QED BY <1>1, <1>5, <2>1, <3>1, <4>1, SameCell, CapacityAssumption, ZenonT(60) DEF ProducerInv
    <3>2. pos[q] < e \/ pc[q] = "cas" => sequence'[Cell(pos[q])] >= pos[q]
      BY <1>1, <1>4, <1>5, <2>1, SMTT(60) DEF ProducerInv
    <3> QED BY <1>1, <1>2, <1>3, <1>4, <2>1, <2>3, <3>1, <3>2, ZenonT(60) DEF ProducerInv, Writing
  <2> QED BY <2>2, <2>3
<1>8. ASSUME NEW c \in Consumers PROVE ConsumerInv(c)'
  <2>1. ConsumerInv(c) /\ pos[c] \in Nat /\ Cell(pos[c]) \in Cells
    BY <1>1, CellType, ZenonT(60) DEF QueueInv
  <2>2. ASSUME Reading(c) PROVE Cell(pos[c]) # i
    BY <1>1, <1>5, <2>1, <2>2, SameCell, CapacityAssumption, SMTT(60) DEF ConsumerInv
  <2>3. pos[c] < dequeue_pos \/ pc[c] = "cas" => sequence'[Cell(pos[c])] >= pos[c] + 1
    BY <1>1, <1>4, <1>5, <2>1, SMTT(60) DEF ConsumerInv
  <2> QED BY <1>1, <1>2, <1>3, <1>4, <2>1, <2>2, <2>3, ZenonT(60) DEF ConsumerInv
<1> QED BY <1>2, <1>3, <1>6, <1>7, <1>8, ZenonT(60) DEF QueueInv

\* The position a consumer claims holds a published item.
LEMMA DeqClaimStep ==
  ASSUME QueueInv, TypeOK', NEW c \in Consumers, DeqClaim(c)
  PROVE  QueueInv'
<1> DEFINE e == enqueue_pos
           d == dequeue_pos
<1>1. /\ e \in Nat /\ d \in Nat /\ sequence \in [Cells -> Nat]
      /\ \A t \in Threads : pos[t] \in Nat
      /\ c \in Threads /\ Producers \subseteq Threads /\ Consumers \subseteq Threads
      /\ d <= e /\ e <= d + Capacity
  BY ZenonT(60) DEF QueueInv, TypeOK, Threads
<1>2. /\ pc[c] = "cas" /\ pos[c] = d /\ dequeue_pos' = d + 1
      /\ pc'[c] = "read" /\ \A t \in Threads \ {c} : pc'[t] = pc[t]
      /\ UNCHANGED <<sequence, data, enqueue_pos, pos, item, accepted>>
  BY <1>1, ZenonT(60) DEF DeqClaim, Goto, QueueInv, TypeOK
<1>3. /\ \A q \in Producers : (Writing(q)' <=> Writing(q)) /\ q # c
      /\ \A b \in Consumers : Reading(b)' <=> Reading(b) \/ b = c
      /\ ~ Reading(c)
  BY <1>1, <1>2, ThreadsAssumption, ZenonT(60) DEF Writing, Reading
<1>4. sequence[Cell(d)] >= d + 1
  BY <1>2, ZenonT(60) DEF QueueInv, ConsumerInv
<1>5. d < e
  <2> SUFFICES ASSUME d = e PROVE FALSE
    BY <1>1
  <2>1. FreeFor(e) \/ Published(e) \/ BeingWritten(e)
    BY <1>1, CapacityAssumption DEF QueueInv, CellsInv
  <2> QED BY <1>1, <1>4, <2>1, CapacityAssumption DEF FreeFor, Published, BeingWritten
<1>6. sequence[Cell(d)] = d + 1 /\ data[Cell(d)] = accepted[d + 1]
  <2>1. /\ d + Capacity \in e .. (e + Capacity - 1) /\ (d + Capacity) - Capacity = d
        /\ (d + Capacity) - Capacity + 1 = d + 1
    BY <1>1, <1>5, CapacityAssumption
  <2>2. FreeFor(d + Capacity) \/ Published(d + Capacity) \/ BeingWritten(d + Capacity)
    BY <2>1, ZenonT(60) DEF QueueInv, CellsInv
  <2>3. Cell(d + Capacity) = Cell(d)
    BY <1>1, CellPeriodic, ZenonT(60)
  <2>4. Published(d + Capacity)
    BY <1>1, <1>4, <2>1, <2>2, <2>3, CapacityAssumption, SMTT(60) DEF FreeFor, BeingWritten
  <2> QED BY <2>1, <2>3, <2>4, ZenonT(60) DEF Published
<1>7. CellsInv'
  <2> SUFFICES ASSUME NEW n \in e .. (e + Capacity - 1)
               PROVE  FreeFor(n)' \/ Published(n)' \/ BeingWritten(n)'
    BY <1>2, ZenonT(60) DEF CellsInv
  <2>1. FreeFor(n) \/ Published(n) \/ BeingWritten(n)
    BY ZenonT(60) DEF QueueInv, CellsInv
  <2>2. CASE FreeFor(n)
    BY <1>1, <1>2, <2>2, CapacityAssumption, SMTT(60) DEF FreeFor
  <2>3. CASE Published(n)
    <3>1. n - Capacity = d => Reading(c)' /\ pos'[c] = n - Capacity
      BY <1>2, <1>3, ZenonT(60)
    <3>2. \/ n - Capacity >= d + 1
          \/ \E b \in Consumers : Reading(b)' /\ pos'[b] = n - Capacity
      BY <1>1, <1>2, <1>3, <2>3, <3>1, CapacityAssumption, SMTT(60) DEF Published
    <3> QED BY <1>2, <2>3, <3>2, ZenonT(60) DEF Published
  <2>4. CASE BeingWritten(n)
    <3>1. n - Capacity # d
      <4> SUFFICES ASSUME n - Capacity = d PROVE FALSE
        OBVIOUS
      <4>1. n = d + Capacity
        BY <1>1, CapacityAssumption
      <4>2. Cell(n) = Cell(d)
        BY <1>1, <4>1, CellPeriodic, ZenonT(60)
      <4> QED BY <1>1, <1>4, <2>4, <4>2 DEF BeingWritten
    <3>2. n - Capacity >= d + 1
      BY <1>1, <2>4, <3>1, CapacityAssumption, SMTT(60) DEF BeingWritten
    <3> QED BY <1>2, <1>3, <2>4, <3>2, ZenonT(60) DEF BeingWritten
  <2> QED BY <2>1, <2>2, <2>3, <2>4
<1>8. ASSUME NEW q \in Producers PROVE ProducerInv(q)'
  <2>1. ProducerInv(q) /\ pos[q] \in Nat
    BY <1>1, ZenonT(60) DEF QueueInv
  <2>2. Writing(q) => d + 1 <= pos[q]
    BY <1>1, <1>4, <2>1, SMTT(60) DEF ProducerInv
  <2> QED BY <1>1, <1>2, <1>3, <2>1, <2>2, ZenonT(60) DEF ProducerInv
<1>9. ASSUME NEW b \in Consumers PROVE ConsumerInv(b)'
  <2>1. ConsumerInv(b) /\ pos[b] \in Nat
    BY <1>1, ZenonT(60) DEF QueueInv
  <2>2. CASE b = c
    BY <1>1, <1>2, <1>6, <2>2, SMTT(60) DEF ConsumerInv
  <2>3. CASE b # c
    <3>1. pos[b] < d + 1 => sequence[Cell(pos[b])] >= pos[b] + 1
      BY <1>1, <1>4, <2>1, SMTT(60) DEF ConsumerInv
    <3> QED BY <1>1, <1>2, <1>3, <2>1, <2>3, <3>1, SMTT(60) DEF ConsumerInv
  <2> QED BY <2>2, <2>3
<1>10. \A a, b \in Consumers : a # b /\ Reading(a)' /\ Reading(b)' => pos'[a] # pos'[b]
  BY <1>1, <1>2, <1>3, SMTT(60) DEF QueueInv, ConsumerInv
<1>11. dequeue_pos' <= enqueue_pos' /\ enqueue_pos' <= dequeue_pos' + Capacity
  BY <1>1, <1>2, <1>5, CapacityAssumption, SMTT(60)
<1> QED BY <1>2, <1>3, <1>7, <1>8, <1>9, <1>10, <1>11, ZenonT(60) DEF QueueInv

\* Reading the data of an owned cell keeps the invariant.
LEMMA DeqReadStep ==
  ASSUME QueueInv, TypeOK', NEW c \in Consumers, DeqRead(c)
  PROVE  QueueInv'
<1>1. c \in Threads /\ Producers \subseteq Threads /\ Consumers \subseteq Threads
  BY ZenonT(60) DEF Threads
<1>2. /\ pc[c] = "read" /\ pc'[c] = "release" /\ item'[c] = data[Cell(pos[c])]
      /\ \A t \in Threads \ {c} : pc'[t] = pc[t] /\ item'[t] = item[t]
      /\ UNCHANGED <<sequence, data, enqueue_pos, dequeue_pos, pos, accepted>>
  BY <1>1, ZenonT(60) DEF DeqRead, Goto, QueueInv, TypeOK
<1>3. /\ \A q \in Producers : (Writing(q)' <=> Writing(q)) /\ q # c
      /\ \A b \in Consumers : Reading(b)' <=> Reading(b)
  BY <1>1, <1>2, ThreadsAssumption, ZenonT(60) DEF Writing, Reading
<1>4. CellsInv'
  BY <1>2, <1>3, CellsUnchanged, ZenonT(60) DEF QueueInv
<1>5. ASSUME NEW q \in Producers PROVE ProducerInv(q)'
  <2>1. ProducerInv(q) /\ pc'[q] = pc[q] /\ item'[q] = item[q]
    BY <1>1, <1>2, <1>3, ZenonT(60) DEF QueueInv
  <2> QED BY <1>2, <1>3, <2>1, ZenonT(60) DEF ProducerInv
<1>6. ASSUME NEW b \in Consumers PROVE ConsumerInv(b)'
  <2>1. ConsumerInv(b)
    BY ZenonT(60) DEF QueueInv
  <2> QED BY <1>1, <1>2, <1>3, <2>1, ZenonT(60) DEF ConsumerInv, Reading
<1> QED BY <1>2, <1>3, <1>4, <1>5, <1>6, ZenonT(60) DEF QueueInv
=============================================================================
