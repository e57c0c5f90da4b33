---------------------------- MODULE LockFreeQueue ----------------------------
(***************************************************************************)
(* The bounded multi-producer multi-consumer queue of                      *)
(* src/src/engine/lock_free_queue.rs, through which the engine hands its   *)
(* writes to the background flush thread.                                  *)
(*                                                                         *)
(* Every step performs one access to shared memory: a load or              *)
(* compare-exchange of a position, a load or store of a cell's sequence, a *)
(* write or read of a cell's data.  Memory is sequentially consistent; a   *)
(* Relaxed load of a position returns a value that is stale by the time it *)
(* is used, which the separate load and use steps also allow.              *)
(*                                                                         *)
(* An item is named by the call that enqueues it.  "accepted" is a history *)
(* variable: the items in the order in which their positions were claimed. *)
(***************************************************************************)
EXTENDS Integers, Sequences

CONSTANTS Capacity,   \* cells in the buffer
          Producers,  \* threads that call enqueue
          Consumers,  \* threads that call dequeue
          MaxCalls,   \* bound: calls of enqueue by one producer
          None

\* The constructor asserts a power of two; "pos & mask" is then pos % Capacity.
\* It also accepts 1, with which a cell's "free" and "published" marks coincide.
ASSUME CapacityAssumption == Capacity \in Nat /\ Capacity >= 2
ASSUME PowerOfTwoAssumption == \E k \in 1..Capacity : Capacity = 2^k
ASSUME CallsAssumption == MaxCalls \in Nat

Threads == Producers \cup Consumers
Items == Producers \X (1..MaxCalls)

ASSUME ThreadsAssumption == Producers \cap Consumers = {}
ASSUME NoneAssumption == None \notin Items

\* Results of the two operations: Ok(()), Ok(item), Err(Full), Err(Empty).
Ok(x) == <<"Ok", x>>
Err(e) == <<"Err", e>>
Results == ({"Ok"} \X (Items \cup {None})) \cup ({"Err"} \X {"Full", "Empty"})

VARIABLES sequence,     \* per cell: Node::sequence
          data,         \* per cell: Node::data, None while uninitialised
          enqueue_pos, dequeue_pos,
          pc, pos,      \* per thread: next step, and its local "pos"
          item,         \* per thread: the item it enqueues or has read
          calls,        \* per producer: calls of enqueue so far
          result,       \* per thread: answer of its last finished call
          accepted

vars == <<sequence, data, enqueue_pos, dequeue_pos, pc, pos, item, calls, result, accepted>>

Cells == 0..(Capacity - 1)
Cell(n) == n % Capacity

\* LockFreeQueue::new
Init == /\ sequence = [i \in Cells |-> i]
        /\ data = [i \in Cells |-> None]
        /\ enqueue_pos = 0
        /\ dequeue_pos = 0
        /\ pc = [t \in Threads |-> "idle"]
        /\ pos = [t \in Threads |-> 0]
        /\ item = [t \in Threads |-> None]
        /\ calls = [p \in Producers |-> 0]
        /\ result = [t \in Threads |-> None]
        /\ accepted = <<>>

Goto(t, label) == pc' = [pc EXCEPT ![t] = label]
Reply(t, r) == result' = [result EXCEPT ![t] = r]

-----------------------------------------------------------------------------
\* enqueue

\* The call, and the first load of enqueue_pos.
EnqCall(p) ==
  /\ pc[p] = "idle"
  /\ calls[p] < MaxCalls
  /\ calls' = [calls EXCEPT ![p] = @ + 1]
  /\ item' = [item EXCEPT ![p] = <<p, calls[p] + 1>>]
  /\ pos' = [pos EXCEPT ![p] = enqueue_pos]
  /\ Goto(p, "load")
  /\ Reply(p, None)
  /\ UNCHANGED <<sequence, data, enqueue_pos, dequeue_pos, accepted>>

\* Faulty variant: a cell that another producer has taken counts as full.
EnqLoadNoRetry(p) ==
  /\ pc[p] = "load"
  /\ LET seq == sequence[Cell(pos[p])] IN
       \/ seq = pos[p] /\ Goto(p, "cas") /\ UNCHANGED result
       \/ seq # pos[p] /\ Goto(p, "idle") /\ Reply(p, Err("Full"))
  /\ UNCHANGED <<sequence, data, enqueue_pos, dequeue_pos, pos, item, calls, accepted>>

\* The load of the cell's sequence, and the three-way branch on dif.
EnqLoad(p) ==
  /\ pc[p] = "load"
  /\ LET seq == sequence[Cell(pos[p])] IN
       \/ seq = pos[p] /\ Goto(p, "cas") /\ UNCHANGED result
       \/ seq < pos[p] /\ Goto(p, "idle") /\ Reply(p, Err("Full"))
       \/ seq > pos[p] /\ Goto(p, "reload") /\ UNCHANGED result
  /\ UNCHANGED <<sequence, data, enqueue_pos, dequeue_pos, pos, item, calls, accepted>>

EnqReload(p) ==
  /\ pc[p] = "reload"
  /\ pos' = [pos EXCEPT ![p] = enqueue_pos]
  /\ Goto(p, "load")
  /\ UNCHANGED <<sequence, data, enqueue_pos, dequeue_pos, item, calls, result, accepted>>

\* Faulty variants: a store instead of the compare-exchange; the cell published
\* as soon as it is claimed.
EnqClaimBlindly(p) ==
  /\ pc[p] = "cas"
  /\ enqueue_pos' = pos[p] + 1
  /\ accepted' = Append(accepted, item[p])
  /\ Goto(p, "write")
  /\ UNCHANGED <<sequence, data, dequeue_pos, pos, item, calls, result>>
EnqClaimPublished(p) ==
  /\ pc[p] = "cas"
  /\ enqueue_pos = pos[p]
  /\ enqueue_pos' = pos[p] + 1
  /\ accepted' = Append(accepted, item[p])
  /\ sequence' = [sequence EXCEPT ![Cell(pos[p])] = pos[p] + 1]
  /\ Goto(p, "write")
  /\ UNCHANGED <<data, dequeue_pos, pos, item, calls, result>>

EnqClaim(p) ==
  /\ pc[p] = "cas"
  /\ enqueue_pos = pos[p]
  /\ enqueue_pos' = pos[p] + 1
  /\ accepted' = Append(accepted, item[p])
  /\ Goto(p, "write")
  /\ UNCHANGED <<sequence, data, dequeue_pos, pos, item, calls, result>>

\* compare_exchange_weak fails, possibly spuriously; pos is not reloaded.
EnqClaimFails(p) ==
  /\ pc[p] = "cas"
  /\ Goto(p, "load")
  /\ UNCHANGED <<sequence, data, enqueue_pos, dequeue_pos, pos, item, calls, result, accepted>>

EnqWrite(p) ==
  /\ pc[p] = "write"
  /\ data' = [data EXCEPT ![Cell(pos[p])] = item[p]]
  /\ Goto(p, "publish")
  /\ UNCHANGED <<sequence, enqueue_pos, dequeue_pos, pos, item, calls, result, accepted>>

\* Faulty variants: the sequence stored is the consumer's, or is not advanced.
EnqPublishFree(p) ==
  /\ pc[p] = "publish"
  /\ sequence' = [sequence EXCEPT ![Cell(pos[p])] = pos[p] + Capacity]
  /\ Goto(p, "idle")
  /\ Reply(p, Ok(None))
  /\ UNCHANGED <<data, enqueue_pos, dequeue_pos, pos, item, calls, accepted>>
EnqPublishSame(p) ==
  /\ pc[p] = "publish"
  /\ sequence' = [sequence EXCEPT ![Cell(pos[p])] = pos[p]]
  /\ Goto(p, "idle")
  /\ Reply(p, Ok(None))
  /\ UNCHANGED <<data, enqueue_pos, dequeue_pos, pos, item, calls, accepted>>

EnqPublish(p) ==
  /\ pc[p] = "publish"
  /\ sequence' = [sequence EXCEPT ![Cell(pos[p])] = pos[p] + 1]
  /\ Goto(p, "idle")
  /\ Reply(p, Ok(None))
  /\ UNCHANGED <<data, enqueue_pos, dequeue_pos, pos, item, calls, accepted>>

Enqueue(p) == \/ EnqCall(p) \/ EnqLoad(p) \/ EnqReload(p) \/ EnqClaim(p)
              \/ EnqClaimFails(p) \/ EnqWrite(p) \/ EnqPublish(p)

-----------------------------------------------------------------------------
\* dequeue

DeqCall(c) ==
  /\ pc[c] = "idle"
  /\ pos' = [pos EXCEPT ![c] = dequeue_pos]
  /\ Goto(c, "load")
  /\ Reply(c, None)
  /\ UNCHANGED <<sequence, data, enqueue_pos, dequeue_pos, item, calls, accepted>>

\* Faulty variant: a position that another consumer has taken counts as empty.
DeqLoadNoRetry(c) ==
  /\ pc[c] = "load"
  /\ LET seq == sequence[Cell(pos[c])] IN
       \/ seq = pos[c] + 1 /\ Goto(c, "cas") /\ UNCHANGED result
       \/ seq # pos[c] + 1 /\ Goto(c, "idle") /\ Reply(c, Err("Empty"))
  /\ UNCHANGED <<sequence, data, enqueue_pos, dequeue_pos, pos, item, calls, accepted>>

DeqLoad(c) ==
  /\ pc[c] = "load"
  /\ LET seq == sequence[Cell(pos[c])] IN
       \/ seq = pos[c] + 1 /\ Goto(c, "cas") /\ UNCHANGED result
       \/ seq < pos[c] + 1 /\ Goto(c, "idle") /\ Reply(c, Err("Empty"))
       \/ seq > pos[c] + 1 /\ Goto(c, "reload") /\ UNCHANGED result
  /\ UNCHANGED <<sequence, data, enqueue_pos, dequeue_pos, pos, item, calls, accepted>>

DeqReload(c) ==
  /\ pc[c] = "reload"
  /\ pos' = [pos EXCEPT ![c] = dequeue_pos]
  /\ Goto(c, "load")
  /\ UNCHANGED <<sequence, data, enqueue_pos, dequeue_pos, item, calls, result, accepted>>

DeqClaim(c) ==
  /\ pc[c] = "cas"
  /\ dequeue_pos = pos[c]
  /\ dequeue_pos' = pos[c] + 1
  /\ Goto(c, "read")
  /\ UNCHANGED <<sequence, data, enqueue_pos, pos, item, calls, result, accepted>>

DeqClaimFails(c) ==
  /\ pc[c] = "cas"
  /\ Goto(c, "load")
  /\ UNCHANGED <<sequence, data, enqueue_pos, dequeue_pos, pos, item, calls, result, accepted>>

DeqRead(c) ==
  /\ pc[c] = "read"
  /\ item' = [item EXCEPT ![c] = data[Cell(pos[c])]]
  /\ Goto(c, "release")
  /\ UNCHANGED <<sequence, data, enqueue_pos, dequeue_pos, pos, calls, result, accepted>>

DeqRelease(c) ==
  /\ pc[c] = "release"
  /\ sequence' = [sequence EXCEPT ![Cell(pos[c])] = pos[c] + Capacity]
  /\ Goto(c, "idle")
  /\ Reply(c, Ok(item[c]))
  /\ UNCHANGED <<data, enqueue_pos, dequeue_pos, pos, item, calls, accepted>>

Dequeue(c) == \/ DeqCall(c) \/ DeqLoad(c) \/ DeqReload(c) \/ DeqClaim(c)
              \/ DeqClaimFails(c) \/ DeqRead(c) \/ DeqRelease(c)

-----------------------------------------------------------------------------
Next == \/ \E p \in Producers : Enqueue(p)
        \/ \E c \in Consumers : Dequeue(c)

Spec == Init /\ [][Next]_vars

(***************************************************************************)
(* Fairness for the liveness property: the scheduler runs every thread, so *)
(* a thread that has claimed a position finishes its call; the flush       *)
(* thread's loop calls dequeue again and again; a weak compare-exchange    *)
(* does not fail spuriously forever.  Producers may stop calling enqueue.  *)
(***************************************************************************)
Fairness ==
  /\ \A p \in Producers : WF_vars(EnqWrite(p)) /\ WF_vars(EnqPublish(p))
  /\ \A c \in Consumers : /\ WF_vars(Dequeue(c))
                          /\ SF_vars(DeqClaim(c))

FairSpec == Spec /\ Fairness

-----------------------------------------------------------------------------
\* Properties

Writing(p) == pc[p] \in {"write", "publish"}
Reading(c) == pc[c] \in {"read", "release"}

TypeOK ==
  /\ sequence \in [Cells -> Nat]
  /\ data \in [Cells -> Items \cup {None}]
  /\ enqueue_pos \in Nat
  /\ dequeue_pos \in Nat
  /\ pc \in [Threads -> {"idle", "load", "reload", "cas", "write", "publish", "read", "release"}]
  /\ \A p \in Producers : ~ Reading(p)
  /\ \A c \in Consumers : ~ Writing(c)
  /\ pos \in [Threads -> Nat]
  /\ item \in [Threads -> Items \cup {None}]
  /\ \A p \in Producers : pc[p] # "idle" => item[p] \in Items
  /\ calls \in [Producers -> 0..MaxCalls]
  /\ result \in [Threads -> Results \cup {None}]
  /\ accepted \in Seq(Items)

\* No data race on a cell: of all the threads between their compare-exchange
\* and their store to a cell's sequence (lines 74-79 and 107-111, which access
\* the cell's data without synchronisation) no two work on the same cell.
CellExclusive ==
  \A t, u \in Threads :
    /\ t # u
    /\ Writing(t) \/ Reading(t)
    /\ Writing(u) \/ Reading(u)
    => Cell(pos[t]) # Cell(pos[u])

\* No uninitialised, stale or torn read: the data a consumer is about to
\* extract (line 109) is the item accepted at the position it claimed, and it
\* is still that item when the consumer gives the cell back (line 111).
ReadsAccepted ==
  \A c \in Consumers :
    /\ Reading(c) => /\ pos[c] < Len(accepted)
                     /\ data[Cell(pos[c])] = accepted[pos[c] + 1]
    /\ pc[c] = "release" => item[c] = accepted[pos[c] + 1]

\* The queue never holds more than Capacity items, and dequeue never overtakes
\* enqueue, although the two positions are advanced by unrelated
\* compare-exchanges.
BoundedOccupancy == enqueue_pos - dequeue_pos \in 0..Capacity

\* enqueue gives up with Full (which the engine reports as QueueFull) only when
\* all cells are occupied, or the next one still belongs to a consumer that has
\* not finished with it (lines 64-70).  With one consumer, as in the engine, at
\* most one cell is then not occupied.
FullMeansFull ==
  [][\A p \in Producers :
       pc[p] = "load" /\ pc'[p] = "idle" =>
         \/ enqueue_pos - dequeue_pos = Capacity
         \/ \E c \in Consumers : Reading(c) /\ pos[c] = enqueue_pos - Capacity]_vars

\* Every accepted item is taken out again, in particular after all producers
\* have stopped: no position is skipped, no cell is lost.
AcceptedIsTaken ==
  \A p \in Producers, n \in 1..MaxCalls :
    (\E i \in 1..Len(accepted) : accepted[i] = <<p, n>>)
      ~> (\E i \in 1..dequeue_pos : accepted[i] = <<p, n>>)

-----------------------------------------------------------------------------
\* Refinement: the accepted items not yet claimed by a dequeue are the contents
\* of the abstract queue; the compare-exchanges are its commit points.

Contents == SubSeq(accepted, dequeue_pos + 1, enqueue_pos)
Committed == [p \in Producers |-> IF Writing(p) THEN item[p] ELSE None]
Taken == [c \in Consumers |-> IF Reading(c) THEN accepted[pos[c] + 1] ELSE None]

Abstract == INSTANCE BoundedQueue
              WITH contents <- Contents, committed <- Committed, taken <- Taken, answer <- result

\* FIFO order, no loss, no duplication, and the exact circumstances of Full
\* and Empty: the queue implements the abstract bounded queue.
ImplementsQueue == Abstract!Spec

-----------------------------------------------------------------------------
(***************************************************************************)
(* The inductive invariant.  The cells are in one-to-one correspondence    *)
(* with the next Capacity positions enqueue will claim.  The cell of such  *)
(* a position n is either free for n; or it still holds the item accepted  *)
(* at n - Capacity, not yet claimed or being read by the consumer that     *)
(* claimed it; or it belongs to the producer that claimed n - Capacity.    *)
(***************************************************************************)
FreeFor(n) ==
  /\ sequence[Cell(n)] = n
  /\ n < dequeue_pos + Capacity

Published(n) ==
  /\ n >= Capacity
  /\ sequence[Cell(n)] = n - Capacity + 1
  /\ data[Cell(n)] = accepted[n - Capacity + 1]
  /\ n - Capacity >= dequeue_pos \/ \E c \in Consumers : Reading(c) /\ pos[c] = n - Capacity

BeingWritten(n) ==
  /\ n >= Capacity
  /\ sequence[Cell(n)] = n - Capacity
  /\ n - Capacity >= dequeue_pos
  /\ \E p \in Producers : Writing(p) /\ pos[p] = n - Capacity

CellsInv ==
  \A n \in enqueue_pos .. (enqueue_pos + Capacity - 1) :
    FreeFor(n) \/ Published(n) \/ BeingWritten(n)

ProducerInv(p) ==
  /\ pos[p] <= enqueue_pos
  /\ pos[p] < enqueue_pos => sequence[Cell(pos[p])] >= pos[p]
  /\ pc[p] = "cas" => sequence[Cell(pos[p])] >= pos[p]
  /\ Writing(p) => /\ dequeue_pos <= pos[p] /\ pos[p] < enqueue_pos
                   /\ enqueue_pos <= pos[p] + Capacity
                   /\ sequence[Cell(pos[p])] = pos[p]
                   /\ item[p] = accepted[pos[p] + 1]
  /\ pc[p] = "publish" => data[Cell(pos[p])] = item[p]

ConsumerInv(c) ==
  /\ pos[c] <= dequeue_pos
  /\ pos[c] < dequeue_pos => sequence[Cell(pos[c])] >= pos[c] + 1
  /\ pc[c] = "cas" => sequence[Cell(pos[c])] >= pos[c] + 1
  /\ Reading(c) => /\ pos[c] < dequeue_pos
                   /\ enqueue_pos <= pos[c] + Capacity
                   /\ sequence[Cell(pos[c])] = pos[c] + 1
                   /\ data[Cell(pos[c])] = accepted[pos[c] + 1]
  /\ pc[c] = "release" => item[c] = accepted[pos[c] + 1]

\* The state of every cell agrees with the two positions and with the threads
\* that own the cell (sequence, lines 64-79 and 97-111).
QueueInv ==
  /\ TypeOK
  /\ Len(accepted) = enqueue_pos
  /\ dequeue_pos <= enqueue_pos /\ enqueue_pos <= dequeue_pos + Capacity
  /\ CellsInv
  /\ \A p \in Producers : ProducerInv(p)
  /\ \A c \in Consumers : ConsumerInv(c)
  /\ \A p, q \in Producers : p # q /\ Writing(p) /\ Writing(q) => pos[p] # pos[q]
  /\ \A c, d \in Consumers : c # d /\ Reading(c) /\ Reading(d) => pos[c] # pos[d]
=============================================================================
