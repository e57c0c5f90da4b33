---------------------------- MODULE AsyncFlusher ----------------------------
(***************************************************************************)
(* The write-behind thread of storage/async_flusher.rs over a bounded      *)
(* channel, on a backend that other threads write to directly.             *)
(*                                                                         *)
(* Operations are numbered in the order in which they are handed over.     *)
(***************************************************************************)
EXTENDS RocksDbBackend

CONSTANTS Flusher,      \* the background thread; the other threads write directly
          BatchSize,    \* config.batch_size
          Capacity,     \* config.channel_capacity
          MaxNumber,    \* bound: the largest number of an operation
          Budgets       \* bounds: operations, failing writes, mode switches, power failures, restarts

ASSUME FlusherAssumption == /\ Flusher \in Threads
                            /\ BatchSize \in Nat \ {0}
                            /\ Capacity \in Nat \ {0}

VARIABLES channel, batch,
          running,   \* the flag that ends the loop
          phase,     \* of the worker loop
          overdue,   \* flush_interval_ms have passed since the last flush
          owner,     \* "open", or where the owner of the flusher is in stop
          answer,    \* what the last enqueue answered
          next,      \* the number of the next operation
          lost,      \* history: numbers of operations dropped by a failed write or a power failure
          left       \* what is left of the budget

flusher == <<channel, batch, running, phase, overdue, owner, answer>>
vars == <<storage, flusher, next, lost, left>>

Started(c, b, r, p, o, w) == c = <<>> /\ b = <<>> /\ r = TRUE /\ p = "loop" /\ o = FALSE /\ w = "open"

Init == /\ open
        /\ Started(channel, batch, running, phase, overdue, owner)
        /\ answer = "Ok"
        /\ next = 1
        /\ lost = {}
        /\ left \in Budgets

Numbers(ops) == {ops[i].n : i \in DOMAIN ops}
Spend(what) == left[what] > 0 /\ left' = [left EXCEPT ![what] = @ - 1]

-----------------------------------------------------------------------------
(* The callers.                                                            *)

\* enqueue takes &self and stop takes &mut self: they never overlap.
enqueue ==
  /\ owner # "stopping"
  /\ Spend("ops")
  /\ \/ /\ phase = "exited"
        /\ answer' = "WorkerStopped"
        /\ UNCHANGED <<channel, next>>
     \/ /\ phase # "exited" /\ Len(channel) >= Capacity
        /\ answer' = "QueueFull"
        /\ UNCHANGED <<channel, next>>
     \/ /\ phase # "exited" /\ Len(channel) < Capacity
        /\ answer' = "Ok"
        /\ channel' = Append(channel, [by |-> Flusher, n |-> next])
        /\ next' = next + 1
  /\ UNCHANGED <<storage, batch, running, phase, overdue, owner, lost>>

\* Another thread calls put_raw or del_raw.
Direct(t) ==
  /\ t # Flusher
  /\ Spend("ops")
  /\ Start(t, <<[by |-> t, n |-> next]>>)
  /\ next' = next + 1
  /\ UNCHANGED <<flusher, lost>>

DirectStep(t) ==
  /\ t # Flusher
  /\ \/ (LoadSync(t) \/ Write(t)) /\ UNCHANGED <<lost, left>>
     \/ WriteFails(t) /\ Spend("failures") /\ lost' = lost \cup Numbers(call[t].ops)
  /\ UNCHANGED <<flusher, next>>

Stop == /\ owner = "open"
        /\ owner' = "stopping"
        /\ running' = FALSE
        /\ UNCHANGED <<storage, channel, batch, phase, overdue, answer, next, lost, left>>

StopReturns == /\ owner = "stopping" /\ phase = "exited"
               /\ owner' = "stopped"
               /\ UNCHANGED <<storage, channel, batch, running, phase, overdue, answer, next, lost, left>>

\* A new flusher on the same backend.
start == /\ owner = "stopped"
         /\ Spend("restarts")
         /\ Started(channel', batch', running', phase', overdue', owner')
         /\ UNCHANGED <<storage, answer, next, lost>>

-----------------------------------------------------------------------------
(* worker_loop.                                                            *)

Idles == UNCHANGED <<running, overdue, owner, answer, next, lost, left>>

Receive ==
  /\ phase = "loop" /\ running
  /\ IF channel = <<>> THEN UNCHANGED <<channel, batch>>      \* recv_timeout: Timeout
                       ELSE batch' = Append(batch, Head(channel)) /\ channel' = Tail(channel)
  /\ phase' = "check"
  /\ Idles /\ UNCHANGED storage

\* Faulty variant: only full batches are written.
CheckFull ==
  /\ phase = "check"
  /\ IF Len(batch) >= BatchSize
       THEN Start(Flusher, batch) /\ phase' = "apply"
       ELSE phase' = "loop" /\ UNCHANGED storage
  /\ Idles /\ UNCHANGED <<channel, batch>>

Check ==
  /\ phase = "check"
  /\ IF Len(batch) >= BatchSize \/ (overdue /\ batch # <<>>)
       THEN Start(Flusher, batch) /\ phase' = "apply"
       ELSE phase' = "loop" /\ UNCHANGED storage
  /\ Idles /\ UNCHANGED <<channel, batch>>

\* Faulty variant: the thread ends without draining the channel.
LeaveAtOnce == /\ phase = "loop" /\ ~ running
               /\ phase' = "exited"
               /\ Idles /\ UNCHANGED <<storage, channel, batch>>

Leave == /\ phase = "loop" /\ ~ running
         /\ phase' = "drain"
         /\ Idles /\ UNCHANGED <<storage, channel, batch>>

Drain == /\ phase = "drain" /\ channel # <<>>
         /\ batch' = Append(batch, Head(channel)) /\ channel' = Tail(channel)
         /\ Idles /\ UNCHANGED <<storage, phase>>

\* Faulty variant: only a full batch is written at the end.
DrainedFull == /\ phase = "drain" /\ channel = <<>>
               /\ IF Len(batch) >= BatchSize THEN Start(Flusher, batch) /\ phase' = "final"
                                             ELSE phase' = "exited" /\ UNCHANGED storage
               /\ Idles /\ UNCHANGED <<channel, batch>>

Drained == /\ phase = "drain" /\ channel = <<>>
           /\ IF batch # <<>> THEN Start(Flusher, batch) /\ phase' = "final"
                              ELSE phase' = "exited" /\ UNCHANGED storage
           /\ Idles /\ UNCHANGED <<channel, batch>>

\* Inside apply_batch; the batch is cleared whether or not it could be written.
ApplyLoads == /\ phase \in {"apply", "final"}
              /\ LoadSync(Flusher)
              /\ UNCHANGED <<flusher, next, lost, left>>

\* Faulty variant: a batch that failed is put back behind the channel.
AppliedAgain ==
  /\ phase \in {"apply", "final"}
  /\ \/ Write(Flusher) /\ UNCHANGED <<channel, lost, left>>
     \/ WriteFails(Flusher) /\ Spend("failures") /\ channel' = channel \o batch /\ UNCHANGED lost
  /\ batch' = <<>>
  /\ overdue' = FALSE
  /\ phase' = IF phase = "apply" THEN "loop" ELSE "exited"
  /\ UNCHANGED <<running, owner, answer, next>>

Applied ==
  /\ phase \in {"apply", "final"}
  /\ \/ Write(Flusher) /\ UNCHANGED <<lost, left>>
     \/ WriteFails(Flusher) /\ Spend("failures") /\ lost' = lost \cup Numbers(batch)
  /\ batch' = <<>>
  /\ overdue' = FALSE
  /\ phase' = IF phase = "apply" THEN "loop" ELSE "exited"
  /\ UNCHANGED <<channel, running, owner, answer, next>>

worker_loop == Receive \/ Check \/ Leave \/ Drain \/ Drained \/ ApplyLoads \/ Applied

-----------------------------------------------------------------------------
(* The environment.                                                        *)

TimePasses == /\ ~ overdue
              /\ overdue' = TRUE
              /\ UNCHANGED <<storage, channel, batch, running, phase, owner, answer, next, lost, left>>

Flush == flush /\ UNCHANGED <<flusher, next, lost, left>>

SetSync(b) == set_sync(b) /\ Spend("switches") /\ UNCHANGED <<flusher, next, lost>>

\* The threads end with the machine; all of it is started again.
Fail == \E n \in ends :
  /\ PowerFailure(n)
  /\ Spend("crashes")
  /\ lost' = lost \cup Numbers(channel) \cup Numbers(batch) \cup {wal[i].n : i \in (n + 1)..Len(wal)}
             \cup UNION {Numbers(call[t].ops) : t \in Threads}
  /\ Started(channel', batch', running', phase', overdue', owner')
  /\ UNCHANGED <<answer, next>>

Next == \/ enqueue \/ Stop \/ StopReturns \/ start
        \/ \E t \in Threads : Direct(t) \/ DirectStep(t)
        \/ worker_loop
        \/ TimePasses \/ Flush \/ Fail
        \/ \E b \in BOOLEAN : SetSync(b)

Spec == Init /\ [][Next]_vars

\* Threads run, and time passes.
FairSpec == /\ Spec
            /\ WF_vars(worker_loop) /\ WF_vars(TimePasses) /\ WF_vars(StopReturns)
            /\ \A t \in Threads : WF_vars(DirectStep(t))

-----------------------------------------------------------------------------
(* Properties.                                                             *)

Op == [by : Threads, n : Nat \ {0}]

TypeOK ==
  /\ wal \in Seq(Op) /\ owed \in Seq(Op) /\ sync \in BOOLEAN
  /\ ends \subseteq 0..Len(wal) /\ Len(wal) \in ends /\ durable \in ends
  /\ call \in [Threads -> [pc : {"idle", "load", "write"}, ops : Seq(Op), opt : BOOLEAN, strict : BOOLEAN]]
  /\ channel \in Seq(Op) /\ Len(channel) <= Capacity
  /\ batch \in Seq(Op)
  /\ running \in BOOLEAN /\ overdue \in BOOLEAN
  /\ phase \in {"loop", "check", "apply", "drain", "final", "exited"}
  /\ owner \in {"open", "stopping", "stopped"}
  /\ answer \in {"Ok", "QueueFull", "WorkerStopped"}
  /\ next \in Nat \ {0}
  /\ lost \subseteq 1..(next - 1)

\* The operations of the flusher that are in the buffers.
Buffered == batch \o channel

\* The flusher's operations are in the log in the order in which enqueue
\* accepted them, and what is still buffered comes after them: also when batches
\* fail, the power fails and the flusher is stopped and started again.
InOrder ==
  /\ \A i, j \in DOMAIN wal : i < j /\ wal[i].by = Flusher /\ wal[j].by = Flusher => wal[i].n < wal[j].n
  /\ \A i, j \in DOMAIN Buffered : i < j => Buffered[i].n < Buffered[j].n
  /\ \A i \in DOMAIN wal, j \in DOMAIN Buffered : wal[i].by = Flusher => wal[i].n < Buffered[j].n

\* An operation that was accepted is in the log, in a buffer or in a call, or
\* was dropped by a failed write or a power failure; nothing else loses one.
NoneLost ==
  1..(next - 1) \subseteq Numbers(wal) \cup Numbers(batch) \cup Numbers(channel) \cup lost
                         \cup UNION {Numbers(call[t].ops) : t \in Threads}

\* "All remaining queued operations are drained and flushed before returning"
\* (stop): once stop has returned nothing is buffered, and nothing is accepted
\* any more that no thread would write.
StopDrains == owner = "stopped" => channel = <<>> /\ batch = <<>> /\ call[Flusher].pc = "idle"

\* What was promised to be durable is stable.
Promised == Len(owed) <= durable /\ \A i \in DOMAIN owed : owed[i] = wal[i]

\* A strict write is made in sync mode, with the option set; a thread hands over
\* its own operations.
CallsOK ==
  \A t \in Threads :
    /\ call[t].strict => sync /\ (call[t].pc = "write" => call[t].opt)
    /\ call[t].pc = "idle" => call[t] = Idle
    /\ \A i \in DOMAIN call[t].ops : call[t].ops[i].by = t /\ call[t].ops[i].n < next

\* The flusher is in a call exactly while it applies its batch; once it has
\* left its loop nothing can be enqueued before it has ended.
PhasesOK ==
  /\ phase \in {"apply", "final"} <=> call[Flusher].pc # "idle"
  /\ phase \in {"apply", "final"} => call[Flusher].ops = batch
  /\ running <=> owner = "open"
  /\ phase \in {"drain", "final", "exited"} => owner # "open"
  /\ owner = "stopped" => phase = "exited"
  /\ phase \in {"final", "exited"} => channel = <<>>
  /\ phase = "exited" => batch = <<>>

Numbered ==
  /\ \A i \in DOMAIN wal : wal[i].n < next
  /\ \A i \in DOMAIN Buffered : Buffered[i].by = Flusher /\ Buffered[i].n < next

\* The inductive invariant behind SyncedSurvives, InOrder, NoneLost and
\* StopDrains.
StorageInv == TypeOK /\ Promised /\ CallsOK /\ PhasesOK /\ Numbered /\ InOrder /\ NoneLost

\* Every accepted operation leaves the buffers: batches are written although
\* they are not full, and the loop reaches every operation; and stop returns,
\* unless the machine fails (worker_loop, stop).
Settles == /\ \A n \in 1..MaxNumber : n \in Numbers(Buffered) ~> n \notin Numbers(Buffered)
           /\ owner = "stopping" ~> owner # "stopping"
=============================================================================
