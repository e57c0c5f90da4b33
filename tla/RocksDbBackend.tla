--------------------------- MODULE RocksDbBackend ---------------------------
(***************************************************************************)
(* The backend of one database (storage/rocksdb_backend.rs): which of the  *)
(* writes it acknowledged are still there after a power failure.           *)
(*                                                                         *)
(* RocksDB itself is external.  The model keeps of it what the code relies *)
(* on: writes are appended to a log; the log is on stable storage up to    *)
(* some position, which a synced write and a flush move to the end; after  *)
(* a power failure the log is cut somewhere behind that position, but      *)
(* never inside a batch.  Keys and values are left to KvEngine.            *)
(***************************************************************************)
EXTENDS Integers, Sequences

CONSTANT Threads     \* the threads that write

VARIABLES wal,       \* the operations in the log
          ends,      \* the lengths of the log at which a write ended
          durable,   \* the length that is on stable storage
          sync,      \* the flag: sync the log on every write
          call,      \* per thread: the write it is in
          owed       \* history: the log when last a write or flush promised durability

storage == <<wal, ends, durable, sync, call, owed>>

Idle == [pc |-> "idle", ops |-> <<>>, opt |-> FALSE, strict |-> FALSE]

open == /\ wal = <<>> /\ ends = {0} /\ durable = 0
        /\ sync = FALSE
        /\ call = [t \in Threads |-> Idle]
        /\ owed = <<>>

\* put_raw, del_raw (one operation) and apply_batch are called,
Start(t, ops) ==
  /\ call[t].pc = "idle"
  /\ call' = [call EXCEPT ![t] = [pc |-> "load", ops |-> ops, opt |-> FALSE, strict |-> sync]]
  /\ UNCHANGED <<wal, ends, durable, sync, owed>>

\* Faulty variant: the default options are used.
LoadDefault(t) ==
  /\ call[t].pc = "load"
  /\ call' = [call EXCEPT ![t].pc = "write", ![t].opt = FALSE]
  /\ UNCHANGED <<wal, ends, durable, sync, owed>>

\* load the flag into the write options,
LoadSync(t) ==
  /\ call[t].pc = "load"
  /\ call' = [call EXCEPT ![t].pc = "write", ![t].opt = sync]
  /\ UNCHANGED <<wal, ends, durable, sync, owed>>

\* and write.  A write is strict if the flag was set all the time since its
\* call: then its caller may rely on it.
Write(t) ==
  /\ call[t].pc = "write"
  /\ wal' = wal \o call[t].ops
  /\ ends' = ends \cup {Len(wal')}
  /\ durable' = IF call[t].opt THEN Len(wal') ELSE durable
  /\ owed' = IF call[t].strict THEN wal' ELSE owed
  /\ call' = [call EXCEPT ![t] = Idle]
  /\ UNCHANGED sync

WriteFails(t) ==
  /\ call[t].pc = "write"
  /\ call' = [call EXCEPT ![t] = Idle]
  /\ UNCHANGED <<wal, ends, durable, sync, owed>>

flush ==
  /\ durable' = Len(wal)
  /\ owed' = wal
  /\ UNCHANGED <<wal, ends, sync, call>>

set_sync(b) ==
  /\ sync' = b
  /\ call' = [t \in Threads |-> [call[t] EXCEPT !.strict = @ /\ b]]
  /\ UNCHANGED <<wal, ends, durable, owed>>

\* The machine loses power after n operations of the log were stored; the
\* database is opened again.
PowerFailure(n) ==
  /\ n \in ends /\ n >= durable
  /\ wal' = SubSeq(wal, 1, n)
  /\ ends' = {e \in ends : e <= n}
  /\ durable' = n
  /\ sync' = FALSE
  /\ call' = [t \in Threads |-> Idle]
  /\ UNCHANGED owed

-----------------------------------------------------------------------------
\* What was in the log when a write made in sync mode, or a flush, returned is
\* still there, in the same order, whatever power failures and mode switches by
\* other threads came since (put_raw, del_raw, apply_batch, flush).
SyncedSurvives == Len(owed) <= Len(wal) /\ owed = SubSeq(wal, 1, Len(owed))
=============================================================================
