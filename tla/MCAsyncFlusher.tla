--------------------------- MODULE MCAsyncFlusher ---------------------------
\* An instance of AsyncFlusher for TLC: the background thread and one thread
\* that writes directly; batches of two operations, a channel of two.
EXTENDS AsyncFlusher

CONSTANTS f, d

B(ops, failures, switches, crashes, restarts) ==
  [ops |-> ops, failures |-> failures, switches |-> switches, crashes |-> crashes, restarts |-> restarts]

FlusherBudgets == {B(4, 1, 0, 0, 0), B(3, 0, 0, 1, 1), B(2, 0, 2, 1, 0)}
=============================================================================
