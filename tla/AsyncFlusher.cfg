\* Enqueued and direct writes, a failing batch, mode switches, a power failure,
\* stop and restart.
CONSTANTS
  f = f
  d = d
  Threads = {f, d}
  Flusher = f
  BatchSize = 2
  Capacity = 2
  MaxNumber = 4
  Budgets <- FlusherBudgets
SPECIFICATION FairSpec
INVARIANTS SyncedSurvives InOrder NoneLost StopDrains StorageInv
PROPERTY Settles
