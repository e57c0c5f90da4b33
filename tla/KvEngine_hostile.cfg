\* Everything may happen: evictions, storage errors, a full queue, a crash or
\* a shutdown, a switch of mode at any time, version numbers that wrap.
CONSTANTS
  w1 = w1
  w2 = w2
  p1 = p1
  p2 = p2
  None = None
  Workers = {w1, w2}
  Paths = {p1}
  Requests <- PutsAndDeletes
  MaxOps <- TwoAndOne
  MaxVersion = 1
  QueueCapacity = 2
  BatchSize = 1
  Evictions = "any"
  SwitchWhen = "anytime"
  Budgets <- Hostile
SPECIFICATION Spec
INVARIANTS IndexComplete VersionsNumbered
