\* Two workers that do not share paths: a queue that fills up, evictions, or
\* a shutdown and a restart.
CONSTANTS
  w1 = w1
  w2 = w2
  p1 = p1
  p2 = p2
  None = None
  Workers = {w1, w2}
  Paths = {p1, p2}
  Requests <- OwnedPuts
  MaxOps <- TwoAndOne
  MaxVersion = 2
  QueueCapacity = 3
  BatchSize = 2
  Evictions = "clean"
  SwitchWhen = "quiescent"
  Budgets <- FullTroubles
SPECIFICATION FairSpec
PROPERTIES ImplementsStore ShutdownKeepsWrites EventuallyDurable
