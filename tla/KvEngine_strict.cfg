\* A writer and a reader; the mode is switched while writes are queued.
CONSTANTS
  w1 = w1
  w2 = w2
  p1 = p1
  p2 = p2
  None = None
  Workers = {w1, w2}
  Paths = {p1}
  Requests <- WriterAndReader
  MaxOps <- TwoAndOne
  MaxVersion = 2
  QueueCapacity = 13
  BatchSize = 2
  Evictions = "clean"
  SwitchWhen = "anytime"
  Budgets <- OneSwitch
SPECIFICATION Spec
PROPERTY DiskNeverRegresses
