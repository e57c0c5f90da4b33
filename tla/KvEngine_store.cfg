\* Two workers that do not share paths: any request, a switch of mode and a
\* storage error, or an eviction.
CONSTANTS
  w1 = w1
  w2 = w2
  p1 = p1
  p2 = p2
  None = None
  Workers = {w1, w2}
  Paths = {p1, p2}
  Requests <- OwnedRequests
  MaxOps <- ThreeAndOne
  MaxVersion = 3
  QueueCapacity = 13
  BatchSize = 2
  Evictions = "clean"
  SwitchWhen = "quiescent"
  Budgets <- StoreTroubles
SPECIFICATION Spec
INVARIANTS TypeOK CacheCoherent DestroyedIsWiped
PROPERTIES ImplementsStore DiskNeverRegresses
