\* Four keys: displacement succeeds or fails, CLOCK has to evict, the table may
\* have no room at all.
CONSTANTS
  k1 = k1
  k2 = k2
  k3 = k3
  k4 = k4
  None = None
  Keys = {k1, k2, k3, k4}
  Values = {"x", "y"}
  Inputs <- SomeInputs
  Size = 2
  Slots = 1
  Capacities = {0, 4}
  MaxDisplacements = 3
  Hash1 <- Hashes
  Hash2 <- Chained
  TagUnit = 4
SPECIFICATION Spec
INVARIANTS SlotsConsistent FreeListSound ClockFindsVictim
PROPERTIES AcceptedIsFound ImplementsCache
