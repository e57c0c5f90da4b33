\* Two producers and two consumers, two calls of enqueue each: positions go
\* twice around the two cells.
CONSTANTS
  Capacity = 2
  Producers = {p1, p2}
  Consumers = {c1, c2}
  MaxCalls = 2
  None = None
SPECIFICATION FairSpec
INVARIANTS CellExclusive ReadsAccepted QueueInv
PROPERTIES ImplementsQueue FullMeansFull AcceptedIsTaken
