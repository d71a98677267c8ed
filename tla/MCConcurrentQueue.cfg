SPECIFICATION FairSpec
CONSTANTS
  Threads = {p, q, r}
  Capacities = {0, 1, 2}
  MaxItems = 4
INVARIANTS CapacityKept InOrder NoLostReader NoLostWriter
PROPERTY NobodyStranded
