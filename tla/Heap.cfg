SPECIFICATION Spec
CONSTANTS
  MaxObjects = 3
  MaxRoots = 3
  MaxEpoch = 2
  MaxKids = 2
  DefaultThreshold = 1
CHECK_DEADLOCK FALSE
INVARIANTS TokensResolve HeapIsObjectGraph
PROPERTIES CollectionExact TokensFresh
