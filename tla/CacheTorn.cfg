SPECIFICATION Spec
CONSTANTS
  n1 = n1
  n2 = n2
  n3 = n3
  n4 = n4
  n5 = n5
  Node = {n1, n2, n3, n4, n5}
  HardCoded = {n5}
  MaxCacheSize = 3
  SyncAfter = 2
  ProxyLists <- NoProxies
  MaxUses = 6
INVARIANT RestartsAlways
CHECK_DEADLOCK FALSE
SYMMETRY NodeSymmetry
