SPECIFICATION Spec
CONSTANTS
  k1 = k1
  k2 = k2
  k3 = k3
  a = a
  b = b
  t1 = t1
  t2 = t2
  t3 = t3
  None = None
  Keys <- ThreeKeys
  Tags <- TwoTags
  Threads <- ThreeThreads
  MaxEntries = 2
  Usages <- Sound
SYMMETRY Symmetry
INVARIANTS Reachable InvalidationSettles
