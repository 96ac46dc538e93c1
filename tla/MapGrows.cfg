SPECIFICATION Spec
CONSTANTS
  k0 = k0
  k1 = k1
  k2 = k2
  Keys = {k0, k1, k2}
  Hash <- MCHash
  Putters = {servicer}
  Seekers = {replier}
  Buckets = 2
  Puts = 3
  Seeks = 1
  Nil = Nil
  Junk = Junk
CHECK_DEADLOCK FALSE
INVARIANT
  ConcurrentMap
