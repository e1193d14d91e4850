CONSTANTS
  Threads = {a, b}
  Keys = {k1, k2}
  Hash <- MCOneBucket
  Nodes = {n1, n2}
  HashtableLoadFactor = 4
  NULL = NULL
  NoKey = NoKey
  LRU_HEAD = LRU_HEAD
  LRU_TAIL = LRU_TAIL
  POOL_HEAD = POOL_HEAD
  POOL_TAIL = POOL_TAIL
SPECIFICATION FairRoleSpec
PROPERTIES
  EvictionEnds
CHECK_DEADLOCK FALSE
