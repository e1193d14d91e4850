CONSTANTS
  Threads = {a, b, c}
  Keys = {k1, k2}
  Hash <- MCOneBucket
  Nodes = {n1, n2, n3}
  HashtableLoadFactor = 4
  NULL = NULL
  NoKey = NoKey
  LRU_HEAD = LRU_HEAD
  LRU_TAIL = LRU_TAIL
  POOL_HEAD = POOL_HEAD
  POOL_TAIL = POOL_TAIL
SPECIFICATION RoleSpec
SYMMETRY Symmetry
INVARIANTS
  TypeOK
  ListsAreWhole
  UnlockedIsCoherent
  NeighboursStay
  OnlyTheCircleBlocks
PROPERTIES
  HitIsCached
  OrderOfUse
CHECK_DEADLOCK FALSE
