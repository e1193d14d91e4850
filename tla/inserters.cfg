CONSTANTS
  Threads = {a, b}
  Writers = {a, b}
  Finders = {b}
  Keys = {k1, k2}
  Hash <- MCOneBucket
  Capacity = 3
  HashtableLoadFactor = 3
  MaxBucketLockSize = 4
  PullThreshold = 2
  PurgeThreshold = 1
  Api <- MCInsertOrFind
  NULL = NULL
  DUMMY = DUMMY
  HEAD = HEAD
  TAIL = TAIL
  TEMP = TEMP
  NoKey = NoKey
  MaxInserts = 4
SPECIFICATION BoundedSpec
SYMMETRY KeySymmetry
INVARIANTS
  HitReadsOwnValue
  NodeHasOneOwner
  LruListIsWhole
  RecentLinkTells
  PoolUndeceived
PROPERTIES
  EntersAtHead
