CONSTANTS
  Threads = {a, b}
  Writers = {a, b}
  Finders = {b}
  Keys = {k1, k2}
  Hash <- MCOneBucket
  Capacity = 2
  HashtableLoadFactor = 2
  MaxBucketLockSize = 4
  PullThreshold = 1
  PurgeThreshold = 1
  Api <- MCInsertOrFind
  NULL = NULL
  DUMMY = DUMMY
  HEAD = HEAD
  TAIL = TAIL
  TEMP = TEMP
  NoKey = NoKey
  MaxInserts = 4
SPECIFICATION BoundedSpec
SYMMETRY KeySymmetry
INVARIANTS
  PoolHoldsEmptyNodes
