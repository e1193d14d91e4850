CONSTANTS
  Threads = {w, f}
  Writers = {w}
  Finders = {f}
  Keys = {k1, k2}
  Hash <- MCOneBucket
  Capacity = 3
  HashtableLoadFactor = 3
  MaxBucketLockSize = 4
  PullThreshold = 2
  PurgeThreshold = 2
  Api <- MCInsertOrFind
  NULL = NULL
  DUMMY = DUMMY
  HEAD = HEAD
  TAIL = TAIL
  TEMP = TEMP
  NoKey = NoKey
SPECIFICATION Spec
SYMMETRY KeySymmetry
INVARIANTS
  TypeOK
  LockDiscipline
  HitReadsOwnValue
  NodeHasOneOwner
  LruListIsWhole
  SizeExactAtRest
PROPERTIES
  ValuesLeaveThroughOnDelete
