CONSTANTS
  Threads = {w, f1, f2}
  Writers = {w}
  Finders = {f1, f2}
  Keys = {1, 2}
  Hash <- MCSpread
  Capacity = 2
  HashtableLoadFactor = 1
  MaxBucketLockSize = 4
  PullThreshold = 1
  PurgeThreshold = 1
  Api <- MCInsertOrFind
  NULL = NULL
  DUMMY = DUMMY
  HEAD = HEAD
  TAIL = TAIL
  TEMP = TEMP
  NoKey = NoKey
SPECIFICATION Spec
SYMMETRY FinderSymmetry
INVARIANTS
  HitStaysInBucket
  RecentLinkTells
