CONSTANTS
  Threads = {w, f}
  Writers = {w}
  Finders = {f}
  Keys = {k}
  Hash <- MCOneBucket
  Capacity = 2
  HashtableLoadFactor = 2
  MaxBucketLockSize = 4
  PullThreshold = 1
  PurgeThreshold = 1
  Api <- MCInsertOrFind
  NULL = NULL
  DUMMY = DUMMY
  HEAD = HEAD
  TAIL = TAIL
  TEMP = TEMP
  NoKey = NoKey
SPECIFICATION FairSpec
PROPERTIES
  InsertsGetNodes
