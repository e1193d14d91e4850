CONSTANTS
  Threads = {w}
  Writers = {w}
  Finders = {w}
  Keys = {1, 2, 3, 4}
  Hash <- MCSpread
  Capacity = 3
  HashtableLoadFactor = 2
  MaxBucketLockSize = 4
  PullThreshold = 2
  PurgeThreshold = 1
  Api <- MCConsumeOrFind
  NULL = NULL
  DUMMY = DUMMY
  HEAD = HEAD
  TAIL = TAIL
  TEMP = TEMP
  NoKey = NoKey
SPECIFICATION FairSpec
PROPERTIES
  InsertsGetNodes
  ImplementsEvictingCache
