CONSTANTS
  Threads = {a, b}
  Keys = {1, 2, 4, 6}
  Hash <- MCHash
  ElementSize = 3
  NoKey = NoKey
  Garbage = Garbage
  ShardCount = 2
  ShardOf <- MCShardOf
  Capacities <- MCCapacities
  LoadFactors = {1, 2}
SPECIFICATION Spec
INVARIANTS
  TypeOK
  ShardIsWhole
  CoherentButAfterEvict
  FaultsOnlyWithoutRoom
  CapacityIsSplit
PROPERTIES
  ImplementsExactLRU
CHECK_DEADLOCK FALSE
