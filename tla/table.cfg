CONSTANTS
  Threads = {a, b, c}
  Keys = {k1, k2}
  Hash <- MCHash
  Capacity = 3
  LoadFactor = 3
  Garbage = Garbage
SPECIFICATION HistorySpec
INVARIANTS
  TypeOK
  CounterTells
  NoSlotTwice
  DeletesWhatIsStored
  StoredIsFound
PROPERTIES
  ChainsGrowAtHead
  CallsReturn
