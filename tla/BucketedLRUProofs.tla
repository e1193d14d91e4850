-------------------------- MODULE BucketedLRUProofs --------------------------
(***************************************************************************)
(* Proofs about BucketedLRU, for any number of threads, shards, keys and   *)
(* elements.  What the operations do to the lists of a shard is in         *)
(* LRUCacheProofs; what is added here is when a shard has memory, and how  *)
(* much, so that the operations are only called where they are defined.    *)
(***************************************************************************)
EXTENDS BucketedLRU, LRUCacheProofs

(* The number of elements that a shard is allocated for.                   *)
given(s) == maxElementCount(share(s, capacity), is_item_capacity)

(* A shard has memory while the adapter has a capacity of which there is   *)
(* something for it.                                                       *)
ShardInv(s) ==
  LET c == cache[s]
  IN  /\ c.max \in Nat /\ c.memory \in {"none", "allocated", "released"}
      /\ DOMAIN c = Attributes
      /\ c.memory = "allocated" => capacity # None /\ \E list : Sound(c, list)
      /\ capacity # None /\ ~faulted =>
           /\ c.max = given(s)
           /\ IF share(s, capacity) = 0 THEN c.memory # "allocated"
              ELSE c.memory = "allocated" /\ c.bucket_count = given(s) \div load_factor

(* A key is missed only by a find that has gone through.                   *)
MissedInv ==
  \A t \in Threads : missed[t] # NoKey =>
    LET c == cache[ShardOf[missed[t]]]
    IN  capacity # None /\ c.memory = "allocated" /\ c.bucket_count # 0

SizesInv ==
  /\ load_factor \in LoadFactors /\ is_item_capacity \in BOOLEAN /\ faulted \in BOOLEAN
  /\ capacity # None => <<capacity, is_item_capacity>> \in Capacities
  /\ capacity = None => \/ \A s \in Shards : cache[s].memory = "none"
                        \/ \A s \in Shards : cache[s].memory = "released"

IInv ==
  /\ missed \in [Threads -> Keys \cup {NoKey}] /\ DOMAIN cache = Shards
  /\ SizesInv /\ MissedInv /\ FaultsOnlyWithoutRoom
  /\ \A s \in Shards : ShardInv(s)

-----------------------------------------------------------------------------
(* How much of a capacity a shard gets.                                    *)
LEMMA ShareIs ==
  ASSUME NEW amount \in Nat, NEW in_items \in BOOLEAN, NEW s \in Shards
  PROVE  /\ share(s, amount) \in Nat /\ maxElementCount(share(s, amount), in_items) \in Nat
         /\ share(s, amount) = 0 => maxElementCount(share(s, amount), in_items) = 0
         /\ share(s, amount) # 0 /\ ~allocateFaults(share(s, amount), in_items) =>
              maxElementCount(share(s, amount), in_items) # 0
<1>1. share(s, amount) \in Nat
  BY ShardAssumption DEF share
<1>2. \A n \in Nat : n \div ElementSize \in Nat /\ (n = 0 => n \div ElementSize = 0)
  BY ElementAssumption
<1>. QED
  BY <1>1, <1>2 DEF maxElementCount, allocateFaults

(* The sizes are natural numbers.                                          *)
LEMMA SizesAre ==
  ASSUME SizesInv
  PROVE  /\ load_factor \in Nat \ {0} /\ is_item_capacity \in BOOLEAN
         /\ capacity # None => capacity \in Nat
<1>1. load_factor \in Nat \ {0}
  BY SizeAssumption DEF SizesInv
<1>2. capacity # None => <<capacity, is_item_capacity>> \in Nat \X BOOLEAN
  BY SizeAssumption DEF SizesInv
<1>. QED
  BY <1>1, <1>2 DEF SizesInv

(* At first no shard has memory.                                           *)
LEMMA InitIInv ==
  ASSUME Init
  PROVE  IInv
<1>1. /\ cache = [s \in Shards |-> Unallocated] /\ load_factor \in LoadFactors
      /\ capacity = None /\ is_item_capacity = FALSE
      /\ missed = [t \in Threads |-> NoKey] /\ faulted = FALSE
  BY DEF Init
<1>2. /\ DOMAIN Unallocated = Attributes /\ Unallocated.max = 0
      /\ Unallocated.memory = "none"
  BY DEF Unallocated, Attributes
<1>3. /\ DOMAIN cache = Shards
      /\ \A s \in Shards : cache[s] = Unallocated
  BY <1>1
<1>4. \A s \in Shards : ShardInv(s)
  BY <1>1, <1>2, <1>3 DEF ShardInv
<1>5. SizesInv
  BY <1>1, <1>2, <1>3 DEF SizesInv
<1>6. MissedInv /\ FaultsOnlyWithoutRoom
  BY <1>1 DEF MissedInv, FaultsOnlyWithoutRoom
<1>7. missed \in [Threads -> Keys \cup {NoKey}]
  BY <1>1
<1>. QED
  BY <1>3, <1>4, <1>5, <1>6, <1>7 DEF IInv

(* What a faulting call leaves alone.                                      *)
LEMMA FaultIInv ==
  ASSUME IInv, Fault,
         IF capacity = None THEN \A s \in Shards : cache[s].memory = "none"
         ELSE \E s \in Shards : given(s) < 2 \/ given(s) < load_factor
  PROVE  IInv'
<1>1. /\ faulted' = TRUE /\ cache' = cache /\ load_factor' = load_factor /\ missed' = missed
      /\ capacity' = capacity /\ is_item_capacity' = is_item_capacity
  BY DEF Fault, sizes
<1>2. SizesInv' /\ MissedInv'
  BY <1>1 DEF IInv, SizesInv, MissedInv
<1>3. FaultsOnlyWithoutRoom'
  BY <1>1 DEF FaultsOnlyWithoutRoom, given
<1>4. \A s \in Shards : ShardInv(s)'
  BY <1>1 DEF IInv, ShardInv
<1>. QED
  BY <1>1, <1>2, <1>3, <1>4 DEF IInv

(* Memory is allocated: every shard is whole and empty, and holds its share.*)
LEMMA AllocateIInv ==
  ASSUME IInv, NEW amount, NEW in_items, <<amount, in_items>> \in Capacities,
         allocate(amount, in_items)
  PROVE  IInv' /\ \A s \in Shards : cache'[s].memory = "allocated" => Sound(cache'[s], <<>>)
<1>1. /\ ~faulted /\ \A t \in Threads : missed[t] = NoKey
      /\ capacity = None /\ \A s \in Shards : ~allocateFaults(share(s, amount), in_items)
      /\ cache' = [s \in Shards |->
           allocateMemory(cache[s], share(s, amount), in_items, load_factor)]
      /\ capacity' = amount /\ is_item_capacity' = in_items
      /\ load_factor' = load_factor /\ missed' = missed /\ faulted' = faulted
  BY DEF allocate, AllIdle
<1>2. /\ amount \in Nat /\ in_items \in BOOLEAN /\ load_factor \in Nat \ {0} /\ amount # None
  <2>1. <<amount, in_items>> \in Nat \X BOOLEAN
    BY SizeAssumption
  <2>. QED
    BY <2>1, SizesAre DEF IInv, None
<1>3. ASSUME NEW s \in Shards
      PROVE  /\ ShardInv(s)'
             /\ cache'[s].memory = "allocated" => Sound(cache'[s], <<>>)
  <2>1. PICK n : n = share(s, amount)
    OBVIOUS
  <2>2. PICK m : m = maxElementCount(n, in_items)
    OBVIOUS
  <2>3. n \in Nat /\ m \in Nat /\ (n = 0 => m = 0) /\ (n # 0 => m # 0)
    BY <1>1, <1>2, <2>1, <2>2, ShareIs
  <2>4. PICK c, d : c = cache[s] /\ d = cache'[s] /\ d = allocateMemory(c, n, in_items, load_factor)
    BY <1>1, <2>1
  <2>5. c.memory \in {"none", "released"} /\ DOMAIN c = Attributes
    BY <1>1, <2>4 DEF IInv, ShardInv
  <2>6. CASE n = 0
    <3>1. d = [c EXCEPT !.max = 0, !.count = 0]
      BY <2>4, <2>6 DEF allocateMemory
    <3>2. DOMAIN d = Attributes /\ d.memory = c.memory /\ d.max = 0
      BY <2>5, <3>1 DEF Attributes
    <3>. QED
      BY <1>1, <2>1, <2>2, <2>3, <2>4, <2>5, <2>6, <3>2 DEF ShardInv, given
  <2>7. CASE n # 0
    <3>1. d = Allocated(m, load_factor)
      BY <2>2, <2>4, <2>7 DEF allocateMemory
    <3>2. /\ Sound(d, <<>>) /\ d.max = m /\ d.bucket_count = m \div load_factor
      BY <1>2, <2>3, <2>7, <3>1, AllocatedSound
    <3>3. DOMAIN d = Attributes /\ d.memory = "allocated"
      BY <3>2 DEF Sound, Typed
    <3>. QED
      BY <1>1, <1>2, <2>1, <2>2, <2>3, <2>4, <2>7, <3>2, <3>3 DEF ShardInv, given
  <2>. QED
    BY <2>6, <2>7
<1>4. SizesInv'
  BY <1>1, <1>2 DEF IInv, SizesInv
<1>5. MissedInv'
  BY <1>1 DEF MissedInv
<1>6. FaultsOnlyWithoutRoom'
  BY <1>1 DEF FaultsOnlyWithoutRoom
<1>7. missed' \in [Threads -> Keys \cup {NoKey}] /\ DOMAIN cache' = Shards
  BY <1>1 DEF IInv
<1>. QED
  BY <1>3, <1>4, <1>5, <1>6, <1>7 DEF IInv

(* A share that is no room for an element: nothing but the fault changes.  *)
LEMMA AllocateFaultyIInv ==
  ASSUME IInv, NEW amount, NEW in_items, <<amount, in_items>> \in Capacities,
         allocateFaulty(amount, in_items)
  PROVE  IInv'
<1>1. /\ ~faulted /\ \A t \in Threads : missed[t] = NoKey
      /\ capacity = None /\ \E s \in Shards : allocateFaults(share(s, amount), in_items)
      /\ faulted' = TRUE /\ capacity' = amount /\ is_item_capacity' = in_items
      /\ cache' = cache /\ load_factor' = load_factor /\ missed' = missed
  BY DEF allocateFaulty, AllIdle
<1>2. amount \in Nat /\ in_items \in BOOLEAN /\ amount # None
  <2>1. <<amount, in_items>> \in Nat \X BOOLEAN
    BY SizeAssumption
  <2>. QED
    BY <2>1 DEF None
<1>3. \A s \in Shards : ShardInv(s)'
  BY <1>1 DEF IInv, ShardInv
<1>4. SizesInv'
  BY <1>1, <1>2 DEF IInv, SizesInv
<1>5. MissedInv'
  BY <1>1 DEF MissedInv
<1>6. FaultsOnlyWithoutRoom'
  <2>1. PICK s \in Shards : maxElementCount(share(s, amount), in_items) = 0
    BY <1>1 DEF allocateFaults
  <2>. QED
    BY <1>1, <1>2, <2>1 DEF FaultsOnlyWithoutRoom
<1>. QED
  BY <1>1, <1>3, <1>4, <1>5, <1>6 DEF IInv

(* Memory is released: no shard can be asked before the next allocation.   *)
LEMMA ReleaseIInv ==
  ASSUME IInv, release
  PROVE  IInv' /\ \A s \in Shards : cache'[s].memory = "released"
<1>1. /\ ~faulted /\ \A t \in Threads : missed[t] = NoKey
      /\ \A s \in Shards : cache[s].memory # "none"
      /\ cache' = [s \in Shards |-> releaseMemory(cache[s])]
      /\ capacity' = None /\ load_factor' = load_factor /\ is_item_capacity' = is_item_capacity
      /\ missed' = missed /\ faulted' = faulted
  BY DEF release, AllIdle, releaseFaults
<1>2. ASSUME NEW s \in Shards
      PROVE  ShardInv(s)' /\ cache'[s].memory = "released"
  <2>1. PICK c, d : c = cache[s] /\ d = cache'[s] /\ d = releaseMemory(c)
    BY <1>1
  <2>2. /\ c.max \in Nat /\ c.memory \in {"allocated", "released"} /\ DOMAIN c = Attributes
    BY <1>1, <2>1 DEF IInv, ShardInv
  <2>3. DOMAIN d = Attributes /\ d.memory = "released" /\ d.max = c.max
    BY <2>1, <2>2 DEF releaseMemory, Attributes
  <2>. QED
    BY <1>1, <2>1, <2>2, <2>3 DEF ShardInv
<1>3. SizesInv'
  BY <1>1, <1>2 DEF IInv, SizesInv
<1>4. MissedInv' /\ FaultsOnlyWithoutRoom'
  BY <1>1 DEF MissedInv, FaultsOnlyWithoutRoom
<1>5. DOMAIN cache' = Shards
  BY <1>1
<1>. QED
  BY <1>1, <1>2, <1>3, <1>4, <1>5 DEF IInv

(* A release without memory faults; that needs no room in a shard that has *)
(* none, which is what a fault needs.                                      *)
LEMMA ReleaseFaultyIInv ==
  ASSUME IInv, releaseFaulty
  PROVE  IInv'
<1>1. ~faulted /\ Fault
  BY DEF releaseFaulty, AllIdle
<1>2. PICK s \in Shards : cache[s].memory = "none"
  BY DEF releaseFaulty, releaseFaults
<1>3. CASE capacity = None
  BY <1>1, <1>2, <1>3, FaultIInv DEF IInv, SizesInv
<1>4. CASE capacity # None
  <2>1. share(s, capacity) = 0
    BY <1>1, <1>2, <1>4 DEF IInv, ShardInv
  <2>2. given(s) = 0
    BY <1>4, <2>1, ShareIs, SizesAre DEF IInv, given
  <2>. QED
    BY <1>1, <1>4, <2>2, FaultIInv
<1>. QED
  BY <1>3, <1>4

-----------------------------------------------------------------------------
(* A shard that a call can reach, with its list.                           *)
LEMMA ReachedShard ==
  ASSUME IInv, NEW s \in Shards, cache[s].memory = "allocated"
  PROVE  \E list : Sound(cache[s], list)
BY DEF IInv, ShardInv

(* A call that changes one shard, and not its size, keeps the invariant.   *)
LEMMA CallIInv ==
  ASSUME IInv, ~faulted, NEW s \in Shards, cache[s].memory = "allocated",
         NEW d, cache' = [cache EXCEPT ![s] = d], NEW list, Sound(d, list),
         d.max = cache[s].max, d.bucket_count = cache[s].bucket_count,
         missed' \in [Threads -> Keys \cup {NoKey}],
         \A t \in Threads : missed'[t] # NoKey => missed'[t] = missed[t],
         UNCHANGED <<sizes, faulted>>
  PROVE  IInv'
<1>1. /\ load_factor' = load_factor /\ capacity' = capacity
      /\ is_item_capacity' = is_item_capacity /\ faulted' = faulted
      /\ DOMAIN cache = Shards /\ cache'[s] = d /\ DOMAIN cache' = Shards
      /\ \A x \in Shards : x # s => cache'[x] = cache[x]
  BY DEF sizes, IInv
<1>2. d.memory = "allocated" /\ DOMAIN d = Attributes
  BY DEF Sound, Typed
<1>3. ASSUME NEW x \in Shards
      PROVE  ShardInv(x)'
  <2>1. CASE x = s
    BY <1>1, <1>2, <2>1 DEF IInv, ShardInv, given
  <2>2. CASE x # s
    BY <1>1, <2>2 DEF IInv, ShardInv, given
  <2>. QED
    BY <2>1, <2>2
<1>4. SizesInv'
  BY <1>1, <1>2, <1>3 DEF IInv, SizesInv, ShardInv
<1>5. ASSUME NEW t \in Threads, missed'[t] # NoKey
      PROVE  /\ capacity' # None /\ cache'[ShardOf[missed'[t]]].memory = "allocated"
             /\ cache'[ShardOf[missed'[t]]].bucket_count # 0
  <2>1. missed'[t] = missed[t] /\ missed[t] \in Keys
    BY <1>5 DEF IInv
  <2>2. /\ capacity # None /\ cache[ShardOf[missed[t]]].memory = "allocated"
        /\ cache[ShardOf[missed[t]]].bucket_count # 0
    BY <1>5, <2>1 DEF IInv, MissedInv
  <2>3. ShardOf[missed[t]] \in Shards
    BY <2>1, ShardAssumption
  <2>. QED
    BY <1>1, <1>2, <2>1, <2>2, <2>3
<1>6. FaultsOnlyWithoutRoom'
  BY <1>1 DEF FaultsOnlyWithoutRoom
<1>7. MissedInv'
  BY <1>5 DEF MissedInv
<1>. QED
  BY <1>1, <1>3, <1>4, <1>6, <1>7 DEF IInv

(* A hit in a shard.                                                       *)
LEMMA HitShard ==
  ASSUME IInv, NEW t \in Threads, NEW k \in Keys, findHit(t, k)
  PROVE  LET s == ShardOf[k]
         IN  /\ s \in Shards /\ cache[s].memory = "allocated" /\ cache[s].bucket_count # 0
             /\ missed[t] = NoKey /\ missed' = missed
             /\ \E list : /\ Sound(cache[s], list)
                          /\ \E j \in 1 .. Len(list) : \E d :
                               /\ cache' = [cache EXCEPT ![s] = d]
                               /\ cache[s].key[list[j]] = k
                               /\ \A m \in j + 1 .. Len(list) : cache[s].key[list[m]] # k
                               /\ Sound(d, Append(RemoveAt(list, j), list[j]))
                               /\ d.max = cache[s].max /\ d.key = cache[s].key
                               /\ d.bucket_count = cache[s].bucket_count
<1>1. PICK s \in Shards : s = ShardOf[k]
  BY ShardAssumption
<1>2. PICK c : c = cache[s]
  OBVIOUS
<1>3. /\ ~faulted /\ missed[t] = NoKey /\ capacity # None
      /\ c.memory = "allocated" /\ c.bucket_count # 0 /\ Search(c, k) # None
      /\ cache' = [cache EXCEPT ![s] = moveToTail(c, Search(c, k))] /\ missed' = missed
  BY <1>1, <1>2 DEF findHit, Looking, findFaults
<1>4. PICK list : Sound(c, list)
  BY <1>2, <1>3, ReachedShard
<1>5. \E j \in 1 .. Len(list) :
        /\ Search(c, k) = list[j] /\ c.key[list[j]] = k
        /\ \A m \in j + 1 .. Len(list) : c.key[list[m]] # k
        /\ LET d == moveToTail(c, Search(c, k))
           IN  /\ Sound(d, Append(RemoveAt(list, j), list[j]))
               /\ d.max = c.max /\ d.key = c.key /\ d.bucket_count = c.bucket_count
  BY <1>3, <1>4, MoveSound
<1>. QED
  BY <1>1, <1>2, <1>3, <1>4, <1>5

(* An insert into a shard.                                                 *)
LEMMA InsertShard ==
  ASSUME IInv, NEW t \in Threads, insertMissed(t)
  PROVE  LET s == ShardOf[missed[t]]
             c == cache[s]
         IN  /\ s \in Shards /\ c.memory = "allocated" /\ c.bucket_count # 0
             /\ missed[t] \in Keys /\ missed' = [missed EXCEPT ![t] = NoKey]
             /\ \E list : /\ Sound(c, list)
                          /\ \E n \in Indices(c) : \E d :
                               /\ cache' = [cache EXCEPT ![s] = d]
                               /\ n \notin Range(Kept(c, list))
                               /\ Range(Kept(c, list)) \subseteq Range(list)
                               /\ Sound(d, Append(Kept(c, list), n))
                               /\ d.key = [c.key EXCEPT ![n] = missed[t]]
                               /\ d.max = c.max /\ d.bucket_count = c.bucket_count
                               /\ isFull(c) => Len(list) > 1
<1>1. ~faulted /\ missed[t] \in Keys /\ missed' = [missed EXCEPT ![t] = NoKey]
  BY DEF IInv, insertMissed, Inserting
<1>2. PICK s \in Shards : s = ShardOf[missed[t]]
  BY <1>1, ShardAssumption
<1>3. PICK c : c = cache[s]
  OBVIOUS
<1>4. PICK k \in Keys : k = missed[t]
  BY <1>1
<1>5. /\ c.memory = "allocated" /\ c.bucket_count # 0 /\ ~insertFaults(c)
      /\ cache' = [cache EXCEPT ![s] = insert(c, k)]
  BY <1>1, <1>2, <1>3, <1>4 DEF insertMissed, Inserting, IInv, MissedInv
<1>6. PICK list : Sound(c, list)
  BY <1>3, <1>5, ReachedShard
<1>7. \E n \in Indices(c) :
        /\ n \notin Range(Kept(c, list)) /\ Range(Kept(c, list)) \subseteq Range(list)
        /\ Sound(insert(c, k), Append(Kept(c, list), n))
        /\ insert(c, k).key = [c.key EXCEPT ![n] = k]
        /\ insert(c, k).max = c.max /\ insert(c, k).bucket_count = c.bucket_count
        /\ isFull(c) => Len(list) > 1
  BY <1>5, <1>6, InsertSound
<1>. QED
  BY <1>1, <1>2, <1>3, <1>4, <1>5, <1>6, <1>7

(* A lookup that hits leaves its shard whole, by MoveSound.                *)
LEMMA HitIInv ==
  ASSUME IInv, NEW t \in Threads, NEW k \in Keys, findHit(t, k)
  PROVE  IInv'
<1>1. PICK s \in Shards : s = ShardOf[k] /\ cache[s].memory = "allocated"
  BY HitShard
<1>2. PICK d, list : /\ cache' = [cache EXCEPT ![s] = d] /\ Sound(d, list)
                     /\ d.max = cache[s].max /\ d.bucket_count = cache[s].bucket_count
  BY <1>1, HitShard
<1>3. /\ ~faulted /\ missed' = missed /\ UNCHANGED <<sizes, faulted>>
      /\ missed \in [Threads -> Keys \cup {NoKey}]
  BY DEF findHit, Looking, IInv
<1>. QED
  BY <1>1, <1>2, <1>3, CallIInv

(* A lookup that misses changes no shard, and remembers the key.           *)
LEMMA MissIInv ==
  ASSUME IInv, NEW t \in Threads, NEW k \in Keys, findMiss(t, k)
  PROVE  IInv'
<1>1. /\ ~faulted /\ missed[t] = NoKey /\ capacity # None
      /\ cache[ShardOf[k]].memory = "allocated" /\ cache[ShardOf[k]].bucket_count # 0
      /\ missed' = [missed EXCEPT ![t] = k]
      /\ cache' = cache /\ load_factor' = load_factor /\ capacity' = capacity
      /\ is_item_capacity' = is_item_capacity /\ faulted' = faulted
      /\ missed \in [Threads -> Keys \cup {NoKey}]
  BY DEF findMiss, Looking, findFaults, sizes, IInv
<1>2. SizesInv' /\ FaultsOnlyWithoutRoom' /\ \A s \in Shards : ShardInv(s)'
  BY <1>1 DEF IInv, SizesInv, FaultsOnlyWithoutRoom, ShardInv, given
<1>3. MissedInv'
  BY <1>1 DEF IInv, MissedInv
<1>. QED
  BY <1>1, <1>2, <1>3 DEF IInv

(* A lookup faults only in a shard without buckets.                        *)
LEMMA FindFaultyIInv ==
  ASSUME IInv, NEW t \in Threads, NEW k \in Keys, findFaulty(t, k)
  PROVE  IInv'
<1>1. PICK s \in Shards : s = ShardOf[k]
  BY ShardAssumption
<1>2. /\ ~faulted /\ capacity # None /\ Fault
      /\ cache[s].memory # "allocated" \/ cache[s].bucket_count = 0
  BY <1>1 DEF findFaulty, Looking, findFaults
<1>3. /\ given(s) \in Nat /\ (share(s, capacity) = 0 => given(s) = 0)
      /\ load_factor \in Nat \ {0}
  BY <1>2, ShareIs, SizesAre DEF IInv, given
<1>4. IF share(s, capacity) = 0 THEN cache[s].memory # "allocated"
      ELSE cache[s].memory = "allocated" /\ cache[s].bucket_count = given(s) \div load_factor
  BY <1>2 DEF IInv, ShardInv
<1>5. given(s) < 2 \/ given(s) < load_factor
  <2>1. CASE share(s, capacity) = 0
    BY <1>3, <2>1
  <2>2. CASE share(s, capacity) # 0
    BY <1>2, <1>3, <1>4, <2>2
  <2>. QED
    BY <2>1, <2>2
<1>. QED
  BY <1>2, <1>5, FaultIInv

(* An insert leaves its shard whole, by InsertSound.                       *)
LEMMA InsertIInv ==
  ASSUME IInv, NEW t \in Threads, insertMissed(t)
  PROVE  IInv'
<1>1. PICK s \in Shards : s = ShardOf[missed[t]] /\ cache[s].memory = "allocated"
  BY InsertShard
<1>2. PICK d, list : /\ cache' = [cache EXCEPT ![s] = d] /\ Sound(d, list)
                     /\ d.max = cache[s].max /\ d.bucket_count = cache[s].bucket_count
  BY <1>1, InsertShard
<1>3. /\ ~faulted /\ missed' = [missed EXCEPT ![t] = NoKey] /\ UNCHANGED <<sizes, faulted>>
      /\ missed \in [Threads -> Keys \cup {NoKey}]
  BY DEF insertMissed, Inserting, IInv
<1>. QED
  BY <1>1, <1>2, <1>3, CallIInv

(* An insert faults only in a shard without room.                          *)
LEMMA InsertFaultyIInv ==
  ASSUME IInv, NEW t \in Threads, insertFaulty(t)
  PROVE  IInv'
<1>1. PICK s \in Shards : s = ShardOf[missed[t]]
  BY ShardAssumption DEF insertFaulty, Inserting, IInv
<1>2. PICK c : c = cache[s]
  OBVIOUS
<1>3. /\ ~faulted /\ Fault /\ isFull(c) /\ evictFaults(c)
      /\ capacity # None /\ c.memory = "allocated"
  BY <1>1, <1>2 DEF insertFaulty, Inserting, insertFaults, IInv, MissedInv
<1>4. c.max = given(s)
  BY <1>2, <1>3 DEF IInv, ShardInv
<1>5. PICK list : Sound(c, list)
  BY <1>2, <1>3, ReachedShard
<1>6. /\ Typed(c) /\ ListWhole(c, list) /\ Len(list) \in Nat /\ c.count = Len(list)
      /\ c.max \in Nat /\ list \in Seq(Indices(c)) /\ Distinct(list, Indices(c))
  BY <1>5, DistinctIn DEF Sound, Whole, ListWhole, Typed
<1>7. Len(list) <= 1
  <2>1. SUFFICES ASSUME Len(list) > 1 PROVE FALSE
    BY <1>6
  <2>2. /\ c.head = (IF list = <<>> THEN None ELSE list[1])
        /\ c.tail = (IF list = <<>> THEN None ELSE list[Len(list)])
        /\ \A i \in Range(list) : c.list_next[i] = None <=> i = c.tail
        /\ Range(list) \subseteq Indices(c)
    BY <1>6, RingFacts
  <2>3. list # <<>> /\ list[1] \in Range(list) /\ c.head = list[1]
    BY <1>6, <2>1, <2>2 DEF Range
  <2>4. list[1] # list[Len(list)]
    BY <1>6, <2>1 DEF Distinct, IsInjective
  <2>5. c.head # None
    BY <1>6, <2>2, <2>3, IndexFacts
  <2>. QED
    BY <1>3, <2>2, <2>3, <2>4, <2>5 DEF evictFaults
<1>8. given(s) < 2
  BY <1>3, <1>4, <1>6, <1>7 DEF isFull
<1>. QED
  BY <1>3, <1>8, FaultIInv

(* Every step keeps the invariant.                                         *)
LEMMA NextIInv ==
  ASSUME IInv, Next
  PROVE  IInv'
<1>1. ASSUME NEW request \in Capacities,
             allocate(request[1], request[2]) \/ allocateFaulty(request[1], request[2])
      PROVE  IInv'
  <2>1. request = <<request[1], request[2]>>
    BY SizeAssumption
  <2>. QED
    BY <1>1, <2>1, AllocateIInv, AllocateFaultyIInv
<1>. QED
  BY <1>1, ReleaseIInv, ReleaseFaultyIInv, HitIInv, MissIInv, FindFaultyIInv,
     InsertIInv, InsertFaultyIInv DEF Next

(* So does a step that changes nothing.                                    *)
LEMMA StutterIInv ==
  ASSUME IInv, UNCHANGED vars
  PROVE  IInv'
<1>1. /\ cache' = cache /\ load_factor' = load_factor /\ capacity' = capacity
      /\ is_item_capacity' = is_item_capacity /\ missed' = missed /\ faulted' = faulted
  BY DEF vars, sizes
<1>. QED
  BY <1>1 DEF IInv, SizesInv, MissedInv, FaultsOnlyWithoutRoom, ShardInv, given

(* The invariant of every proof here.                                      *)
THEOREM SpecIInv == Spec => []IInv
<1>1. IInv /\ [Next]_vars => IInv'
  BY NextIInv, StutterIInv
<1>. QED
  BY <1>1, InitIInv, PTL DEF Spec

-----------------------------------------------------------------------------
(* What the invariant says of a shard in the terms of the properties.      *)
LEMMA SoundHasTypes ==
  ASSUME NEW c, NEW list, Sound(c, list)
  PROVE  LET link == Indices(c) \cup {None}
         IN  /\ c.count \in 0 .. c.max /\ c.bucket_count \in 0 .. c.max
             /\ {c.head, c.tail, c.empty} \subseteq link
             /\ c.bucket \in [Buckets(c) -> link]
             /\ c.list_next \in [Indices(c) -> link]
             /\ \A i \in Reached(c, c.head, c.list_next) :
                  /\ c.key[i] \in Keys
                  /\ c.list_prev[i] \in link /\ c.bucket_next[i] \in link
                  /\ c.bucket_prev[i] \in -c.bucket_count .. c.max - 1
<1>1. PICK empty, chains : Typed(c) /\ Whole(c, list, empty, chains)
  BY DEF Sound
<1>2. /\ ListWhole(c, list) /\ EmptyWhole(c, list, empty) /\ Distinct(list, Indices(c))
      /\ Range(list) \subseteq Indices(c) /\ None \notin Indices(c)
  BY <1>1, DistinctIn, IndexFacts DEF Whole, ListWhole
<1>3. c.count \in 0 .. c.max
  BY <1>1, <1>2, FillsUp DEF Typed
<1>4. Reached(c, c.head, c.list_next) = Range(list)
  BY <1>1, WholeTells DEF Reached, LruOrder
<1>5. ASSUME NEW i \in Range(list)
      PROVE  /\ c.key[i] \in Keys /\ c.list_prev[i] \in Links(c) /\ c.bucket_next[i] \in Links(c)
             /\ c.bucket_prev[i] \in -c.bucket_count .. c.max - 1
  <2>1. c.key[i] \in Keys /\ i \in Indices(c)
    BY <1>2 DEF ListWhole
  <2>2. c.list_prev[i] \in Links(c)
    BY <1>1, <1>2, RingFacts DEF Links
  <2>3. list # <<>>
    BY <1>5 DEF Range
  <2>4. PICK b \in Buckets(c) : b = whichBucket(c, c.key[i])
    <3>1. Hash[c.key[i]] \in Nat /\ c.bucket_count \in Nat \ {0}
      BY <1>1, <2>1, <2>3, KeyAssumption DEF Sound, Typed
    <3>. QED
      BY <3>1 DEF whichBucket, Buckets
  <2>5. PICK chain : chain = chains[b] /\ ChainWhole(c, list, chain, b)
    BY <1>1 DEF Whole
  <2>6. PICK last : IsWhole(Mark(b), chain, None, Down(c, b), Up(c, last))
    BY <2>5 DEF ChainWhole
  <2>7. i \in Range(chain) /\ Distinct(chain, Indices(c)) /\ Mark(b) \notin Indices(c)
    BY <1>1, <2>4, <2>5, IndexFacts DEF ChainWhole, ItemsOf
  <2>8. /\ Down(c, b)[i] \in Range(chain) \cup {None}
        /\ Up(c, last)[i] \in Range(chain) \cup {Mark(b)}
        /\ Range(chain) \subseteq Indices(c)
    BY <1>2, <2>6, <2>7, WholeLinks
  <2>9. Down(c, b)[i] = c.bucket_next[i] /\ Up(c, last)[i] = c.bucket_prev[i]
    BY <1>2, <2>1, <2>7 DEF Down, Up
  <2>10. c.bucket_next[i] \in Links(c)
    BY <2>8, <2>9 DEF Links
  <2>11. c.bucket_prev[i] \in -c.bucket_count .. c.max - 1
    <3>1. c.bucket_count \in Nat /\ c.max \in Nat
      BY <1>1 DEF Typed
    <3>. QED
      BY <2>8, <2>9, <3>1 DEF Mark, Buckets, Indices
  <2>. QED
    BY <2>1, <2>2, <2>10, <2>11
<1>. QED
  BY <1>1, <1>3, <1>4, <1>5 DEF Typed, Links

(* What Sound says of the walks that ShardIsWhole takes.                   *)
LEMMA SoundIsWhole ==
  ASSUME NEW c, NEW order, Sound(c, order)
  PROVE  LET list == LruOrder(c)
             empty == Walk(c, c.empty, c.list_next)
         IN  /\ IsInjective(list \o empty) /\ Range(list \o empty) = Indices(c)
             /\ Walk(c, c.tail, c.list_prev) = Reverse(list)
             /\ c.count = Len(list)
             /\ \A b \in Buckets(c) :
                  LET chain == Chain(c, b)
                  IN  /\ IsInjective(chain)
                      /\ Range(chain) = {i \in Range(list) : whichBucket(c, c.key[i]) = b}
                      /\ \A j \in DOMAIN chain :
                           c.bucket_prev[chain[j]] = IF j = 1 THEN -b - 1 ELSE chain[j - 1]
<1>1. PICK empty, chains : Typed(c) /\ Whole(c, order, empty, chains)
  BY DEF Sound
<1>2. /\ Distinct(order, Indices(c)) /\ Range(order) \subseteq Indices(c)
      /\ c.count = Len(order) /\ Distinct(empty, Indices(c))
      /\ Range(empty) = Indices(c) \ Range(order)
  BY <1>1, DistinctIn DEF Whole, ListWhole, EmptyWhole
<1>3. /\ LruOrder(c) = order /\ Walk(c, c.empty, c.list_next) = empty
      /\ Walk(c, c.tail, c.list_prev) = Reverse(order)
      /\ \A b \in Buckets(c) :
           /\ Chain(c, b) = chains[b]
           /\ \A j \in 1 .. Len(chains[b]) :
                c.bucket_prev[chains[b][j]] = IF j = 1 THEN -b - 1 ELSE chains[b][j - 1]
  BY <1>1, WholeTells
<1>4. IsInjective(order \o empty) /\ Range(order \o empty) = Indices(c)
  <2>1. Range(order) \cap Range(empty) = {}
    BY <1>2
  <2>2. Distinct(order \o empty, Indices(c)) /\ Range(order \o empty) = Range(order) \cup Range(empty)
    BY <1>2, <2>1, ConcatDistinct
  <2>. QED
    BY <1>2, <2>2 DEF Distinct
<1>5. ASSUME NEW b \in Buckets(c)
      PROVE  /\ IsInjective(chains[b]) /\ DOMAIN chains[b] = 1 .. Len(chains[b])
             /\ Range(chains[b]) = {i \in Range(order) : whichBucket(c, c.key[i]) = b}
  <2>1. ChainWhole(c, order, chains[b], b)
    BY <1>1 DEF Whole
  <2>. QED
    BY <2>1 DEF ChainWhole, ItemsOf, Distinct
<1>. QED
  BY <1>2, <1>3, <1>4, <1>5

(* An allocated shard is whole and coherent.                               *)
LEMMA LiveShards ==
  ASSUME IInv
  PROVE  Live \subseteq Shards /\ \A s \in Live : \E list : Sound(cache[s], list)
BY ReachedShard DEF Live

-----------------------------------------------------------------------------
(* Whatever the calls, indices stay within storage_ and what is linked has *)
(* been written.                                                           *)
THEOREM SpecTypeOK == Spec => []TypeOK
<1>1. IInv => TypeOK
  <2>1. SUFFICES ASSUME IInv PROVE TypeOK
    OBVIOUS
  <2>2. /\ missed \in [Threads -> Keys \cup {NoKey}] /\ faulted \in BOOLEAN
        /\ is_item_capacity \in BOOLEAN /\ load_factor \in LoadFactors
        /\ capacity # None => <<capacity, is_item_capacity>> \in Capacities
        /\ \A s \in Shards : cache[s].memory \in {"none", "allocated", "released"}
    BY <2>1 DEF IInv, SizesInv, ShardInv
  <2>. QED
    BY <2>1, <2>2, LiveShards, SoundHasTypes DEF TypeOK
<1>. QED
  BY <1>1, SpecIInv, PTL

(* The links always make one list, the empty nodes and a chain for every   *)
(* bucket: no operation of lru.h loses, doubles or mixes up a node.        *)
THEOREM SpecShardIsWhole == Spec => []ShardIsWhole
<1>1. IInv => ShardIsWhole
  BY LiveShards, SoundIsWhole DEF ShardIsWhole
<1>. QED
  BY <1>1, SpecIInv, PTL

(* The assertions of coherent() hold but for the one at the end of evict,  *)
(* whatever the capacity and the keys.                                     *)
THEOREM SpecCoherentButAfterEvict == Spec => []CoherentButAfterEvict
<1>1. IInv => CoherentButAfterEvict
  BY LiveShards, SoundIsCoherent DEF CoherentButAfterEvict
<1>. QED
  BY <1>1, SpecIInv, PTL

(* Only memory that is missing or too small is undefined behaviour.        *)
THEOREM SpecFaultsOnlyWithoutRoom == Spec => []FaultsOnlyWithoutRoom
<1>1. IInv => FaultsOnlyWithoutRoom
  BY DEF IInv
<1>. QED
  BY <1>1, SpecIInv, PTL

-----------------------------------------------------------------------------
(* The sum over the shards that CapacityIsSplit is about.                  *)
Together == FoldSet(LAMBDA s, sum : sum + cache[s].max, 0, Shards)

(* The recursive function that FoldSet is made of.                         *)
IsSum(f) ==
  f = [S \in SUBSET Shards |->
         IF S = {} THEN 0
         ELSE f[S \ {CHOOSE s \in S : TRUE}] + cache[CHOOSE s \in S : TRUE].max]

(* It adds, if every shard but the first has the same size, one size for   *)
(* each shard and what the first has more.                                 *)
LEMMA SumExists ==
  ASSUME NEW first \in Int, NEW rest \in Int,
         \A s \in Shards : cache[s].max = IF s = 0 THEN first ELSE rest
  PROVE  LET f == [S \in SUBSET Shards |->
                     Cardinality(S) * rest + IF 0 \in S THEN first - rest ELSE 0]
         IN  IsSum(f) 
<1>. DEFINE f == [S \in SUBSET Shards |->
                    Cardinality(S) * rest + IF 0 \in S THEN first - rest ELSE 0]
            pick(S) == CHOOSE s \in S : TRUE
<1>1. IsFiniteSet(Shards)
  BY ShardAssumption, FS_Interval DEF Shards
<1>2. ASSUME NEW S \in SUBSET Shards, S # {}
      PROVE  f[S] = f[S \ {pick(S)}] + cache[pick(S)].max
  <2>1. PICK x : x = pick(S)
    OBVIOUS
  <2>2. x \in S
    BY <1>2, <2>1
  <2>3. /\ IsFiniteSet(S) /\ Cardinality(S) \in Nat
        /\ Cardinality(S \ {x}) = Cardinality(S) - 1
    BY <1>1, <2>2, FS_Subset, FS_CardinalityType, FS_RemoveElement
  <2>4. \A n \in Nat : n * rest = (n - 1) * rest + rest
    OBVIOUS
  <2>5. Cardinality(S) * rest = (Cardinality(S) - 1) * rest + rest
    BY <2>3, <2>4
  <2>6. Cardinality(S) * rest \in Int /\ (Cardinality(S) - 1) * rest \in Int
    BY <2>3
  <2>7. cache[x].max = IF x = 0 THEN first ELSE rest
    BY <2>2
  <2>8. /\ f[S] = Cardinality(S) * rest + IF 0 \in S THEN first - rest ELSE 0
        /\ f[S \ {x}] = (Cardinality(S) - 1) * rest + IF 0 \in S \ {x} THEN first - rest ELSE 0
    BY <2>3
  <2>9. f[S] = f[S \ {x}] + cache[x].max
    <3>. HIDE DEF f
    <3>1. PICK a \in Int : a = (Cardinality(S) - 1) * rest
      BY <2>6
    <3>2. f[S] = a + rest + IF 0 \in S THEN first - rest ELSE 0
      BY <2>5, <2>8, <3>1
    <3>. QED
      BY <2>2, <2>7, <2>8, <3>1, <3>2
  <2>. QED
    BY <2>1, <2>9
<1>3. f[{}] = 0
  BY FS_EmptySet
<1>. HIDE DEF f
<1>4. \A S \in SUBSET Shards :
        f[S] = IF S = {} THEN 0 ELSE f[S \ {pick(S)}] + cache[pick(S)].max
  BY <1>2, <1>3
<1>5. f = [S \in SUBSET Shards |-> f[S]]
  BY DEF f
<1>6. f = [S \in SUBSET Shards |->
             IF S = {} THEN 0 ELSE f[S \ {pick(S)}] + cache[pick(S)].max]
  BY <1>4, <1>5
<1>7. IsSum(f)
  BY <1>6 DEF IsSum
<1>. QED
  BY <1>7 DEF f

(* There is one, by induction on the size of the set.                      *)
LEMMA SumIsUnique ==
  ASSUME NEW f, NEW g, IsSum(f), IsSum(g)
  PROVE  f[Shards] = g[Shards]
<1>. DEFINE P(n) == \A S \in SUBSET Shards : Cardinality(S) = n => f[S] = g[S]
            N == {n \in Nat : P(n)}
            pick(S) == CHOOSE s \in S : TRUE
<1>1. IsFiniteSet(Shards) /\ Cardinality(Shards) \in Nat
  BY ShardAssumption, FS_Interval, FS_CardinalityType DEF Shards
<1>2. ASSUME NEW S \in SUBSET Shards
      PROVE  /\ f[S] = IF S = {} THEN 0 ELSE f[S \ {pick(S)}] + cache[pick(S)].max
             /\ g[S] = IF S = {} THEN 0 ELSE g[S \ {pick(S)}] + cache[pick(S)].max
  BY DEF IsSum
<1>3. ASSUME NEW S \in SUBSET Shards, S # {}
      PROVE  /\ S \ {pick(S)} \in SUBSET Shards
             /\ Cardinality(S) \in Nat
             /\ Cardinality(S \ {pick(S)}) = Cardinality(S) - 1
  <2>1. pick(S) \in S
    BY <1>3
  <2>. QED
    BY <1>1, <2>1, FS_Subset, FS_CardinalityType, FS_RemoveElement
<1>. HIDE DEF pick
<1>4. 0 \in N
  <2>1. ASSUME NEW S \in SUBSET Shards, Cardinality(S) = 0
        PROVE  S = {}
    BY <1>1, <2>1, FS_Subset, FS_EmptySet
  <2>. QED
    BY <1>2, <2>1
<1>5. ASSUME NEW n \in Nat, n \in N
      PROVE  n + 1 \in N
  <2>1. ASSUME NEW S \in SUBSET Shards, Cardinality(S) = n + 1
        PROVE  f[S] = g[S]
    <3>1. S # {}
      BY <2>1, FS_EmptySet
    <3>2. f[S \ {pick(S)}] = g[S \ {pick(S)}]
      BY <1>3, <1>5, <2>1, <3>1
    <3>. QED
      BY <1>2, <3>1, <3>2
  <2>. QED
    BY <2>1
<1>. HIDE DEF N
<1>6. Nat \subseteq N
  BY <1>4, <1>5, SetInduction
<1>. QED
  BY <1>1, <1>6 DEF N

(* So that is what the shards have together.                               *)
LEMMA TogetherIs ==
  ASSUME NEW first \in Int, NEW rest \in Int,
         \A s \in Shards : cache[s].max = IF s = 0 THEN first ELSE rest
  PROVE  Together = ShardCount * rest + (first - rest)
<1>. DEFINE F(f) == [S \in SUBSET Shards |->
              IF S = {} THEN 0
              ELSE f[S \ {CHOOSE s \in S : TRUE}] + cache[CHOOSE s \in S : TRUE].max]
            sum == CHOOSE f : f = F(f)
            closed == [S \in SUBSET Shards |->
                         Cardinality(S) * rest + IF 0 \in S THEN first - rest ELSE 0]
<1>1. Together = sum[Shards]
  BY DEF Together, FoldSet, MapThenFoldSet
<1>2. IsSum(closed)
  BY SumExists
<1>3. IsSum(sum)
  <2>1. closed = F(closed)
    BY <1>2 DEF IsSum
  <2>. HIDE DEF F, closed
  <2>2. sum = F(sum)
    BY <2>1
  <2>. QED
    BY <2>2 DEF IsSum, F
<1>. HIDE DEF sum, closed
<1>4. sum[Shards] = closed[Shards]
  BY <1>2, <1>3, SumIsUnique
<1>5. Cardinality(Shards) = ShardCount /\ 0 \in Shards
  <2>1. ShardCount \in Nat /\ ShardCount > 0
    BY ShardAssumption
  <2>2. Cardinality(0 .. ShardCount - 1) = IF 0 > ShardCount - 1 THEN 0 ELSE ShardCount - 1 - 0 + 1
    BY <2>1, FS_Interval
  <2>. QED
    BY <2>1, <2>2 DEF Shards
<1>6. closed[Shards] = Cardinality(Shards) * rest + IF 0 \in Shards THEN first - rest ELSE 0
  BY DEF closed
<1>. QED
  BY <1>1, <1>4, <1>5, <1>6

(* Division by a size, as a product: for the inequalities to come.         *)
LEMMA DivisionIs ==
  ASSUME NEW x \in Nat, NEW d \in Nat \ {0}
  PROVE  /\ x \div d \in Nat /\ x % d \in 0 .. d - 1
         /\ x = d * (x \div d) + (x % d)
OBVIOUS

(* What n shards hold of a capacity in bytes, all but one q and one r more.*)
LEMMA BytesSplit ==
  ASSUME NEW n \in Nat \ {0}, NEW d \in Nat \ {0}, NEW q \in Nat, NEW r \in Nat
  PROVE  LET total == n * (q \div d) + ((q + r) \div d - q \div d)
             asked == (n * q + r) \div d
         IN  total <= asked /\ asked < total + n
<1>1. PICK a \in Nat, m \in 0 .. d - 1 : a = q \div d /\ q = d * a + m
  BY DivisionIs
<1>2. PICK b \in Nat, l \in 0 .. d - 1 : b = (q + r) \div d /\ q + r = d * b + l
  <2>1. q + r \in Nat
    OBVIOUS
  <2>. QED
    BY <2>1, DivisionIs
<1>3. PICK k \in Nat, p \in 0 .. d - 1 : k = (n * q + r) \div d /\ n * q + r = d * k + p
  <2>1. n * q + r \in Nat
    OBVIOUS
  <2>. QED
    BY <2>1, DivisionIs
<1>4. PICK i \in Nat : n = i + 1
  <2>1. n - 1 \in Nat /\ n = n - 1 + 1
    OBVIOUS
  <2>. QED
    BY <2>1
<1>5. PICK g \in Nat : g = i * a + b
  OBVIOUS
<1>6. n * a + (b - a) = g /\ n * q + r = i * q + (q + r)
  BY <1>4, <1>5
<1>7. d * g + (i * m + l) = d * k + p
  <2>1. i * (d * a + m) = d * (i * a) + i * m
    <3>1. i * (d * a + m) = i * (d * a) + i * m
      OBVIOUS
    <3>2. i * (d * a) = d * (i * a)
      OBVIOUS
    <3>. QED
      BY <3>1, <3>2
  <2>2. d * g = d * (i * a) + d * b
    BY <1>5
  <2>3. i * q = d * (i * a) + i * m
    BY <1>1, <2>1
  <2>. QED
    BY <1>2, <1>3, <1>6, <2>2, <2>3
<1>8. i * m + l \in Nat /\ i * m + l < d * n
  <2>1. i * m <= i * (d - 1)
    BY <1>1
  <2>2. i * (d - 1) + d <= d * (i + 1)
    OBVIOUS
  <2>. QED
    BY <1>2, <1>4, <2>1, <2>2
<1>9. g <= k
  <2>1. SUFFICES ASSUME g >= k + 1 PROVE FALSE
    OBVIOUS
  <2>2. d * g >= d * (k + 1)
    BY <2>1
  <2>3. d * (k + 1) = d * k + d
    OBVIOUS
  <2>. QED
    BY <1>3, <1>7, <1>8, <2>2, <2>3
<1>10. k < g + n
  <2>1. SUFFICES ASSUME k >= g + n PROVE FALSE
    OBVIOUS
  <2>2. d * k >= d * (g + n)
    BY <2>1
  <2>3. d * (g + n) = d * g + d * n
    OBVIOUS
  <2>. QED
    BY <1>3, <1>7, <1>8, <2>2, <2>3
<1>. QED
  BY <1>1, <1>2, <1>3, <1>6, <1>9, <1>10

(* What the invariant says of the sizes, once memory is allocated.         *)
LEMMA InvCapacityIsSplit == IInv => CapacityIsSplit
<1>1. SUFFICES ASSUME IInv, capacity # None, ~faulted
               PROVE  IF is_item_capacity
                      THEN Together = maxElementCount(capacity, is_item_capacity)
                      ELSE /\ Together <= maxElementCount(capacity, is_item_capacity)
                           /\ maxElementCount(capacity, is_item_capacity) < Together + ShardCount
  BY DEF CapacityIsSplit, Together
<1>2. capacity \in Nat /\ is_item_capacity \in BOOLEAN /\ ShardCount \in Nat \ {0}
  BY <1>1, SizesAre, ShardAssumption DEF IInv
<1>3. PICK q \in Nat, r \in Nat : /\ q = capacity \div ShardCount /\ r = capacity % ShardCount
                                 /\ capacity = ShardCount * q + r
  <2>1. PICK x \in Nat, d \in Nat \ {0} : x = capacity /\ d = ShardCount
    BY <1>2
  <2>2. /\ x \div d \in Nat /\ x % d \in Nat
        /\ x = d * (x \div d) + (x % d)
    OBVIOUS
  <2>. QED
    BY <2>1, <2>2
<1>4. \A s \in Shards : cache[s].max = maxElementCount(IF s = 0 THEN q + r ELSE q, is_item_capacity)
  BY <1>1, <1>3 DEF IInv, ShardInv, given, share
<1>5. CASE is_item_capacity
  <2>1. \A s \in Shards : cache[s].max = IF s = 0 THEN q + r ELSE q
    BY <1>4, <1>5 DEF maxElementCount
  <2>2. PICK first \in Int : first = q + r
    OBVIOUS
  <2>3. \A s \in Shards : cache[s].max = IF s = 0 THEN first ELSE q
    BY <2>1, <2>2
  <2>4. q \in Int
    OBVIOUS
  <2>5. Together = ShardCount * q + (first - q)
    BY <2>3, <2>4, TogetherIs
  <2>. QED
    BY <1>2, <1>3, <1>5, <2>2, <2>5 DEF maxElementCount
<1>6. CASE ~is_item_capacity
  <2>1. PICK first \in Nat, rest \in Nat :
          first = (q + r) \div ElementSize /\ rest = q \div ElementSize
    <3>1. q + r \in Nat
      OBVIOUS
    <3>. QED
      BY <3>1, ElementAssumption, DivisionIs
  <2>2. \A s \in Shards : cache[s].max = IF s = 0 THEN first ELSE rest
    BY <1>4, <1>6, <2>1 DEF maxElementCount
  <2>. first \in Int /\ rest \in Int
    OBVIOUS
  <2>3. Together = ShardCount * rest + (first - rest)
    BY <2>2, TogetherIs
  <2>4. /\ Together <= (ShardCount * q + r) \div ElementSize
        /\ (ShardCount * q + r) \div ElementSize < Together + ShardCount
    BY <1>2, <2>1, <2>3, ElementAssumption, BytesSplit
  <2>. QED
    BY <1>3, <1>6, <2>4 DEF maxElementCount
<1>. QED
  BY <1>2, <1>5, <1>6

(* Between them the shards get the capacity asked for: all of it in items, *)
(* in bytes all but what each shard loses to rounding (allocateMemory).    *)
THEOREM SpecCapacityIsSplit == Spec => []CapacityIsSplit
BY SpecIInv, InvCapacityIsSplit, PTL

-----------------------------------------------------------------------------
(* The exact order of use that a shard stands for: the keys along its list.*)
KeyOrder(c, list) == [i \in DOMAIN list |-> c.key[list[i]]]

(* A sequence of keys, one for each item of the list.                      *)
LEMMA KeyOrderIs ==
  ASSUME NEW c, Typed(c), NEW list \in Seq(Indices(c))
  PROVE  /\ KeyOrder(c, list) \in Seq(Keys \cup {NoKey})
         /\ Len(KeyOrder(c, list)) = Len(list) /\ Len(list) \in Nat
         /\ DOMAIN KeyOrder(c, list) = 1 .. Len(list)
         /\ \A i \in 1 .. Len(list) : KeyOrder(c, list)[i] = c.key[list[i]]
<1>1. DOMAIN list = 1 .. Len(list) /\ Len(list) \in Nat
  OBVIOUS
<1>2. \A i \in 1 .. Len(list) : c.key[list[i]] \in Keys \cup {NoKey}
  BY DEF Typed
<1>3. KeyOrder(c, list) \in [1 .. Len(list) -> Keys \cup {NoKey}]
  BY <1>1, <1>2 DEF KeyOrder
<1>. QED
  BY <1>1, <1>3 DEF KeyOrder

(* A sound shard stands for the keys along the list that it is sound with, *)
(* and a search that finds nothing tells that the key is not among them.   *)
LEMMA SoundOrder ==
  ASSUME NEW c, NEW list, Sound(c, list)
  PROVE  /\ ExactOrder(c) = KeyOrder(c, list) /\ Typed(c) /\ list \in Seq(Indices(c))
         /\ Distinct(list, Indices(c)) /\ c.count = Len(list) /\ Len(list) \in Nat
         /\ \A k \in Keys : c.bucket_count # 0 /\ Search(c, k) = None =>
              \A i \in 1 .. Len(list) : c.key[list[i]] # k
<1>1. PICK empty, chains : Typed(c) /\ Whole(c, list, empty, chains)
  BY DEF Sound
<1>2. /\ LruOrder(c) = list /\ c.memory = "allocated" /\ c.count = Len(list)
      /\ Distinct(list, Indices(c)) /\ list \in Seq(Indices(c)) /\ Len(list) \in Nat
      /\ \A i \in 1 .. Len(list) : list[i] \in Range(list)
  BY <1>1, WholeTells, DistinctIn DEF Whole, ListWhole, Typed
<1>3. ExactOrder(c) = KeyOrder(c, list)
  BY <1>2 DEF ExactOrder, KeyOrder
<1>4. ASSUME NEW k \in Keys, c.bucket_count # 0, Search(c, k) = None
      PROVE  \A i \in Range(list) : c.key[i] # k
  BY <1>1, <1>4, SearchFinds
<1>. QED
  BY <1>1, <1>2, <1>3, <1>4

(* The keys of a list without an item.                                     *)
LEMMA KeyOrderRemove ==
  ASSUME NEW c, Typed(c), NEW list \in Seq(Indices(c)), NEW j \in 1 .. Len(list)
  PROVE  KeyOrder(c, RemoveAt(list, j)) = RemoveAt(KeyOrder(c, list), j)
<1>1. /\ KeyOrder(c, list) \in Seq(Keys \cup {NoKey}) /\ Len(KeyOrder(c, list)) = Len(list)
      /\ \A i \in 1 .. Len(list) : KeyOrder(c, list)[i] = c.key[list[i]]
      /\ Len(list) \in Nat
  BY KeyOrderIs
<1>2. PICK rest, keys : rest = RemoveAt(list, j) /\ keys = RemoveAt(KeyOrder(c, list), j)
  OBVIOUS
<1>3. /\ rest \in Seq(Indices(c)) /\ Len(rest) = Len(list) - 1
      /\ \A i \in 1 .. Len(list) - 1 : rest[i] = IF i < j THEN list[i] ELSE list[i + 1]
  BY <1>2, RemoveAtIs
<1>4. /\ keys \in Seq(Keys \cup {NoKey}) /\ Len(keys) = Len(list) - 1
      /\ \A i \in 1 .. Len(list) - 1 :
           keys[i] = IF i < j THEN KeyOrder(c, list)[i] ELSE KeyOrder(c, list)[i + 1]
  <2>1. PICK s \in Seq(Keys \cup {NoKey}) : s = KeyOrder(c, list) /\ Len(s) = Len(list)
    BY <1>1
  <2>2. j \in 1 .. Len(s)
    BY <2>1
  <2>. QED
    BY <1>2, <2>1, <2>2, RemoveAtIs
<1>5. /\ KeyOrder(c, rest) \in Seq(Keys \cup {NoKey}) /\ Len(KeyOrder(c, rest)) = Len(list) - 1
      /\ \A i \in 1 .. Len(list) - 1 : KeyOrder(c, rest)[i] = c.key[rest[i]]
  BY <1>3, KeyOrderIs
<1>6. ASSUME NEW i \in 1 .. Len(list) - 1
      PROVE  KeyOrder(c, rest)[i] = keys[i]
  <2>1. i \in 1 .. Len(list) /\ i + 1 \in 1 .. Len(list)
    BY <1>1
  <2>2. CASE i < j
    <3>1. rest[i] = list[i] /\ keys[i] = KeyOrder(c, list)[i]
      BY <1>3, <1>4, <2>2
    <3>. QED
      BY <1>1, <1>5, <2>1, <3>1
  <2>3. CASE ~(i < j)
    <3>1. rest[i] = list[i + 1] /\ keys[i] = KeyOrder(c, list)[i + 1]
      BY <1>3, <1>4, <2>3
    <3>2. KeyOrder(c, list)[i + 1] = c.key[list[i + 1]]
      BY <1>1, <2>1
    <3>. QED
      BY <1>5, <3>1, <3>2
  <2>. QED
    BY <2>2, <2>3
<1>. QED
  BY <1>2, <1>4, <1>5, <1>6, SeqEqual

\* The items of the list have the same keys in d as in c.
SameKeys(c, d, list) == \A i \in 1 .. Len(list) : d.key[list[i]] = c.key[list[i]]

(* The keys of a list that has got an item; the others have kept theirs.   *)
LEMMA KeyOrderAppend ==
  ASSUME NEW c, Typed(c), NEW d, Typed(d), Indices(d) = Indices(c),
         NEW list \in Seq(Indices(c)), NEW n \in Indices(c), SameKeys(c, d, list)
  PROVE  KeyOrder(d, Append(list, n)) = Append(KeyOrder(c, list), d.key[n])
<1>1. /\ KeyOrder(c, list) \in Seq(Keys \cup {NoKey}) /\ Len(KeyOrder(c, list)) = Len(list)
      /\ \A i \in 1 .. Len(list) : KeyOrder(c, list)[i] = c.key[list[i]]
      /\ Len(list) \in Nat /\ d.key[n] \in Keys \cup {NoKey}
  <2>1. d.key \in [Indices(d) -> Keys \cup {NoKey}]
    BY DEF Typed
  <2>2. d.key[n] \in Keys \cup {NoKey}
    BY <2>1
  <2>. QED
    BY <2>2, KeyOrderIs
<1>2. PICK more, keys : more = Append(list, n) /\ keys = Append(KeyOrder(c, list), d.key[n])
  OBVIOUS
<1>3. /\ more \in Seq(Indices(d)) /\ Len(more) = Len(list) + 1
      /\ \A i \in 1 .. Len(list) : more[i] = list[i]
      /\ more[Len(list) + 1] = n
  BY <1>2, AppendProperties
<1>4. /\ keys \in Seq(Keys \cup {NoKey}) /\ Len(keys) = Len(list) + 1
      /\ \A i \in 1 .. Len(list) : keys[i] = KeyOrder(c, list)[i]
      /\ keys[Len(list) + 1] = d.key[n]
  BY <1>1, <1>2, AppendProperties
<1>5. /\ KeyOrder(d, more) \in Seq(Keys \cup {NoKey}) /\ Len(KeyOrder(d, more)) = Len(list) + 1
      /\ \A i \in 1 .. Len(list) + 1 : KeyOrder(d, more)[i] = d.key[more[i]]
  BY <1>3, KeyOrderIs
<1>6. ASSUME NEW i \in 1 .. Len(list) + 1
      PROVE  KeyOrder(d, more)[i] = keys[i]
  <2>1. CASE i = Len(list) + 1
    BY <1>3, <1>4, <1>5, <2>1
  <2>2. CASE i # Len(list) + 1
    <3>1. i \in 1 .. Len(list)
      BY <1>1, <2>2
    <3>2. KeyOrder(d, more)[i] = d.key[list[i]]
      BY <1>3, <1>5, <3>1
    <3>3. keys[i] = c.key[list[i]]
      BY <1>1, <1>4, <3>1
    <3>. QED
      BY <3>1, <3>2, <3>3 DEF SameKeys
  <2>. QED
    BY <2>1, <2>2
<1>. QED
  BY <1>2, <1>4, <1>5, <1>6, SeqEqual

(* The abstract order after a call that changes one shard.                 *)
LEMMA OrdersAfter ==
  ASSUME IInv, NEW s \in Shards, NEW d, cache' = [cache EXCEPT ![s] = d],
         d.max = cache[s].max
  PROVE  /\ [x \in Shards |-> ExactOrder(cache'[x])]
              = [[x \in Shards |-> ExactOrder(cache[x])] EXCEPT ![s] = ExactOrder(d)]
         /\ [x \in Shards |-> cache'[x].max] = [x \in Shards |-> cache[x].max]
<1>1. /\ cache'[s] = d /\ \A x \in Shards : x # s => cache'[x] = cache[x]
  BY DEF IInv
<1>2. \A x \in Shards : cache'[x].max = cache[x].max
  BY <1>1
<1>3. \A x \in Shards : ExactOrder(cache'[x]) = IF x = s THEN ExactOrder(d) ELSE ExactOrder(cache[x])
  BY <1>1
<1>. QED
  BY <1>2, <1>3

-----------------------------------------------------------------------------
(* Each step is one of ExactLRU or leaves its variables alone.             *)
LEMMA HitMaps ==
  ASSUME IInv, NEW t \in Threads, NEW k \in Keys, findHit(t, k)
  PROVE  Abstract!Hit(t, k)
<1>1. PICK s \in Shards : s = ShardOf[k]
  BY ShardAssumption
<1>2. PICK c : c = cache[s]
  OBVIOUS
<1>3. PICK list : /\ Sound(c, list)
                  /\ \E j \in 1 .. Len(list) : \E d :
                       /\ cache' = [cache EXCEPT ![s] = d]
                       /\ c.key[list[j]] = k
                       /\ \A m \in j + 1 .. Len(list) : c.key[list[m]] # k
                       /\ Sound(d, Append(RemoveAt(list, j), list[j]))
                       /\ d.max = c.max /\ d.key = c.key
                       /\ d.bucket_count = c.bucket_count
  BY <1>1, <1>2, HitShard
<1>4a. PICK j \in 1 .. Len(list) : \E d :
        /\ cache' = [cache EXCEPT ![s] = d]
        /\ c.key[list[j]] = k
        /\ \A m \in j + 1 .. Len(list) : c.key[list[m]] # k
        /\ Sound(d, Append(RemoveAt(list, j), list[j]))
        /\ d.max = c.max /\ d.key = c.key
        /\ d.bucket_count = c.bucket_count
  BY <1>3
<1>4. PICK d :
        /\ cache' = [cache EXCEPT ![s] = d]
        /\ c.key[list[j]] = k
        /\ \A m \in j + 1 .. Len(list) : c.key[list[m]] # k
        /\ Sound(d, Append(RemoveAt(list, j), list[j]))
        /\ d.max = c.max /\ d.key = c.key
        /\ d.bucket_count = c.bucket_count
  BY <1>4a
<1>5. /\ ExactOrder(c) = KeyOrder(c, list) /\ Typed(c) /\ list \in Seq(Indices(c))
      /\ Len(list) \in Nat
  BY <1>3, SoundOrder
<1>6. PICK rest, list2 : rest = RemoveAt(list, j) /\ list2 = Append(rest, list[j])
  OBVIOUS
<1>7. ExactOrder(d) = KeyOrder(d, list2) /\ Typed(d)
  BY <1>4, <1>6, SoundOrder
<1>8. PICK keys : keys = KeyOrder(c, list)
  OBVIOUS
<1>9. KeyOrder(d, list2) = Append(RemoveAt(keys, j), k)
  <2>1. rest \in Seq(Indices(c)) /\ KeyOrder(c, rest) = RemoveAt(keys, j)
    BY <1>5, <1>6, <1>8, RemoveAtIs, KeyOrderRemove
  <2>2. PICK n : n = list[j] /\ n \in Indices(c)
    BY <1>5
  <2>3. /\ Typed(c) /\ Typed(d) /\ Indices(d) = Indices(c) /\ rest \in Seq(Indices(c))
        /\ n \in Indices(c) /\ SameKeys(c, d, rest)
    BY <1>4, <1>5, <1>7, <2>1, <2>2 DEF Indices, SameKeys
  <2>4. KeyOrder(d, Append(rest, n)) = Append(KeyOrder(c, rest), d.key[n])
    BY <2>3, KeyOrderAppend
  <2>. QED
    BY <1>4, <1>6, <2>1, <2>2, <2>4
<1>10. /\ DOMAIN keys = 1 .. Len(list) /\ Len(keys) = Len(list)
       /\ \A i \in 1 .. Len(list) : keys[i] = c.key[list[i]]
  BY <1>5, <1>8, KeyOrderIs
<1>11. keys[j] = k /\ \A m \in j + 1 .. Len(keys) : keys[m] # k
  <2>1. \A m \in j + 1 .. Len(keys) : m \in 1 .. Len(list)
    BY <1>5, <1>10
  <2>. QED
    BY <1>4, <1>10, <2>1
<1>12. /\ [x \in Shards |-> ExactOrder(cache'[x])]
            = [[x \in Shards |-> ExactOrder(cache[x])] EXCEPT ![s] = ExactOrder(d)]
       /\ [x \in Shards |-> cache'[x].max] = [x \in Shards |-> cache[x].max]
  BY <1>2, <1>4, OrdersAfter
<1>13. [x \in Shards |-> ExactOrder(cache[x])][s] = keys /\ ExactOrder(d) = Append(RemoveAt(keys, j), k)
  BY <1>2, <1>5, <1>7, <1>8, <1>9
<1>14. missed[t] = NoKey /\ missed' = missed
  BY HitShard
<1>. QED
  BY <1>1, <1>10, <1>11, <1>12, <1>13, <1>14 DEF Abstract!Hit, Abstract!RemoveAt, RemoveAt

(* A lookup that misses is a miss: the key is not in the exact order.      *)
LEMMA MissMaps ==
  ASSUME IInv, NEW t \in Threads, NEW k \in Keys, findMiss(t, k)
  PROVE  Abstract!Miss(t, k)
<1>1. PICK s \in Shards : s = ShardOf[k]
  BY ShardAssumption
<1>2. PICK c : c = cache[s]
  OBVIOUS
<1>3. /\ missed[t] = NoKey /\ missed' = [missed EXCEPT ![t] = k] /\ cache' = cache
      /\ c.memory = "allocated" /\ c.bucket_count # 0 /\ Search(c, k) = None
  BY <1>1, <1>2 DEF findMiss, Looking, findFaults
<1>4. PICK list : Sound(c, list)
  BY <1>2, <1>3, ReachedShard
<1>5. /\ ExactOrder(c) = KeyOrder(c, list) /\ Typed(c) /\ list \in Seq(Indices(c))
      /\ \A i \in 1 .. Len(list) : c.key[list[i]] # k
  BY <1>3, <1>4, SoundOrder
<1>6. PICK keys : keys = KeyOrder(c, list)
  OBVIOUS
<1>7. \A i \in 1 .. Len(keys) : keys[i] # k
  BY <1>5, <1>6, KeyOrderIs
<1>8. [x \in Shards |-> ExactOrder(cache[x])][s] = keys
  BY <1>2, <1>5, <1>6
<1>. QED
  BY <1>1, <1>3, <1>7, <1>8 DEF Abstract!Miss, Abstract!Contains

(* An insert is an insert: the key enters last, and in a full shard the    *)
(* first leaves.                                                           *)
LEMMA InsertMaps ==
  ASSUME IInv, NEW t \in Threads, insertMissed(t)
  PROVE  Abstract!Insert(t, ShardOf[missed[t]])
<1>1. PICK s \in Shards : s = ShardOf[missed[t]]
  BY InsertShard
<1>2. PICK c, k : c = cache[s] /\ k = missed[t]
  OBVIOUS
<1>3. k \in Keys /\ k # NoKey /\ missed' = [missed EXCEPT ![t] = NoKey]
  BY <1>2, InsertShard, KeyAssumption
<1>4. PICK list : /\ Sound(c, list)
                  /\ \E n \in Indices(c) : \E d :
                       /\ cache' = [cache EXCEPT ![s] = d]
                       /\ n \notin Range(Kept(c, list))
                       /\ Range(Kept(c, list)) \subseteq Range(list)
                       /\ Sound(d, Append(Kept(c, list), n))
                       /\ d.key = [c.key EXCEPT ![n] = k]
                       /\ d.max = c.max /\ d.bucket_count = c.bucket_count
                       /\ isFull(c) => Len(list) > 1
  BY <1>1, <1>2, InsertShard
<1>5. PICK base : base = Kept(c, list)
  OBVIOUS
<1>6a. PICK n \in Indices(c) : \E d :
        /\ cache' = [cache EXCEPT ![s] = d]
        /\ n \notin Range(base) /\ Range(base) \subseteq Range(list)
        /\ Sound(d, Append(base, n))
        /\ d.key = [c.key EXCEPT ![n] = k]
        /\ d.max = c.max /\ d.bucket_count = c.bucket_count
        /\ isFull(c) => Len(list) > 1
  BY <1>4, <1>5
<1>6. PICK d :
        /\ cache' = [cache EXCEPT ![s] = d]
        /\ n \notin Range(base) /\ Range(base) \subseteq Range(list)
        /\ Sound(d, Append(base, n))
        /\ d.key = [c.key EXCEPT ![n] = k]
        /\ d.max = c.max /\ d.bucket_count = c.bucket_count
        /\ isFull(c) => Len(list) > 1
  BY <1>6a
<1>7. /\ ExactOrder(c) = KeyOrder(c, list) /\ Typed(c) /\ list \in Seq(Indices(c))
      /\ Len(list) \in Nat /\ c.count = Len(list) /\ c.max \in Nat
  BY <1>4, SoundOrder DEF Typed
<1>8. PICK list2 : list2 = Append(base, n)
  OBVIOUS
<1>9. ExactOrder(d) = KeyOrder(d, list2) /\ Typed(d)
  BY <1>6, <1>8, SoundOrder
<1>10. PICK keys : keys = KeyOrder(c, list)
  OBVIOUS
<1>11. /\ keys \in Seq(Keys \cup {NoKey}) /\ Len(keys) = Len(list)
  BY <1>7, <1>10, KeyOrderIs
<1>12. /\ base \in Seq(Indices(c))
       /\ KeyOrder(c, base) = IF Len(keys) < c.max THEN keys ELSE Tail(keys)
  <2>1. CASE isFull(c)
    <3>1. base = RemoveAt(list, 1) /\ 1 \in 1 .. Len(list) /\ ~(Len(keys) < c.max) /\ keys # <<>>
      BY <1>5, <1>6, <1>7, <1>11, <2>1 DEF Kept, isFull
    <3>2. PICK j \in 1 .. Len(list) : j = 1
      BY <3>1
    <3>3. base \in Seq(Indices(c)) /\ KeyOrder(c, base) = RemoveAt(keys, j)
      BY <1>7, <1>10, <3>1, <3>2, RemoveAtIs, KeyOrderRemove
    <3>4. RemoveAt(keys, 1) = Tail(keys)
      BY <1>11, <3>1, TailIsRemoveAt
    <3>. QED
      BY <3>1, <3>2, <3>3, <3>4
  <2>2. CASE ~isFull(c)
    BY <1>5, <1>7, <1>10, <1>11, <2>2 DEF Kept, isFull
  <2>. QED
    BY <2>1, <2>2
<1>13. KeyOrder(d, list2) = Append(KeyOrder(c, base), k)
  <2>1. Indices(d) = Indices(c) /\ d.key[n] = k
    BY <1>6, <1>7 DEF Indices, Typed
  <2>2. SameKeys(c, d, base)
    <3>1. \A i \in 1 .. Len(base) : base[i] \in Range(base) /\ base[i] \in Indices(c)
      BY <1>12 DEF Range
    <3>. QED
      BY <1>6, <1>7, <3>1 DEF Typed, SameKeys
  <2>3. /\ Typed(c) /\ Typed(d) /\ Indices(d) = Indices(c) /\ base \in Seq(Indices(c))
    BY <1>7, <1>9, <1>12, <2>1
  <2>4. KeyOrder(d, Append(base, n)) = Append(KeyOrder(c, base), d.key[n])
    BY <1>12, <2>1, <2>2, <2>3, KeyOrderAppend
  <2>. QED
    BY <1>8, <2>1, <2>4
<1>14. /\ [x \in Shards |-> ExactOrder(cache'[x])]
            = [[x \in Shards |-> ExactOrder(cache[x])] EXCEPT ![s] = ExactOrder(d)]
       /\ [x \in Shards |-> cache'[x].max] = [x \in Shards |-> cache[x].max]
  BY <1>2, <1>6, OrdersAfter
<1>15. /\ [x \in Shards |-> ExactOrder(cache[x])][s] = keys
       /\ [x \in Shards |-> cache[x].max][s] = c.max
       /\ ExactOrder(d) = Append(IF Len(keys) < c.max THEN keys ELSE Tail(keys), k)
  BY <1>2, <1>7, <1>9, <1>10, <1>12, <1>13
<1>. QED
  BY <1>1, <1>2, <1>3, <1>14, <1>15 DEF Abstract!Insert

(* Allocation and release are a resize: every exact order is empty after.  *)
LEMMA ResizeMaps ==
  ASSUME IInv, IInv', AllIdle, missed' = missed,
         \A s \in Shards : cache'[s].memory = "allocated" => Sound(cache'[s], <<>>)
  PROVE  Abstract!Resize
<1>1. ASSUME NEW s \in Shards
      PROVE  ExactOrder(cache'[s]) = <<>> /\ cache'[s].max \in Nat
  <2>1. PICK c : c = cache'[s]
    OBVIOUS
  <2>2. c.max \in Nat
    BY <2>1 DEF IInv, ShardInv
  <2>3. CASE c.memory = "allocated"
    <3>1. ExactOrder(c) = KeyOrder(c, <<>>)
      BY <2>1, <2>3, SoundOrder
    <3>2. KeyOrder(c, <<>>) = <<>>
      BY DEF KeyOrder
    <3>. QED
      BY <2>1, <2>2, <3>1, <3>2
  <2>4. CASE c.memory # "allocated"
    BY <2>1, <2>2, <2>4 DEF ExactOrder
  <2>. QED
    BY <2>3, <2>4
<1>2. [s \in Shards |-> ExactOrder(cache'[s])] = [s \in Shards |-> <<>>]
  BY <1>1
<1>3. [s \in Shards |-> cache'[s].max] \in [Shards -> Nat]
  BY <1>1
<1>. QED
  BY <1>2, <1>3 DEF Abstract!Resize, AllIdle

(* What leaves the shards and the missed keys is a stutter.                *)
LEMMA StutterMaps ==
  ASSUME cache' = cache, missed' = missed
  PROVE  UNCHANGED Abstract!vars
BY DEF Abstract!vars

(* Through any sequence of hits, misses, inserts and evictions by any      *)
(* number of threads, each shard answers and evicts as the exact order of  *)
(* use says.                                                               *)
THEOREM SpecImplementsExactLRU == Spec => ImplementsExactLRU
<1>1. Init => Abstract!Init
  <2>1. SUFFICES ASSUME Init PROVE Abstract!Init
    OBVIOUS
  <2>2. /\ cache = [s \in Shards |-> Unallocated] /\ missed = [t \in Threads |-> NoKey]
        /\ Unallocated.max = 0 /\ Unallocated.memory = "none"
    BY <2>1 DEF Init, Unallocated
  <2>3. \A s \in Shards : cache[s].max = 0 /\ ExactOrder(cache[s]) = <<>>
    BY <2>2 DEF ExactOrder
  <2>. QED
    BY <2>2, <2>3 DEF Abstract!Init
<1>2. IInv /\ IInv' /\ [Next]_vars => [Abstract!Next]_(Abstract!vars)
  <2>1. SUFFICES ASSUME IInv, IInv', [Next]_vars PROVE [Abstract!Next]_(Abstract!vars)
    OBVIOUS
  <2>2. ASSUME NEW request \in Capacities, allocate(request[1], request[2])
        PROVE  Abstract!Next
    <3>1. request = <<request[1], request[2]>>
      BY SizeAssumption
    <3>2. AllIdle /\ missed' = missed
      BY <2>2 DEF allocate
    <3>3. \A s \in Shards : cache'[s].memory = "allocated" => Sound(cache'[s], <<>>)
      BY <2>1, <2>2, <3>1, AllocateIInv
    <3>. QED
      BY <2>1, <3>2, <3>3, ResizeMaps DEF Abstract!Next
  <2>3. ASSUME NEW request \in Capacities, allocateFaulty(request[1], request[2])
        PROVE  UNCHANGED Abstract!vars
    <3>1. cache' = cache /\ missed' = missed
      BY <2>3 DEF allocateFaulty
    <3>. QED
      BY <3>1, StutterMaps
  <2>4. ASSUME release
        PROVE  Abstract!Next
    <3>1. AllIdle /\ missed' = missed
      BY <2>4 DEF release
    <3>2. \A s \in Shards : cache'[s].memory = "allocated" => Sound(cache'[s], <<>>)
      BY <2>1, <2>4, ReleaseIInv
    <3>. QED
      BY <2>1, <3>1, <3>2, ResizeMaps DEF Abstract!Next
  <2>5. ASSUME Fault
        PROVE  UNCHANGED Abstract!vars
    <3>1. cache' = cache /\ missed' = missed
      BY <2>5 DEF Fault
    <3>. QED
      BY <3>1, StutterMaps
  <2>6. ASSUME NEW t \in Threads, NEW k \in Keys, findHit(t, k) \/ findMiss(t, k)
        PROVE  Abstract!Next
    BY <2>1, <2>6, HitMaps, MissMaps DEF Abstract!Next
  <2>7. ASSUME NEW t \in Threads, insertMissed(t)
        PROVE  Abstract!Next
    <3>1. ShardOf[missed[t]] \in Shards
      BY <2>1, <2>7, InsertShard
    <3>. QED
      BY <2>1, <2>7, <3>1, InsertMaps DEF Abstract!Next
  <2>8. ASSUME UNCHANGED vars
        PROVE  UNCHANGED Abstract!vars
    <3>1. cache' = cache /\ missed' = missed
      BY <2>8 DEF vars
    <3>. QED
      BY <3>1, StutterMaps
  <2>. QED
    BY <2>1, <2>2, <2>3, <2>4, <2>5, <2>6, <2>7, <2>8
       DEF Next, releaseFaulty, findFaulty, insertFaulty
<1>. QED
  BY <1>1, <1>2, SpecIInv, PTL DEF Spec, ImplementsExactLRU, Abstract!Spec
=============================================================================
