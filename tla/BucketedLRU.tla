----------------------------- MODULE BucketedLRU -----------------------------
(***************************************************************************)
(* BucketedLRU: the adapter of bucketed_adapter.h over shards that are     *)
(* LRUCaches.  Threads look a key up in its shard and, if that misses,     *)
(* compute the value and insert it: two steps, as the shard is locked in   *)
(* each but not between them.  How the hash is folded to a shard is left   *)
(* open.  A fault, which the code does not check for, ends the program.    *)
(***************************************************************************)
EXTENDS LRUCache

CONSTANTS
  Threads,
  ShardCount,           (* bucketCount()                                   *)
  ShardOf,              (* getBucketNr of every key                        *)
  Capacities,           (* pairs of a capacity and is_item_capacity        *)
  LoadFactors           (* values of the template's HashTableLoadFactor    *)

Shards == 0 .. ShardCount - 1

ASSUME ShardAssumption ==
  ShardCount \in Nat \ {0} /\ ShardOf \in [Keys -> Shards]
ASSUME SizeAssumption ==
  Capacities \subseteq Nat \X BOOLEAN /\ LoadFactors \subseteq Nat \ {0}

VARIABLES
  cache,                (* the LRUCache of each shard                      *)
  load_factor,          (* the same for ever                               *)
  capacity,             (* what was allocated, in items or bytes, or None  *)
  is_item_capacity,
  missed,               (* the key each thread is to insert, or NoKey      *)
  faulted               (* there has been a fault                          *)

sizes == <<load_factor, capacity, is_item_capacity>>
vars == <<cache, sizes, missed, faulted>>

Init ==
  /\ cache = [s \in Shards |-> Unallocated]
  /\ load_factor \in LoadFactors
  /\ capacity = None /\ is_item_capacity = FALSE
  /\ missed = [t \in Threads |-> NoKey]
  /\ faulted = FALSE

Fault == faulted' = TRUE /\ UNCHANGED <<cache, sizes, missed>>

-----------------------------------------------------------------------------
(* Between the calls                                                       *)

AllIdle == ~faulted /\ \A t \in Threads : missed[t] = NoKey

\* Mutant of share: the remainder goes to every shard.
shareRoundedUp(s, amount) == (amount \div ShardCount) + (amount % ShardCount)

share(s, amount) ==
  (amount \div ShardCount) + IF s = 0 THEN amount % ShardCount ELSE 0

allocate(amount, in_items) ==
  /\ AllIdle /\ capacity = None
  /\ \A s \in Shards : ~allocateFaults(share(s, amount), in_items)
  /\ cache' = [s \in Shards |->
       allocateMemory(cache[s], share(s, amount), in_items, load_factor)]
  /\ capacity' = amount /\ is_item_capacity' = in_items
  /\ UNCHANGED <<load_factor, missed, faulted>>

allocateFaulty(amount, in_items) ==
  /\ AllIdle /\ capacity = None
  /\ \E s \in Shards : allocateFaults(share(s, amount), in_items)
  /\ faulted' = TRUE
  /\ capacity' = amount /\ is_item_capacity' = in_items
  /\ UNCHANGED <<cache, load_factor, missed>>

\* Also what the destructor does.
release ==
  /\ AllIdle
  /\ \A s \in Shards : ~releaseFaults(cache[s])
  /\ cache' = [s \in Shards |-> releaseMemory(cache[s])]
  /\ capacity' = None
  /\ UNCHANGED <<load_factor, is_item_capacity, missed, faulted>>

releaseFaulty ==
  /\ AllIdle
  /\ \E s \in Shards : releaseFaults(cache[s])
  /\ Fault

-----------------------------------------------------------------------------
(* consumeCachedOrCompute                                                  *)

Looking(t) == ~faulted /\ missed[t] = NoKey /\ capacity # None
Inserting(t) == ~faulted /\ missed[t] # NoKey

findHit(t, k) ==
  LET c == cache[ShardOf[k]]
  IN  /\ Looking(t) /\ ~findFaults(c)
      /\ Search(c, k) # None
      /\ cache' = [cache EXCEPT ![ShardOf[k]] = moveToTail(c, Search(c, k))]
      /\ UNCHANGED <<sizes, missed, faulted>>

findMiss(t, k) ==
  LET c == cache[ShardOf[k]]
  IN  /\ Looking(t) /\ ~findFaults(c)
      /\ Search(c, k) = None
      /\ missed' = [missed EXCEPT ![t] = k]
      /\ UNCHANGED <<cache, sizes, faulted>>

findFaulty(t, k) ==
  Looking(t) /\ findFaults(cache[ShardOf[k]]) /\ Fault

insertMissed(t) ==
  LET s == ShardOf[missed[t]]
  IN  /\ Inserting(t) /\ ~insertFaults(cache[s])
      /\ cache' = [cache EXCEPT ![s] = insert(cache[s], missed[t])]
      /\ missed' = [missed EXCEPT ![t] = NoKey]
      /\ UNCHANGED <<sizes, faulted>>

insertFaulty(t) ==
  Inserting(t) /\ insertFaults(cache[ShardOf[missed[t]]]) /\ Fault

Next ==
  \/ \E request \in Capacities :
       allocate(request[1], request[2]) \/ allocateFaulty(request[1], request[2])
  \/ release \/ releaseFaulty
  \/ \E t \in Threads, k \in Keys :
       findHit(t, k) \/ findMiss(t, k) \/ findFaulty(t, k)
  \/ \E t \in Threads : insertMissed(t) \/ insertFaulty(t)

Spec == Init /\ [][Next]_vars

-----------------------------------------------------------------------------
(* Properties                                                              *)

Live == {s \in Shards : cache[s].memory = "allocated"}
Reached(c, from, link) == Range(Walk(c, from, link))

(* Counts, indices and keys have their types; what is linked has been      *)
(* written.                                                                *)
TypeOK ==
  /\ missed \in [Threads -> Keys \cup {NoKey}]
  /\ faulted \in BOOLEAN /\ is_item_capacity \in BOOLEAN
  /\ load_factor \in LoadFactors
  /\ capacity # None => <<capacity, is_item_capacity>> \in Capacities
  /\ \A s \in Shards : cache[s].memory \in {"none", "allocated", "released"}
  /\ \A s \in Live :
       LET c == cache[s]
           link == Indices(c) \cup {None}
       IN  /\ c.count \in 0 .. c.max /\ c.bucket_count \in 0 .. c.max
           /\ {c.head, c.tail, c.empty} \subseteq link
           /\ c.bucket \in [Buckets(c) -> link]
           /\ c.list_next \in [Indices(c) -> link]
           /\ \A i \in Reached(c, c.head, c.list_next) :
                /\ c.key[i] \in Keys
                /\ c.list_prev[i] \in link /\ c.bucket_next[i] \in link
                /\ c.bucket_prev[i] \in -c.bucket_count .. c.max - 1

(* Under a shard's lock every element is in the LRU list, and then in the  *)
(* chain of its key and in no other, or among the empty ones; the list and *)
(* the chains are the same backwards, where the head of a chain tells its  *)
(* bucket; and the count is the length of the list.                        *)
ShardIsWhole ==
  \A s \in Live :
    LET c == cache[s]
        list == LruOrder(c)
        empty == Walk(c, c.empty, c.list_next)
    IN  /\ IsInjective(list \o empty) /\ Range(list \o empty) = Indices(c)
        /\ Walk(c, c.tail, c.list_prev) = Reverse(list)
        /\ c.count = Len(list)
        /\ \A b \in Buckets(c) :
             LET chain == Chain(c, b)
             IN  /\ IsInjective(chain)
                 /\ Range(chain) = {i \in Range(list) : whichBucket(c, c.key[i]) = b}
                 /\ \A j \in DOMAIN chain :
                      c.bucket_prev[chain[j]] = IF j = 1 THEN -b - 1 ELSE chain[j - 1]

(* coherent() is true wherever the code asserts it, but for the assertion  *)
(* at the end of evict (325-327): there coherent() takes the element whose *)
(* number is the count for an empty one, which it is only when the element *)
(* evicted is the last of the array.                                       *)
CoherentButAfterEvict ==
  \A s \in Live :
    LET c == cache[s]
    IN  c.bucket_count # 0 =>
          /\ coherent(c)
          /\ isFull(c) /\ ~evictFaults(c) =>
               (coherent(evict(c)) <=> c.head = c.max - 1)

(* Only a cache never given memory, or a capacity that leaves a shard      *)
(* without two elements or with fewer elements than the load factor, can   *)
(* lead to an index or a pointer that is none or to a division by zero:    *)
(* no sequence of calls does so by itself.                                 *)
FaultsOnlyWithoutRoom ==
  LET max(s) == maxElementCount(share(s, capacity), is_item_capacity)
  IN  faulted =>
        IF capacity = None THEN \A s \in Shards : cache[s].memory = "none"
        ELSE \E s \in Shards : max(s) < 2 \/ max(s) < load_factor

(* The shards together have the capacity asked for: in items all of it, in *)
(* bytes no more, and less only by what is lost to rounding in each shard. *)
CapacityIsSplit ==
  capacity # None /\ ~faulted =>
    LET given == FoldSet(LAMBDA s, sum : sum + cache[s].max, 0, Shards)
        asked == maxElementCount(capacity, is_item_capacity)
    IN  IF is_item_capacity THEN given = asked
        ELSE given <= asked /\ asked < given + ShardCount

ExactOrder(c) ==
  IF c.memory # "allocated" THEN <<>>
  ELSE LET list == LruOrder(c) IN [i \in DOMAIN list |-> c.key[list[i]]]

Abstract == INSTANCE ExactLRU WITH
  room <- [s \in Shards |-> cache[s].max],
  order <- [s \in Shards |-> ExactOrder(cache[s])]

(* Through any sequence of hits, misses, inserts and evictions by threads  *)
(* that may miss a key at the same time, each shard answers and evicts as  *)
(* its exact order of use says.                                            *)
ImplementsExactLRU == Abstract!Spec
=============================================================================
