# Verification of DeferredLRU

TLA+ specifications, TLC runs and TLAPS proofs for the concurrent cache of
`src/include/deferred_lru.h` and for the containers of this repository that it is
benchmarked against: `HashFixed`, `ConcurrentLRU`, and `LRUCache` with the
`BucketedAdapter` over it.

## The system

| Part | State | Operations | Hard about it |
|---|---|---|---|
| **DeferredLRU** (`include/deferred_lru.h`) | hash buckets with a lock each, doubly linked LRU list between `lru_head_` and `lru_tail_`, singly linked Recent list with a count, pool of empty nodes, `lru_lock_`, two request flags, an approximate size | `find`, `insert`, `consumeCachedOrCompute`; inside them `consolidateCache` (`purgeOld`, `pullRecent`); `allocateMemory`, `releaseMemory` | lock-free lists updated by all threads while one consolidates; nodes that are in some structures and not yet in others; retry loops; requests by flag |
| DeferredLRU of the benchmark (`containers/deferred_lru.h`) | the same with statistics | the same | the same |
| ConcurrentLRU (`containers/concurrent_lru.h`) | LRU list with a spin lock in every node, hash chains under bucket locks | `find`, `insert`, eviction | hand-over-hand locking from both ends; nodes evicted while being moved; locks tried against the list's order |
| LRUCache (`containers/lru.h`) | index-linked LRU list and hash chains in arrays | `find`, `insert`, `evict` | boundaries of the index encoding; what happens without room |
| HashFixed (`containers/hash_fixed.h`) | slots, slot counter, chain heads | `find`, `insert` | counter overshoot, lock-free push |
| BucketedAdapter, container base, config | shards, capacity | `allocateMemory`, routing by key | division of the capacity, zero sizes |
| Wrappers (TBB, HHVM, dummy) | a foreign container | forwarding | nothing of their own |
| Benchmark driver, generators, counters, logging | run parameters | OpenMP loop over a container | checks that a found value is its key's |

Threads of the driver share one container and call it without further
coordination. Inside DeferredLRU they interact through:

- *bucket locks*: `find` holds its bucket's lock from the search to the end of
  `markNodeRecent`; `addNodeToBucket` and `removeNodeFromBucket` take it for a
  whole critical section;
- *`lru_lock_`*, by `try_lock` only: the winner consolidates, the others go on;
- *compare_exchange* on `recent_head_` (lookups), `empty_head_` (inserts pop,
  `purgeOld` pushes) and `lru_head_.lru_next` (inserts and `pullRecent` add);
- *flags*: `pull_request_`, `purge_request_`, raised by anyone, lowered by the
  consolidator;
- *the recent link of a node*: null if and only if the node may be evicted.

In ConcurrentLRU threads interact through the spin locks of the nodes: a lookup
and an eviction each lock up to three neighbours of a list, an eviction also a
neighbour in a chain. In a BucketedLRU they share nothing but the `lock_` of a
shard, held for a whole `find` or a whole `insert`.

`PROJECT.json` lists what is hard to test about each part ("hazards").

## Modules

- `DeferredLRU.tla`: the cache. Variables have the names of the attributes.
  Pointers are node numbers `1 .. Capacity` (the array `nodes_`), `HEAD`, `TAIL`
  (the two list heads), `TEMP` (the list head on `pullRecent`'s stack, of which
  only one is in use because `lru_lock_` is held), `DUMMY` (the Recent list's
  terminal) and `NULL`. A bucket's chain is the sequence of its nodes. Of each
  thread it has a program counter `pc`, the point a nested call returns to
  (`ret`), the key (`arg`) and the locals `node`, `next`, `prev`, `freed`. One
  operator is one atomic step of one function; `Find`, `Allocate`, `Fill`,
  `AddSublist`, `Purge`, `Pull` group them by function. A few definitions are
  marked as mutants: each is a plausible bug in the definition below it, used to
  see that a property would catch it, and no part of the specification.
- `DeferredLRUProperties.tla`: what must hold, with the structures as read off
  the pointers (`LruOrder`, `Pool`, `Recent`, `Slice`, ...).
- `LinkedLists.tla`: how the properties read a list off its links (`Follow`,
  `Reached`); `LinkedListProofs.tla`: the lemmas about it that all proofs share.
- `DeferredLRUInvariant.tla`, `DeferredLRUProofs.tla`, `DeferredLRUSafetyProofs.tla`
  and `DeferredLRURefinementProofs.tla`: theorems for every value of the constants.
  The first defines the inductive invariants; the second has the proofs about locks
  and control points and the lemmas on what steps do to the nodes and lists; the third
  the proof of the safety properties, action by action; the last that of the
  refinement.
- `HashFixed.tla`: the lock-free table that only grows, with its properties. The
  slots of `storage_` are `0 .. Capacity - 1`, a link is a slot or `None` (-1),
  and memory holds `Garbage` until it is written. Of each thread it has a program
  counter, the key of its call and the locals `current`, `newelem`, `next`.
  `VisitHit` and `VisitNext` are the loop of `find`; `InsertFull` to `PushFails`
  are `insert`, one step per access to the counter or to the head of a chain.
- `HashFixedProofs.tla`: its theorems. `MCHashFixed.tla`: its instance, which
  also remembers which lookups have to succeed.
- `EvictingCache.tla`: what the cache promises its callers, with no lists, locks or
  pointers: slots, an order of use that is updated late, a set of recent slots.
  `DeferredLRURefinement.tla` maps `DeferredLRU` to it: a slot is a node and is
  taken while the node is in a bucket (`storedNow`); a lookup has `found` a slot from
  its search to its mark; `recent` are the nodes with a recent link; the order is the
  LRU list without a node that `purgeOld` has removed from its bucket and not yet
  unlinked (`orderNow`); `scanned` are the nodes behind the one `purgeOld` visits.
- `ConcurrentLRU.tla`: the cache with a spin lock in every node. `lock` says who has
  the lock of a node; `lru_next`, `lru_prev` and `lru_flag` are the node's, `chain`
  is a bucket's chain as a sequence. One operator is one step of one function;
  `Find`, `lruRemoveNode`, `lruInsertLast` and `Insert` group them.
  `ConcurrentLRUProperties.tla`: its properties; `MCConcurrentLRU.tla`: its
  instances, in which each thread makes calls of one kind, chosen at the start;
  `ConcurrentLRUProofs.tla`: its theorems.
- `LRUCache.tla`: the sequential cache as functions on a record of its attributes,
  with the code's encoding by indices (`None` is -1, `bucket_prev` of a chain's
  first node is minus its bucket's number minus one), and `coherent()`.
  `BucketedLRU.tla`: the adapter, with an `LRUCache` per shard, any number of
  threads, and the sizes; its properties. `ExactLRU.tla`: what it promises, an
  order of keys per shard. `MCBucketedLRU.tla`: its instance. `LRUCacheProofs.tla`:
  lemmas on the operations; `BucketedLRUProofs.tla`: the theorems.
- `CountedInserts.tla`: `DeferredLRU` with a history variable, the number of inserts that
  have begun since memory was allocated. `MCDeferredLRU.tla`, `MCInserters.tla`: instances
  for TLC; the second bounds that number.

### Steps

An action is one access to memory shared without a common lock, together with
the accesses before and after it that no other thread can see: those to locals,
to a node no other thread can reach, to memory the held bucket lock protects, and
the release of that lock, for which others can only wait. So

- `find` is: wait for the lock and search; read the value and the recent link
  and prepare the mark; compare_exchange; count and unlock; read the threshold;
  raise the flag; `try_lock`. A miss, and a hit on a node marked already, end
  their critical section in the step that decides so.
- The critical sections of `addNodeToBucket` and `removeNodeFromBucket` are one
  step each, taken when the lock is free.
- `removeNodeFromLru` is one step: the links of a node that is not next to the
  list head, and the two links to it, are touched by the holder of `lru_lock_`
  only. `LruListIsWhole` is what this rests on, and it is checked.
- The release of `lru_lock_` is a step by itself, apart from the flag read or
  lowered before it: `try_lock` does not wait, so a request raised in between is
  left for whoever consolidates next.
- Everything else that is shared is a step by itself: the test of `lru_prev` in
  `pullRecent` and the clearing of the recent link, the two halves of a
  compare_exchange loop in `allocateNode` (read `lru_next`, then exchange), the
  exchange of `recent_head_` and the reset of `recent_count_`, the raising of a
  flag and the `try_lock`, the end of a purge and the lowering of its flag, the
  compare_exchange of a list addition and its back link.

In `ConcurrentLRU` a step acquires one lock and makes the accesses under it up to
the next acquisition, which nobody can see before the lock is released; the last
release of a group is part of the last access. Where two locks are released they
are two steps, since `try_lock` and a reader without lock can tell. The read of the
list's last node (`TailRead`), made without a lock, is a step by itself.

In `BucketedLRU` a `find` and an `insert` are a step each, by the shard's lock.

### Abstractions

- A value is the key it was computed from. `onDelete` moves it out: `NoKey`.
- Memory is sequentially consistent; the relaxed orderings of the code are not
  modelled. A spurious failure of `compare_exchange_weak` repeats a loop with
  the values it had and is a stuttering step; `try_lock` fails only when the
  lock is held.
- Sizes are constants: `Capacity >= 1` items, thresholds `>= 1`
  (`allocateMemory` takes `max(.., 1)`), buckets and locks computed as the code
  does. Capacities in bytes, and too small ones, are modelled in `BucketedLRU` only.
- `releaseMemory` runs when no call is in progress, and `allocateMemory` after
  it, which is the contract of the destructor and constructor.
- A chain is the sequence of its nodes. The links `bucket_next` make one as long as
  no node is in two chains, and that is so as long as the pool is not deceived
  (`NodeHasOneOwner`, under `PoolUndeceived`). When the pool's ABA gives a cached node
  to an insert, `addNodeToBucket` (554) overwrites the link that the other chain goes
  through; the model does not follow the code there. The run `pool_aba` ends at the
  first state after the deceived exchange, before that, and no theorem claims anything
  of the chains after it.
- What the code does with an index of -1, a null or uninitialized pointer or a
  bucket count of 0 is undefined. `BucketedLRU` has a fault there, after which
  nothing happens; nothing is claimed of what the program would do.
- The fold of the hash to a shard is any function of the key. The size of an
  element, a `double` in the code, is a whole number of bytes.
- `htFind` and the chains of `ConcurrentLRU` are accessed under a bucket's lock and
  appear as sequences; its element count, which threads change without a common
  lock and no decision depends on, is left out.
- Locals are set to `NULL` when they go out of scope.

## Properties and runs

| Run | Instance | Checks |
|---|---|---|
| `cache` | one inserting, one looking-up thread; 3 nodes, 2 keys in one bucket; pull at 2, purge 2 | `TypeOK`, `LockDiscipline`, `HitReadsOwnValue`, `NodeHasOneOwner`, `LruListIsWhole`, `SizeExactAtRest`, `ValuesLeaveThroughOnDelete` |
| `readers` | one inserting, two looking-up threads; 2 nodes, 2 keys in 2 buckets; pull at 1, purge 1 | `HitStaysInBucket`, `RecentLinkTells` |
| `inserters` | two inserting threads, one of which also looks up; 3 nodes, 2 keys; at most 4 inserts | `HitReadsOwnValue`, `NodeHasOneOwner`, `LruListIsWhole`, `RecentLinkTells`, `PoolUndeceived`, `EntersAtHead` |
| `progress` | one looking-up thread, one that looks up and inserts; 2 nodes, 2 keys in 2 buckets, fair | `LookupsAndConsolidationsEnd`, `ImplementsEvictingCache` |
| `alone` | one thread using `find` and `consumeCachedOrCompute`; 3 nodes, 4 keys, fair | `InsertsGetNodes`, `ImplementsEvictingCache` |
| `table` | `HashFixed`: three threads, 3 slots, 2 keys in one bucket, fair | `TypeOK`, `CounterTells`, `NoSlotTwice`, `DeletesWhatIsStored`, `StoredIsFound`, `ChainsGrowAtHead`, `CallsReturn` |
| `spin_locks` | `ConcurrentLRU`: three threads that look up or insert; 3 nodes, 2 keys in one bucket | `TypeOK`, `ListsAreWhole`, `UnlockedIsCoherent`, `NeighboursStay`, `OnlyTheCircleBlocks`, `HitIsCached`, `OrderOfUse` |
| `sharded` | `BucketedLRU`: two threads, two shards of 0 to 3 elements from 9 capacities, load factor 1 and 2, 4 keys | `TypeOK`, `ShardIsWhole`, `CoherentButAfterEvict`, `FaultsOnlyWithoutRoom`, `CapacityIsSplit`, `ImplementsExactLRU` |
| `spin_stuck` | `ConcurrentLRU`: two threads, 2 nodes, fair | violates `EvictionEnds` |
| `stuck_inserter` | one inserting, one looking-up thread; 2 nodes, one key, fair | violates `InsertsGetNodes` |
| `capacity_one` | as `alone`, one node | violates `InsertsGetNodes` |
| `pool_aba` | as `inserters`, 2 nodes and 4 inserts | violates `PoolHoldsEmptyNodes` |

`NodeHasOneOwner` says that every node is in the pool, in one place of one
bucket, or in the hands of one thread. `LruListIsWhole` says that the list runs
from head to tail through exactly the cached nodes, but for those an insert has
yet to link in and those `pullRecent` holds, and back again but for the one link
an addition has yet to store. `RecentLinkTells` says that a recent link is set
exactly for nodes in the Recent list, in the slice `pullRecent` works through,
being marked, or between bucket and LRU list. `PoolUndeceived` says that when the
compare_exchange of `allocateNode` is about to succeed, the node at the pool's head
still leads to the node that was read as its next. `EntersAtHead` is an action
property: no step reorders the LRU list; nodes enter at its head, and leave it one
at a time, taken by the thread that consolidates, and never from next to the head. `HitReadsOwnValue` and `HitStaysInBucket` relate a lookup to
evictions and inserts: until it lets the bucket go, the node it found keeps its item,
its place in that bucket, and is in no thread's hands. `ValuesLeaveThroughOnDelete` is
an action property and says that each value is handed to `onDelete` once: it leaves
its node when `purgeOld` or `releaseMemory` hands the item over, at no other time, and
what they hand over is there and then gone.

`LookupsAndConsolidationsEnd` says that a lookup returns and that who has `lru_lock_`
lets it go, unless the compare_exchange in `markNodeRecent` of some lookup is
overtaken for ever (`OvertakenForEver`). The loop there is lock-free and no more: it fails whenever another thread marked or pulled
since it read `recent_head_`. One thread alone cannot do that to itself, but two
lookups in different buckets can: in the instance of `progress` a thread that looks up
and pulls again and again, each time between the other's read and its exchange, holds
it up for ever, and TLC finds this when the condition is left out. The condition
asks for both: a thread that stays in that loop, and a `recent_head_` that changes
again and again. Waiting for a bucket lock or a consolidation is no excuse.

Of `HashFixed`, `CounterTells` relates the counter to the threads that still have
to give a slot back, `NoSlotTwice` a slot being filled to every link there is;
`DeletesWhatIsStored` says that at rest the slots below the counter are those in
the chains, `ChainsGrowAtHead` that a chain a lookup walks loses nothing,
`StoredIsFound` that a lookup therefore finds what was stored before it began.

`ImplementsEvictingCache` is a refinement: whatever the threads do at once, a
lookup is answered as if it were one step, from what is stored then; an item is
evicted only from the cold end past recent ones, never while a lookup has it; only
what was used moves to the warm end. An eviction passes over a node because it was
recent when `purgeOld` looked: with two inserting threads such a node may lose its
mark before a warmer one is evicted, so "the coldest that is not recent" does not
hold at the moment of the eviction, and `EvictingCache` has `scanned` for it. The
refinement was also found to hold in the instances of `cache`, `readers` and
`inserters`, which take too long with it to keep.

Of `ConcurrentLRU`, `ListsAreWhole` says that at every step both lists are whole in
both directions and each node is in one of them or in one thread's hands;
`OrderOfUse` that nodes enter the LRU list at its tail, an eviction takes its first,
and the others keep their order. `UnlockedIsCoherent` is what `assertIsCoherent`
says of a cache at rest, here of every node that nobody has locked.
`NeighboursStay` is what `lruRemoveNode` relies on after it has let its node go.
`HitIsCached` is what a lookup needs of its check of the node, which it found before
it had the node's lock: what it copies is a value of its key, from a node that is in
the chain of that key and in the LRU list then.
`OnlyTheCircleBlocks` says that all busy threads wait for each other only in the one
way described below.

Of `LRUCache`, `ShardIsWhole` says that list, empty elements and chains fit together
both ways; `CoherentButAfterEvict` where the asserted `coherent()` holds;
`FaultsOnlyWithoutRoom` that only the sizes can lead to undefined behaviour, no
sequence of calls. `ImplementsExactLRU` is a refinement: the arrays behave as an
order of keys, also with a key in it twice.

**Bounds.** Three nodes are the least with an eviction that leaves two nodes and
with a stack list of two nodes in `pullRecent`; two keys in one bucket give
chains with duplicates (an insert does not check for its key) and searches past
a node. In `cache`, `readers`, `progress` and `alone` nothing else is bounded:
the runs visit every reachable state, through any number of inserts, evictions,
pulls, releases and allocations. There only one thread inserts. `progress` has
two buckets, as marks race only then: a lookup keeps its bucket's lock. With two
inserting threads the pool's compare_exchange can be deceived (see below), which
takes at least `Capacity + 2` inserts: one waiting in `allocateNode`, `Capacity`
to empty the pool, one to purge. `inserters` therefore allows `Capacity + 1`,
which still has both threads race for the pool, the bucket and the list head, an
eviction and pulls. In `table` nothing is bounded but the instance: with three
slots and three threads all three can fill slots and push at once, two can
overshoot while the third fills the last slot (never all, since a thread looks
before it takes and the counter does not fall below the capacity again);
duplicates of a key arise since two threads may miss it together.

In `spin_locks` three threads on three nodes have a predecessor, a node and
a successor in other hands at the same time; the pool may be in any order; nothing
else is bounded. That a thread keeps to one kind of calls loses little, since
between calls it holds nothing. In `sharded` three elements give a node inside the
list and inside a chain; the capacities give shards with 0 to 3 elements, with less
than the load factor, and a byte capacity below an element; nothing else is bounded.

**Symmetry** of keys is used where all keys hash alike, of the lookup threads
where they do the same, of threads and nodes in `spin_locks`; not in the runs with liveness.

**Fairness.** `FairSpec` has `WF` on the steps of every thread inside a call: a
scheduled thread keeps running. It has `SF` on the steps that acquire a bucket
lock: a lock that becomes free again and again is got in the end, which spin
locks and mutexes give in practice though not by contract. No thread is obliged
to start a call, so a lookup that would rescue an insert may never come.
`try_lock` and compare_exchange have no fairness of their own. In `table` it is
`WF` on the steps of every thread inside a call, with no `SF`: the retries of
`insert` are bounded by the slots. In `spin_stuck` it is `SF` on the steps of every
thread inside a call: a lock that becomes free again and again is got. The runs
`spin_locks`, `spin_stuck` and `sharded` do not check for deadlock by TLC: the
first two reach the circle described below, and the third ends with a fault.

## What the runs found

1. **The pool's ABA** (`pool_aba`). `allocateNode` reads `lru_next` of the
   pool's head and then exchanges `empty_head_`. If another thread pops that
   node and the next one, inserts both, evicts the first again and puts it
   back, the exchange succeeds and makes the second node, which is cached, the
   head of the pool. All passing runs about whose node is whose assume one
   inserting thread or fewer than `Capacity + 2` inserts.
2. **A dropped request** (`stuck_inserter`). A pull requested while a pull is in
   progress is forgotten when that pull ends. If no other lookup follows, the
   nodes marked meanwhile cannot be evicted and `insert` spins. The same state
   is reached when a mark is counted between the exchange of `recent_head_` and
   the reset of `recent_count_`, the race that the comment in
   `popRecentListSlice` calls harmless.
3. **Capacity one** (`capacity_one`): the second insert spins. The same holds of
   a pull threshold that is not below the capacity (the instance of `alone` with
   `PullThreshold = 3`, for which no run is kept): lookups can mark all evictable
   nodes before it is reached, and then nobody pulls. `alone` takes a threshold below
   the capacity.
4. **A circle of waiting threads in ConcurrentLRU** (`spin_stuck`). A lookup has
   taken node X out of the list and keeps it locked. To put it back it reads the
   last node P without a lock and then waits for P's lock. If P was evicted in
   between, P stays locked until the evicting insert ends; and that insert, to take
   P out of its chain, tries the lock of P's predecessor there. When that is X it
   fails for ever: `htRemove`'s comment expects the predecessor to be on its way
   out. The capacity does not matter, only the delay of the lookup. Longer circles
   go through several lookups; without an eviction there is none
   (`OnlyTheCircleBlocks`).
5. **The assertion after an eviction in LRUCache** (`CoherentButAfterEvict`).
   `coherent()` takes the element whose number is the count for an empty one, as in
   a cache that has never evicted. The assertion at the end of `evict` therefore
   fails in a cache that is in order, unless the victim is the last element of the
   array: with `enable_debug` the first eviction ends the program.
6. **Capacities without room in LRUCache** (`FaultsOnlyWithoutRoom`). With one
   element per shard the second insert writes before the array; below the load
   factor `find` divides by zero; a byte capacity below an element makes the
   initialising loop run away; a cache of capacity 0 deletes uninitialized pointers.
   With 64 shards, a capacity below 256 items does one of these at the default load
   factor of 4. Nothing else leads to a fault.

Some code of ConcurrentLRU is never needed. `htInsert` always succeeds; `htFlag` is
set whenever it is waited for, as the insert that puts a node into the LRU list keeps
it locked until it is in its chain (`ListsAreWhole`, `UnlockedIsCoherent`); and the
flag of a node that `lruRemoveNode` finds in its place again is set
(`NeighboursStay`).

## Proofs

`DeferredLRUProofs.tla`, for any number of threads, keys, nodes, buckets and
locks, from the assumptions on the constants that `DeferredLRU.tla` names:

- `SpecControlTypeOK`, `SpecLockDiscipline`: `ControlTypeOK /\ LockDiscipline` is
  inductive by itself. A thread at a control point of `Consolidating` holds
  `lru_lock_`, its holder is at such a point or adds the pulled nodes to the
  list, and a lookup between search and unlock holds the lock of its key's
  bucket. That a released cache has no call in progress is part of it, since
  `allocateMemory` resets the bucket locks.

Also there, as lemmas for the next module: the steps that change a bucket wait for its
lock, and two keys in one bucket have one lock (`StepHit`, for `FoundInBucket`).

`DeferredLRUSafetyProofs.tla`, for any finite number of threads and any number of
keys, nodes, buckets and locks:

- `SpecTypeOK`, `SpecHitReadsOwnValue`, `SpecHitStaysInBucket`,
  `SpecNodeHasOneOwner`, `SpecLruListIsWhole`,
  `SpecRecentLinkTells`, `SpecSizeExactAtRest`, `SpecValuesLeaveThroughOnDelete`,
  `SpecEntersAtHead`: each
  property holds in every behaviour in which the pool's compare_exchange is never
  deceived (`[]PoolUndeceived`): when it is about to succeed, the node at the head
  still leads to the node that was read as its next. Without such a condition they
  do not hold: that is the ABA of the run `pool_aba`.
- `OneInserterUndeceived`: if only one thread inserts, `PoolUndeceived` always holds.
  Only that thread takes nodes out of the pool (`PoolWatched`: from the read of the
  head on, the node read is in the pool behind whatever was put in since, and leads
  where it led).
- `FewInsertsUndeceived`: nor is it deceived, however many threads insert, while no more
  than `Capacity + 1` inserts have begun since memory was allocated (`FewInserts` of
  `CountedInserts`). That is the bound of the run `inserters`, and it is exact: in
  `pool_aba` one insert more does deceive the pool. The invariant `FewInv` has two
  phases. Until an insert finds the pool empty no node comes back to it
  (`NoneReturned`), so a node read there leads where it led or has gone for good; and
  the inserts that have begun are as many as the nodes gone from the pool and the
  inserts still in search of one together. Hence the insert that finds the pool empty
  is the last, and alone in `allocateNode`; from then on (`LastAllocates`) it is the
  only one to take nodes out.
- `OneInserterSafety`, `FewInsertsSafety`: so with one inserting thread, and any number
  of others that look up and consolidate, and with any number of inserting threads
  while few inserts have begun, all of these properties hold with no condition on the
  pool, and it holds empty nodes only (`PoolHoldsEmptyNodes`). With
  several inserting threads and one insert more they can fail.

They follow from the inductive `IInv`, since none of them is inductive;
`SpecValuesLeaveThroughOnDelete` also needs that a released cache has no value left
(`Emptied`), since `allocateMemory` resets all nodes.

- `OwnersOK`: a node is in the pool, in a bucket, or in the `Hand` of one thread, and
  no two threads insert or evict one node. It needs what each thread knows at
  its control point (`FinderOK`, `InserterOK`, `PurgerOK`, ...).
- `ChainsOK`, `PoolOK`, `MarkListsOK`: a node is once in the bucket of its key; the
  pool, the Recent list and `pullRecent`'s slice are paths that end.
- `MarksOK`: a recent link is set for nodes in these two lists, for the node of a
  thread between the preparation of its mark and the compare_exchange, and for one
  that an insert has not yet linked. So a node without it is in none of them, and
  `purgeOld`, which tests the link under the lock of the node's bucket, can take it.
- `ListsOK`: there are two sequences of nodes, the LRU list and the list on
  `pullRecent`'s stack, and back links of the first. The links forward are those of
  the sequence; a back link is that of the sequence or still `HEAD`, and then an
  addition is about to store it (`Pending`). That the consolidating thread may walk
  and unlink while inserts swing `lru_head_.lru_next` rests on this: a node whose
  back link is `HEAD` is left alone, and `prev` of an addition under way is a
  node whose own links forward nobody else changes (`AdderOK`).
- `SizeOK`: the count is that of the nodes in buckets, of the inserts that wait for
  or fill a node, and of the eviction between bucket and count. This is why the set
  of threads is assumed to be finite (`ThreadAssumption`).

Before it was proved, all of `IInv` but `ListsOK`, which quantifies over any
sequences, was checked as an invariant of the instances of `cache`, `alone` and
`inserters`.

`HashFixedProofs.tla`, likewise for any number of threads, keys, slots and buckets,
if there is a bucket (`Capacity >= LoadFactor`):

- `SpecTypeOK`, `SpecCounterTells`, `SpecNoSlotTwice`, from the inductive `IInv`:
  the three properties themselves with `LinksOK` and `AtRest`. `NoSlotTwice` is
  not inductive alone. The slot that `Take` hands out is linked nowhere only
  because every link is to a slot below the counter (`LinksOK`), and this
  stays so under `GiveBack` only because the counter then exceeds the capacity
  (`CounterTells`, by the cardinality of the threads yet to give back). `LinksOK`
  also says that a linked slot has been written, which gives `TypeOK` for a
  lookup's next link. `AtRest` is for `allocateMemory`, which resets the storage.

- `SpecDeletesWhatIsStored`, `SpecChainsGrowAtHead`, from `ChainInv`: some sequence
  of slots leads from each bucket's head to the end of its chain, no slot is in two
  of them or twice in one, and those in none are unused or in the hands of the
  thread that fills them.
- `SpecStoredIsFound`, about the specification with history (`HistorySpec`), from
  `FoundInv`: what a lookup has not yet visited is still linked behind where it is,
  since chains lose nothing.

`DeferredLRURefinementProofs.tla`, under the same conditions as the safety properties:

- `SpecImplementsEvictingCache`: in every behaviour in which the pool is not deceived
  `DeferredLRU` implements `EvictingCache`. `OneInserterImplements`,
  `FewInsertsImplement`: with one inserting thread, or while few inserts have begun, it
  does so with no condition.

`IInv` and one more inductive fact, `Ended` (a call has a key only while it needs one,
and a released cache has empty buckets), give what the mapping needs. `OrderOK` says
of the sequences in `ListsOK` what the refinement shows of them: the list holds the
cached nodes and the one being evicted, `lru_prev` is `HEAD` or the node before, and
the nodes read off the links behind a place are those behind it in the sequence. A
step then maps as follows.

- A step that touches neither items nor calls, and is not the evicting thread's, leaves
  the order, puts new nodes before it, or takes one recent node out (`StepMoves`,
  `OrderMoves`), and leaves what was scanned (`ScanStays`): it is a stutter,
  `PutFirst` or `TakeOut` (`SilentShows`).
- `FindMiss`, `FindHit`, the mark and `addNodeToBucket` are `Miss`, `Hit`, `Take` and
  `Insert`. That `Hit` and `Miss` answer from what is stored needs that a node is
  in the bucket of its key (`CachedHits`).
- In `purgeOld`, passing over a node is `Pass`, removing it from its bucket is `Evict`,
  and unlinking and disposing of it are stutters. That all colder nodes were scanned
  is `ScannedOK`; that no lookup has found the node is the lock of its bucket.

`LinkedListProofs.tla` has the lemmas that these and the following proofs share: that
`Follow`, with which the properties walk along links, finds the list the links make
(by induction on the nodes left to visit, as an induction over a set of numbers), and
what becomes of a list that is linked both ways when a node is taken out, put first,
or put last.

`ConcurrentLRUProofs.tla`, for any number of threads, nodes, keys and buckets:

- `SpecTypeOK`, `SpecListsAreWhole`, `SpecUnlockedIsCoherent`, `SpecNeighboursStay`,
  `SpecHitIsCached`, `SpecOrderOfUse`, from one inductive `IInv`. No property is inductive alone: that a
  list is whole after a node was unlinked needs that its neighbours are those the
  thread has locked, which needs what every thread knows at every control point
  about the nodes it has locked. The argument is in the style of rely and guarantee:
  `ThreadOK(t)` is what `t` knows, a step of another thread changes only what that
  thread has locked (`Touches`), hence leaves `ThreadOK(t)` (`OthersKeep`); and of
  the lists a step leaves all, or takes the stepping thread's node out of one, or puts
  it behind the last node of one (`StepLists`).

`LRUCacheProofs.tla` and `BucketedLRUProofs.tla`, for any number of threads, shards and
keys, any capacities, load factors and hash:

- `LRUCacheProofs` is about the operations as functions. `Whole` says that the links of
  a record stand for a list of items, a list of empty nodes and a chain per bucket.
  The list is seen as a ring closed by `None`, whose neighbours are the attributes
  `head` and `tail`, and a chain as one that begins at the number that the code
  stores for its bucket; so the cases of the code for a first and a last node are no
  cases of the proof. `Sound` adds the types and that chains hold the items of their
  bucket. `AllocatedSound`, `InsertSound` and `MoveSound` say that each operation
  keeps it and what list comes out; `SearchFinds` what a search returns.
- `SpecTypeOK`, `SpecShardIsWhole`, `SpecCoherentButAfterEvict` and
  `SpecFaultsOnlyWithoutRoom`, from an `IInv` that adds when a shard has memory and how
  much. That no call faults in a shard with two elements and a bucket is the point of
  the last: the sizes are the only cause of undefined behaviour.
- `SpecCapacityIsSplit`: the sum over the shards is a fold, and so a recursive function
  on sets of shards. Such a function is shown to exist by a closed form for shards of
  one size but the first (`SumExists`) and to be the only one by induction on the size
  of the set, as an induction over a set of numbers (`SumIsUnique`); the division of a
  capacity in bytes is then an inequality between products (`BytesSplit`).
- `SpecImplementsExactLRU`, the refinement, step by step: a hit is `Abstract!Hit`, a miss
  `Abstract!Miss`, an insert `Abstract!Insert`, allocation and release `Abstract!Resize`
  (`HitMaps`, `MissMaps`, `InsertMaps`, `ResizeMaps`), a fault a stutter.

**Not proved**, checked by TLC only: everything under fairness (`CallsReturn`,
`LookupsAndConsolidationsEnd`, `InsertsGetNodes`), which is out of the prover's
reach, and `OnlyTheCircleBlocks`, which is about `ENABLED`. `EvictionEnds`,
`PoolHoldsEmptyNodes` with several inserting threads and more inserts than that, and
`InsertsGetNodes` at capacity one or with a pull threshold of the whole capacity are
violated.

## Plan

All models, runs and proofs that were planned are done. What could still be added is
the termination of calls under fairness, for which a proof system with liveness rules
would be needed, and relaxed memory orders.

## Not modelled

- The benchmark's own copy of DeferredLRU: the algorithm is that of the header,
  from which `DeferredLRU.tla` is written.
- The adapter over `ConcurrentLRU` and `DeferredLRU` shards: it does nothing to them
  that it does not do to `LRUCache` shards, and shards share nothing.
- Capacities of `DeferredLRU`, `ConcurrentLRU` and `HashFixed` that leave no element
  or no bucket: their models start from one of each.
- The termination of a call of `ConcurrentLRU`: its retries are unbounded while
  others keep moving nodes. Its element count: a data race on a statistic.
- Relaxed memory orders; the width of indices and counters.
- The wrappers of TBB and HHVM containers, whose code is not in the repository, the
  driver, the key generators, statistics and output: no state of their own.
