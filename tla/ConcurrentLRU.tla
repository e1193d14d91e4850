---------------------------- MODULE ConcurrentLRU ----------------------------
(***************************************************************************)
(* The cache of src/benchmark/src/containers/concurrent_lru.h, which keeps *)
(* the exact order of use: every lookup moves its node to the tail of the  *)
(* LRU list.  The list, and that of the empty nodes (the pool), is locked  *)
(* node by node with spin locks that can also be tried; the chains of the  *)
(* hash table are locked by bucket.                                        *)
(*                                                                         *)
(* A thread that waits for a lock has no step until the lock is free.  The *)
(* acquisition of a lock is a step together with the accesses under it up  *)
(* to the next lock; the release is one with the last of them, but two     *)
(* releases are two steps, as try_lock can tell.  A value is abstracted to *)
(* its key.  current_element_count_ is left out: it is a plain integer     *)
(* that threads change without a common lock.                              *)
(***************************************************************************)
EXTENDS Integers, Sequences, FiniteSets, SequencesExt

CONSTANTS
  Threads, Keys,
  Hash,                 (* hasher_ and the shift, a function on Keys       *)
  Nodes,                (* data_, max_element_count_ nodes                 *)
  HashtableLoadFactor,
  NULL, NoKey,
  LRU_HEAD, LRU_TAIL, POOL_HEAD, POOL_TAIL

Calls == {"find", "insert"}
Capacity == Cardinality(Nodes)
Heads == {LRU_HEAD, POOL_HEAD}
Base == Nodes \cup Heads \cup {LRU_TAIL, POOL_TAIL}
TailOf(head) == IF head = LRU_HEAD THEN LRU_TAIL ELSE POOL_TAIL

BucketCount == (Capacity + HashtableLoadFactor - 1) \div HashtableLoadFactor
Buckets == 0 .. BucketCount - 1
whichBucket(k) == Hash[k] % BucketCount

ASSUME SizeAssumption ==
  IsFiniteSet(Nodes) /\ Nodes # {} /\ HashtableLoadFactor \in Nat \ {0}
ASSUME KeyAssumption == Hash \in [Keys -> Nat] /\ NoKey \notin Keys
ASSUME ThreadAssumption == NULL \notin Threads
ASSUME PointerAssumption ==
  /\ {NULL, LRU_HEAD, LRU_TAIL, POOL_HEAD, POOL_TAIL} \cap Nodes = {}
  /\ Cardinality({NULL, LRU_HEAD, LRU_TAIL, POOL_HEAD, POOL_TAIL}) = 5

VARIABLES
  key, lru_flag,        (* of every node                                   *)
  lru_next, lru_prev,
  lock,                 (* who holds the lock of a node, or NULL           *)
  chain,                (* the nodes of every bucket, first to last        *)
  bucket_lock,
  pc, op, arg,          (* of every thread: the call and its key ...       *)
  node, prev            (* ... and the locals of these names               *)

items == <<key, lru_flag>>
links == <<lru_next, lru_prev>>
table == <<chain, bucket_lock>>
call == <<op, arg>>
vars == <<items, links, lock, table, pc, call, node, prev>>

-----------------------------------------------------------------------------
(* allocateMemory: all nodes are in the pool, in the order of the array,   *)
(* which may be any.                                                       *)

Orders == SetToSeqs(Nodes)

Fresh(order) ==
  LET pool == <<POOL_HEAD>> \o order \o <<POOL_TAIL>>
      at(n) == CHOOSE i \in DOMAIN pool : pool[i] = n
  IN  [key |-> [n \in Nodes |-> NoKey],
       lru_flag |-> [n \in Nodes |-> FALSE],
       lru_next |-> [n \in Base |-> CASE n = LRU_HEAD -> LRU_TAIL
                                      [] n \in {LRU_TAIL, POOL_TAIL} -> NULL
                                      [] OTHER -> pool[at(n) + 1]],
       lru_prev |-> [n \in Base |-> CASE n = LRU_TAIL -> LRU_HEAD
                                      [] n \in Heads -> NULL
                                      [] OTHER -> pool[at(n) - 1]],
       chain |-> [b \in Buckets |-> <<>>]]

Init ==
  /\ \E order \in Orders :
       LET fresh == Fresh(order)
       IN  /\ key = fresh.key /\ lru_flag = fresh.lru_flag /\ chain = fresh.chain
           /\ lru_next = fresh.lru_next /\ lru_prev = fresh.lru_prev
  /\ lock = [n \in Base |-> NULL]
  /\ bucket_lock = [b \in Buckets |-> NULL]
  /\ pc = [t \in Threads |-> "idle"]
  /\ op = [t \in Threads |-> "find"]
  /\ arg = [t \in Threads |-> NoKey]
  /\ node = [t \in Threads |-> NULL]
  /\ prev = [t \in Threads |-> NULL]

\* releaseMemory and allocateMemory, between the calls of the threads.
Reallocate ==
  /\ \A t \in Threads : pc[t] = "idle"
  /\ \E order \in Orders :
       LET fresh == Fresh(order)
       IN  /\ key' = fresh.key /\ lru_flag' = fresh.lru_flag /\ chain' = fresh.chain
           /\ lru_next' = fresh.lru_next /\ lru_prev' = fresh.lru_prev
  /\ UNCHANGED <<lock, bucket_lock, pc, call, node, prev>>

-----------------------------------------------------------------------------
Goto(t, from, to) == pc[t] = from /\ pc' = [pc EXCEPT ![t] = to]

Lock(t, n) == lock[n] = NULL /\ lock' = [lock EXCEPT ![n] = t]
Unlock(n) == lock' = [lock EXCEPT ![n] = NULL]

\* Lock one node and unlock another: the changes under both are one step.
LockAndUnlock(t, n, m) ==
  /\ lock[n] = NULL
  /\ lock' = [lock EXCEPT ![n] = t, ![m] = NULL]

\* The call is over.
Return(t, from) ==
  /\ Goto(t, from, "idle")
  /\ arg' = [arg EXCEPT ![t] = NoKey]
  /\ op' = [op EXCEPT ![t] = "find"]
  /\ node' = [node EXCEPT ![t] = NULL]

\* acquireFreeNode tries the pool first.
CallInsert(t, k) ==
  /\ Goto(t, "idle", "evict_head")
  /\ op' = [op EXCEPT ![t] = "insert"]
  /\ arg' = [arg EXCEPT ![t] = k]
  /\ prev' = [prev EXCEPT ![t] = POOL_HEAD]
  /\ UNCHANGED <<items, links, lock, table, node>>

-----------------------------------------------------------------------------
(* find, with htFind as its first step; consumeCachedOrCompute is a find    *)
(* and, if that misses, an insert.                                         *)

Matches(k) ==
  LET c == chain[whichBucket(k)] IN {i \in DOMAIN c : key[c[i]] = k}

\* A call that misses has changed nothing.
CallFind(t, k) ==
  /\ bucket_lock[whichBucket(k)] = NULL
  /\ Goto(t, "idle", "lock_found")
  /\ arg' = [arg EXCEPT ![t] = k]
  /\ \E i \in Matches(k) :
       /\ \A j \in Matches(k) : i <= j
       /\ node' = [node EXCEPT ![t] = chain[whichBucket(k)][i]]
  /\ UNCHANGED <<items, links, lock, table, op, prev>>

dataIsValidForKey(n, k) == lru_flag[n] /\ key[n] = k

\* Mutant of LockFound: takes the node that htFind returned on trust.
LockFoundUnchecked(t) ==
  /\ Goto(t, "lock_found", "remove_try")
  /\ Lock(t, node[t])
  /\ UNCHANGED <<items, links, table, call, node, prev>>

\* The value is copied under the lock that this step takes.
LockFound(t) ==
  /\ Goto(t, "lock_found", IF dataIsValidForKey(node[t], arg[t])
                           THEN "remove_try" ELSE "find_fails")
  /\ Lock(t, node[t])
  /\ UNCHANGED <<items, links, table, call, node, prev>>

\* It was evicted and has got another key since htFind.
FindFails(t) ==
  /\ Return(t, "find_fails")
  /\ Unlock(node[t])
  /\ UNCHANGED <<items, links, table, prev>>

FindDone(t) ==
  /\ Return(t, "find_done")
  /\ Unlock(node[t])
  /\ UNCHANGED <<items, links, table, prev>>

-----------------------------------------------------------------------------
(* lruRemoveNode: the node is locked, its predecessor has to be, against    *)
(* the order of the list.                                                  *)

RemoveTry(t) ==
  /\ Goto(t, "remove_try", "remove_next")
  /\ Lock(t, lru_prev[node[t]])
  /\ prev' = [prev EXCEPT ![t] = lru_prev[node[t]]]
  /\ UNCHANGED <<items, links, table, call, node>>

\* Mutant of RemoveTryFails: waits for the predecessor with the node locked.
RemoveWaits(t) == RemoveTry(t)

RemoveTryFails(t) ==
  /\ Goto(t, "remove_try", "give_way")
  /\ lock[lru_prev[node[t]]] # NULL
  /\ prev' = [prev EXCEPT ![t] = lru_prev[node[t]]]
  /\ UNCHANGED <<items, links, lock, table, call, node>>

GiveWay(t) ==
  /\ Goto(t, "give_way", "lock_prev")
  /\ Unlock(node[t])
  /\ UNCHANGED <<items, links, table, call, node, prev>>

\* Mutant of LockPrev: does not look whether the node still follows.
LockPrevUnchecked(t) ==
  /\ Goto(t, "lock_prev", "relock_both")
  /\ Lock(t, prev[t])
  /\ UNCHANGED <<items, links, table, call, node, prev>>

LockPrev(t) ==
  /\ Goto(t, "lock_prev", IF lru_next[prev[t]] = node[t]
                          THEN "relock_both" ELSE "leave_prev")
  /\ Lock(t, prev[t])
  /\ UNCHANGED <<items, links, table, call, node, prev>>

RelockBoth(t) ==
  /\ Goto(t, "relock_both", IF lru_flag[node[t]] THEN "remove_next" ELSE "leave_prev")
  /\ Lock(t, node[t])
  /\ UNCHANGED <<items, links, table, call, node, prev>>

LeavePrev(t) ==
  /\ Goto(t, "leave_prev", IF lock[node[t]] = t THEN "find_done" ELSE "relock")
  /\ Unlock(prev[t])
  /\ prev' = [prev EXCEPT ![t] = NULL]
  /\ UNCHANGED <<items, links, table, call, node>>

Relock(t) ==
  /\ Goto(t, "relock", IF lru_flag[node[t]] THEN "remove_try" ELSE "find_done")
  /\ Lock(t, node[t])
  /\ UNCHANGED <<items, links, table, call, node, prev>>

\* prev and next of node n are linked to each other.
Bypass(n, p) ==
  /\ lru_next' = [lru_next EXCEPT ![p] = lru_next[n]]
  /\ lru_prev' = [lru_prev EXCEPT ![lru_next[n]] = p]

RemoveNext(t) ==
  /\ Goto(t, "remove_next", "remove_unnext")
  /\ LockAndUnlock(t, lru_next[node[t]], prev[t])
  /\ Bypass(node[t], prev[t])
  /\ prev' = [prev EXCEPT ![t] = NULL]
  /\ UNCHANGED <<items, table, call, node>>

\* The successor is unlocked and the node forgets its neighbours.
TakenOut(n) ==
  /\ Unlock(lru_next[n])
  /\ lru_next' = [lru_next EXCEPT ![n] = NULL]
  /\ lru_prev' = [lru_prev EXCEPT ![n] = NULL]

RemoveUnnext(t) ==
  /\ Goto(t, "remove_unnext", "tail_read")
  /\ TakenOut(node[t])
  /\ UNCHANGED <<items, table, call, node, prev>>

-----------------------------------------------------------------------------
(* lruInsertLast                                                           *)

\* Read without a lock: the predecessor of the tail may change at once.
TailRead(t) ==
  /\ Goto(t, "tail_read", "tail_prev")
  /\ prev' = [prev EXCEPT ![t] = lru_prev[LRU_TAIL]]
  /\ UNCHANGED <<items, links, lock, table, call, node>>

\* Mutant of TailPrev: does not look whether the tail still follows.
TailPrevUnchecked(t) ==
  /\ Goto(t, "tail_prev", "tail_lock")
  /\ Lock(t, prev[t])
  /\ UNCHANGED <<items, links, table, call, node, prev>>

TailPrev(t) ==
  /\ Goto(t, "tail_prev", IF lru_next[prev[t]] = LRU_TAIL
                          THEN "tail_lock" ELSE "tail_retry")
  /\ Lock(t, prev[t])
  /\ UNCHANGED <<items, links, table, call, node, prev>>

TailRetry(t) ==
  /\ Goto(t, "tail_retry", "tail_read")
  /\ Unlock(prev[t])
  /\ prev' = [prev EXCEPT ![t] = NULL]
  /\ UNCHANGED <<items, links, table, call, node>>

\* Nobody tries the lock of a tail, so taking and leaving it is one step.
TailLock(t) ==
  /\ Goto(t, "tail_lock", IF op[t] = "insert" THEN "ht_insert" ELSE "find_done")
  /\ lock[LRU_TAIL] = NULL
  /\ Unlock(prev[t])
  /\ lru_next' = [lru_next EXCEPT ![prev[t]] = node[t], ![node[t]] = LRU_TAIL]
  /\ lru_prev' = [lru_prev EXCEPT ![node[t]] = prev[t], ![LRU_TAIL] = node[t]]
  /\ prev' = [prev EXCEPT ![t] = NULL]
  /\ UNCHANGED <<items, table, call, node>>

-----------------------------------------------------------------------------
(* insert: a node from the pool, or else the first of the LRU list; prev is *)
(* the head that listEvictNext was given.                                  *)

OtherHead(head) == IF head = POOL_HEAD THEN LRU_HEAD ELSE POOL_HEAD

EvictNone(t) ==
  /\ Goto(t, "evict_head", "evict_head")
  /\ lock[prev[t]] = NULL /\ lru_next[prev[t]] = TailOf(prev[t])
  /\ prev' = [prev EXCEPT ![t] = OtherHead(prev[t])]
  /\ UNCHANGED <<items, links, lock, table, call, node>>

EvictHead(t) ==
  /\ Goto(t, "evict_head", "evict_node")
  /\ lru_next[prev[t]] # TailOf(prev[t])
  /\ Lock(t, prev[t])
  /\ node' = [node EXCEPT ![t] = lru_next[prev[t]]]
  /\ UNCHANGED <<items, links, table, call, prev>>

EvictNode(t) ==
  /\ Goto(t, "evict_node", "evict_next")
  /\ Lock(t, node[t])
  /\ UNCHANGED <<items, links, table, call, node, prev>>

EvictNext(t) ==
  /\ Goto(t, "evict_next", "evict_unnext")
  /\ LockAndUnlock(t, lru_next[node[t]], prev[t])
  /\ Bypass(node[t], prev[t])
  /\ UNCHANGED <<items, table, call, node, prev>>

Fill(t) ==
  /\ key' = [key EXCEPT ![node[t]] = arg[t]]
  /\ lru_flag' = [lru_flag EXCEPT ![node[t]] = TRUE]

EvictFromPool(t) ==
  /\ Goto(t, "evict_unnext", "tail_read")
  /\ prev[t] = POOL_HEAD
  /\ TakenOut(node[t])
  /\ Fill(t)
  /\ prev' = [prev EXCEPT ![t] = NULL]
  /\ UNCHANGED <<table, call, node>>

EvictFromLru(t) ==
  /\ Goto(t, "evict_unnext", "ht_remove")
  /\ prev[t] = LRU_HEAD
  /\ TakenOut(node[t])
  /\ lru_flag' = [lru_flag EXCEPT ![node[t]] = FALSE]
  /\ prev' = [prev EXCEPT ![t] = NULL]
  /\ UNCHANGED <<key, table, call, node>>

(* htRemove; when it fails, it has changed nothing and is called again.     *)

BucketOf(t) == whichBucket(key[node[t]])

HtRemoveFirst(t) ==
  /\ Goto(t, "ht_remove", "tail_read")
  /\ bucket_lock[BucketOf(t)] = NULL
  /\ chain[BucketOf(t)] # <<>> /\ Head(chain[BucketOf(t)]) = node[t]
  /\ chain' = [chain EXCEPT ![BucketOf(t)] = Tail(@)]
  /\ Fill(t)
  /\ UNCHANGED <<links, lock, bucket_lock, call, node, prev>>

\* Mutant of HtRemove: changes the predecessor whoever has locked it.
HtRemoveUnlocked(t) ==
  /\ Goto(t, "ht_remove", "ht_unprev")
  /\ bucket_lock[BucketOf(t)] = NULL
  /\ \E i \in 2 .. Len(chain[BucketOf(t)]) :
       /\ chain[BucketOf(t)][i] = node[t]
       /\ lock' = [lock EXCEPT ![chain[BucketOf(t)][i - 1]] = t]
       /\ prev' = [prev EXCEPT ![t] = chain[BucketOf(t)][i - 1]]
       /\ chain' = [chain EXCEPT ![BucketOf(t)] = RemoveAt(@, i)]
  /\ bucket_lock' = [bucket_lock EXCEPT ![BucketOf(t)] = t]
  /\ UNCHANGED <<items, links, call, node>>

HtRemove(t) ==
  /\ Goto(t, "ht_remove", "ht_unprev")
  /\ bucket_lock[BucketOf(t)] = NULL
  /\ \E i \in 2 .. Len(chain[BucketOf(t)]) :
       /\ chain[BucketOf(t)][i] = node[t]
       /\ Lock(t, chain[BucketOf(t)][i - 1])
       /\ prev' = [prev EXCEPT ![t] = chain[BucketOf(t)][i - 1]]
       /\ chain' = [chain EXCEPT ![BucketOf(t)] = RemoveAt(@, i)]
  /\ bucket_lock' = [bucket_lock EXCEPT ![BucketOf(t)] = t]
  /\ UNCHANGED <<items, links, call, node>>

\* Both are unlocked; onDelete takes the old item, insert stores the new one.
HtUnprev(t) ==
  /\ Goto(t, "ht_unprev", "tail_read")
  /\ Unlock(prev[t])
  /\ bucket_lock' = [bucket_lock EXCEPT ![BucketOf(t)] = NULL]
  /\ Fill(t)
  /\ prev' = [prev EXCEPT ![t] = NULL]
  /\ UNCHANGED <<links, chain, call, node>>

\* Mutant of htInsert: the old first node is not linked to the new one.
htInsertUnlinked(t) ==
  /\ Return(t, "ht_insert")
  /\ bucket_lock[BucketOf(t)] = NULL
  /\ chain' = [chain EXCEPT ![BucketOf(t)] = <<node[t]>>]
  /\ Unlock(node[t])
  /\ UNCHANGED <<items, links, bucket_lock, prev>>

\* It never fails: what insert does then (195-208) is never reached.  To see
\* the node in the chain while it is still locked makes no difference.
htInsert(t) ==
  /\ Return(t, "ht_insert")
  /\ bucket_lock[BucketOf(t)] = NULL
  /\ chain' = [chain EXCEPT ![BucketOf(t)] = <<node[t]>> \o @]
  /\ Unlock(node[t])
  /\ UNCHANGED <<items, links, bucket_lock, prev>>

-----------------------------------------------------------------------------
Find(t) == LockFound(t) \/ FindFails(t) \/ FindDone(t)

lruRemoveNode(t) ==
  \/ RemoveTry(t) \/ RemoveTryFails(t) \/ GiveWay(t) \/ LockPrev(t)
  \/ RelockBoth(t) \/ LeavePrev(t) \/ Relock(t)
  \/ RemoveNext(t) \/ RemoveUnnext(t)

lruInsertLast(t) ==
  TailRead(t) \/ TailPrev(t) \/ TailRetry(t) \/ TailLock(t)

Insert(t) ==
  \/ EvictNone(t) \/ EvictHead(t) \/ EvictNode(t) \/ EvictNext(t)
  \/ EvictFromPool(t) \/ EvictFromLru(t)
  \/ HtRemoveFirst(t) \/ HtRemove(t) \/ HtUnprev(t) \/ htInsert(t)

Step(t) == Find(t) \/ lruRemoveNode(t) \/ lruInsertLast(t) \/ Insert(t)

Call(t) == \E k \in Keys : CallInsert(t, k) \/ CallFind(t, k)

Next == (\E t \in Threads : Call(t) \/ Step(t)) \/ Reallocate

Spec == Init /\ [][Next]_vars

(* The locks retry without a queue and htRemove is repeated after a sleep:  *)
(* a thread whose next step is possible again and again takes it.          *)
Fairness == \A t \in Threads : SF_vars(Step(t))

FairSpec == Spec /\ Fairness
=============================================================================
