----------------------------- MODULE DeferredLRU -----------------------------
(***************************************************************************)
(* The concurrent cache of src/include/deferred_lru.h: a hash table with   *)
(* locked buckets for lookup, a doubly linked list (LRU) for the order of  *)
(* use, a singly linked list (Recent) of the items used since they were    *)
(* last moved to the head of the LRU list, and a pool of empty nodes.      *)
(* Lookups and insertions run concurrently; one thread at a time, the one  *)
(* that wins lru_lock_, consolidates: it evicts from the tail (purgeOld)   *)
(* and moves the Recent list to the head (pullRecent).                     *)
(*                                                                         *)
(* An action is one access to memory that other threads use without a      *)
(* common lock, with the accesses to private or lock-protected memory      *)
(* around it.  A value is abstracted to the key it was computed from.  A   *)
(* weak compare_exchange that fails spuriously repeats its loop and is a   *)
(* stuttering step.  Memory is sequentially consistent.                    *)
(***************************************************************************)
EXTENDS Integers, Sequences, FiniteSets, SequencesExt

CONSTANTS
  Threads,              (* the threads that share the cache                *)
  Keys,
  Hash,                 (* hasher_, a function on Keys                     *)
  Capacity,             (* max_element_count_                              *)
  HashtableLoadFactor,
  MaxBucketLockSize,    (* 2^15 in the code, a power of two                *)
  PullThreshold,        (* pull_threshold_                                 *)
  PurgeThreshold,       (* purge_threshold_                                *)
  Api,                  (* which calls each thread makes                   *)
  NULL,                 (* nullptr; also "no thread" for a lock            *)
  DUMMY,                (* recentDummyTerminalPtr()                        *)
  HEAD, TAIL,           (* &lru_head_, &lru_tail_                          *)
  TEMP,                 (* &head, the list head on pullRecent's stack      *)
  NoKey                 (* no key, no value                                *)

Calls == {"find", "insert", "consume"}

\* nodes_[0] .. nodes_[Capacity - 1] are the numbers 1 .. Capacity.
Nodes == 1 .. Capacity
Base == Nodes \cup {HEAD, TAIL, TEMP}

BucketCount == (Capacity + HashtableLoadFactor - 1) \div HashtableLoadFactor
Buckets == 0 .. BucketCount - 1
Locks == 0 .. (IF BucketCount < MaxBucketLockSize
               THEN BucketCount ELSE MaxBucketLockSize) - 1

ASSUME SizeAssumption ==
  /\ Capacity \in Nat \ {0}
  /\ HashtableLoadFactor \in Nat \ {0}
  /\ MaxBucketLockSize \in Nat \ {0}
  /\ PullThreshold \in Nat \ {0}
  /\ PurgeThreshold \in Nat \ {0}

ASSUME KeyAssumption == Hash \in [Keys -> Nat] /\ NoKey \notin Keys

ASSUME ApiAssumption == Api \in [Threads -> SUBSET Calls] /\ NULL \notin Threads

ASSUME ThreadAssumption == IsFiniteSet(Threads)

ASSUME PointerAssumption ==
  /\ {NULL, DUMMY, HEAD, TAIL, TEMP} \cap Nodes = {}
  /\ Cardinality({NULL, DUMMY, HEAD, TAIL, TEMP}) = 5

keyToBucketNr(k) == Hash[k] % BucketCount

\* bucket_nr & (MaxBucketLockSize - 1)
LockOf(b) == b % MaxBucketLockSize

VARIABLES
  key, value,             (* of every node; NoKey once moved out           *)
  lru_next, lru_prev, recent_next,
  bucket,                 (* the chain of every bucket, head first         *)
  bucket_lock, lru_lock,  (* the thread that holds it, or NULL             *)
  empty_head,
  recent_head, recent_count,
  pull_request, purge_request,
  current_element_count,
  allocated               (* between allocateMemory and releaseMemory      *)

VARIABLES                 (* of every thread                               *)
  pc,
  ret,                    (* where control goes when the call returns      *)
  arg,                    (* the key of the call                           *)
  node, next, prev, freed (* the locals of these names                     *)

links == <<lru_next, lru_prev>>
items == <<key, value>>
table == <<bucket, bucket_lock>>
recent == <<recent_head, recent_count>>
requests == <<pull_request, purge_request>>
call == <<ret, arg>>
locals == <<node, next, prev, freed>>
vars == <<items, links, recent_next, table, lru_lock, empty_head, recent,
          requests, current_element_count, allocated, pc, call, locals>>

-----------------------------------------------------------------------------
(* allocateMemory: empty buckets, an empty LRU list, an empty Recent list  *)
(* and every node in the pool, in the order of the array.                  *)

Fresh ==
  [key |-> [n \in Nodes |-> NoKey],
   lru_next |-> [n \in Base |-> CASE n = HEAD -> TAIL
                                  [] n \in 1 .. Capacity - 1 -> n + 1
                                  [] OTHER -> NULL],
   lru_prev |-> [n \in Base |-> IF n = TAIL THEN HEAD ELSE NULL],
   recent_next |-> [n \in Nodes |-> NULL],
   bucket |-> [b \in Buckets |-> <<>>],
   bucket_lock |-> [l \in Locks |-> NULL]]

Init ==
  /\ key = Fresh.key /\ value = Fresh.key
  /\ lru_next = Fresh.lru_next /\ lru_prev = Fresh.lru_prev
  /\ recent_next = Fresh.recent_next
  /\ bucket = Fresh.bucket /\ bucket_lock = Fresh.bucket_lock
  /\ lru_lock = NULL
  /\ empty_head = 1
  /\ recent_head = DUMMY /\ recent_count = 0
  /\ pull_request = FALSE /\ purge_request = FALSE
  /\ current_element_count = 0
  /\ allocated = TRUE
  /\ pc = [t \in Threads |-> "idle"]
  /\ ret = [t \in Threads |-> "idle"]
  /\ arg = [t \in Threads |-> NoKey]
  /\ node = [t \in Threads |-> NULL]
  /\ next = [t \in Threads |-> NULL]
  /\ prev = [t \in Threads |-> NULL]
  /\ freed = [t \in Threads |-> 0]

AllIdle == \A t \in Threads : pc[t] = "idle"

\* Each chained item is handed to onDelete; lists, counters and flags are left
\* as they are, with pointers into the memory that is freed.
releaseMemory ==
  /\ allocated /\ AllIdle
  /\ allocated' = FALSE
  /\ LET chained == UNION {Range(bucket[b]) : b \in Buckets}
     IN  /\ key' = [n \in Nodes |-> IF n \in chained THEN NoKey ELSE key[n]]
         /\ value' = [n \in Nodes |-> IF n \in chained THEN NoKey ELSE value[n]]
  /\ bucket' = Fresh.bucket
  /\ UNCHANGED <<links, recent_next, bucket_lock, lru_lock, empty_head, recent,
                 requests, current_element_count, pc, call, locals>>

allocateMemory ==
  /\ ~allocated
  /\ allocated' = TRUE
  /\ current_element_count' = 0
  /\ key' = Fresh.key /\ value' = Fresh.key
  /\ lru_next' = Fresh.lru_next /\ lru_prev' = Fresh.lru_prev
  /\ recent_next' = Fresh.recent_next
  /\ bucket' = Fresh.bucket /\ bucket_lock' = Fresh.bucket_lock
  /\ empty_head' = 1
  /\ recent_head' = DUMMY /\ recent_count' = 0
  /\ pull_request' = FALSE /\ purge_request' = FALSE
  /\ UNCHANGED <<lru_lock, pc, call, locals>>

-----------------------------------------------------------------------------
Goto(t, from, to) == pc[t] = from /\ pc' = [pc EXCEPT ![t] = to]

\* The locals go out of scope; at the end of a whole call, so do its arguments.
Return(t) ==
  /\ pc' = [pc EXCEPT ![t] = ret[t]]
  /\ ret' = ret
  /\ arg' = IF ret[t] = "idle" THEN [arg EXCEPT ![t] = NoKey] ELSE arg
  /\ node' = [node EXCEPT ![t] = NULL]
  /\ next' = [next EXCEPT ![t] = NULL]
  /\ prev' = [prev EXCEPT ![t] = NULL]
  /\ freed' = [freed EXCEPT ![t] = 0]

\* A thread that calls find comes back to its caller; consumeCachedOrCompute
\* goes on with insert unless find succeeds.
Start(t, op, k) ==
  /\ allocated /\ op \in Api[t]
  /\ Goto(t, "idle", IF op = "insert" THEN "ins_begin" ELSE "find_lock")
  /\ ret' = [ret EXCEPT ![t] = IF op = "find" THEN "idle" ELSE "ins_begin"]
  /\ arg' = [arg EXCEPT ![t] = k]
  /\ UNCHANGED <<items, links, recent_next, table, lru_lock, empty_head, recent,
                 requests, current_element_count, allocated, locals>>

-----------------------------------------------------------------------------
(* find                                                                    *)

\* Mutant of Unlocked: a lock that excludes nobody.
UnlockedAlways(b) == TRUE

\* lockBucket waits for this.
Unlocked(b) == bucket_lock[LockOf(b)] = NULL

markedRecent(n) == recent_next[n] # NULL

\* searchBucket: the first node of the chain that holds the key.
Hits(k) ==
  LET chain == bucket[keyToBucketNr(k)]
  IN  {i \in DOMAIN chain : /\ key[chain[i]] = k
                            /\ \A j \in 1 .. i - 1 : key[chain[j]] # k}

FindMiss(t) ==
  /\ Goto(t, "find_lock", "find_threshold")
  /\ Unlocked(keyToBucketNr(arg[t]))
  /\ Hits(arg[t]) = {}
  /\ arg' = IF ret[t] = "idle" THEN [arg EXCEPT ![t] = NoKey] ELSE arg
  /\ UNCHANGED <<items, links, recent_next, table, lru_lock, empty_head, recent,
                 requests, current_element_count, allocated, ret, locals>>

FindHit(t) ==
  /\ Goto(t, "find_lock", "find_copy")
  /\ Unlocked(keyToBucketNr(arg[t]))
  /\ \E i \in Hits(arg[t]) :
       node' = [node EXCEPT ![t] = bucket[keyToBucketNr(arg[t])][i]]
  /\ bucket_lock' = [bucket_lock EXCEPT ![LockOf(keyToBucketNr(arg[t]))] = t]
  /\ ret' = [ret EXCEPT ![t] = "idle"]
  /\ UNCHANGED <<items, links, recent_next, bucket, lru_lock, empty_head, recent,
                 requests, current_element_count, allocated, arg, next, prev,
                 freed>>

\* Mutant of unlockBucket: a path that forgets to unlock.
KeepsLock(t) ==
  /\ bucket_lock' = bucket_lock
  /\ arg' = [arg EXCEPT ![t] = NoKey]
  /\ node' = [node EXCEPT ![t] = NULL]
  /\ next' = [next EXCEPT ![t] = NULL]

\* The critical section ends; the key and the node are not used any more.
unlockBucket(t) ==
  /\ bucket_lock' = [bucket_lock EXCEPT ![LockOf(keyToBucketNr(arg[t]))] = NULL]
  /\ arg' = [arg EXCEPT ![t] = NoKey]
  /\ node' = [node EXCEPT ![t] = NULL]
  /\ next' = [next EXCEPT ![t] = NULL]

(* "find_copy": consumer = node->value reads value[node[t]], and then      *)
(* markNodeRecent.                                                         *)

FindCopyMarked(t) ==
  /\ Goto(t, "find_copy", "find_threshold")
  /\ markedRecent(node[t])
  /\ unlockBucket(t)
  /\ UNCHANGED <<items, links, recent_next, bucket, lru_lock, empty_head, recent,
                 requests, current_element_count, allocated, ret, prev, freed>>

\* A turn of markNodeRecent's loop up to its compare_exchange.
LinkToRecentHead(t) ==
  /\ next' = [next EXCEPT ![t] = recent_head]
  /\ recent_next' = [recent_next EXCEPT ![node[t]] = recent_head]

FindCopyUnmarked(t) ==
  /\ Goto(t, "find_copy", "mark_cas")
  /\ ~markedRecent(node[t])
  /\ LinkToRecentHead(t)
  /\ UNCHANGED <<items, links, table, lru_lock, empty_head, recent, requests,
                 current_element_count, allocated, call, node, prev, freed>>

MarkCas(t) ==
  /\ Goto(t, "mark_cas", "mark_count")
  /\ recent_head = next[t]
  /\ recent_head' = node[t]
  /\ UNCHANGED <<items, links, recent_next, table, lru_lock, empty_head,
                 recent_count, requests, current_element_count, allocated, call,
                 locals>>

\* Mutant of MarkCasFails: repeats with the head it has read before.
MarkCasFailsStale(t) ==
  /\ Goto(t, "mark_cas", "mark_cas")
  /\ recent_head # next[t]
  /\ UNCHANGED <<items, links, recent_next, table, lru_lock, empty_head, recent,
                 requests, current_element_count, allocated, call, locals>>

MarkCasFails(t) ==
  /\ Goto(t, "mark_cas", "mark_cas")
  /\ recent_head # next[t]
  /\ LinkToRecentHead(t)
  /\ UNCHANGED <<items, links, table, lru_lock, empty_head, recent, requests,
                 current_element_count, allocated, call, node, prev, freed>>

\* recent_count_++ and unlockBucket.
MarkCount(t) ==
  /\ Goto(t, "mark_count", "find_threshold")
  /\ recent_count' = recent_count + 1
  /\ unlockBucket(t)
  /\ UNCHANGED <<items, links, recent_next, bucket, lru_lock, empty_head,
                 recent_head, requests, current_element_count, allocated, ret,
                 prev, freed>>

BelowThreshold(t) ==
  /\ pc[t] = "find_threshold"
  /\ recent_count < PullThreshold
  /\ Return(t)
  /\ UNCHANGED <<items, links, recent_next, table, lru_lock, empty_head, recent,
                 requests, current_element_count, allocated>>

RecentThresholdHit(t) ==
  /\ Goto(t, "find_threshold", "request_pull")
  /\ recent_count >= PullThreshold
  /\ UNCHANGED <<items, links, recent_next, table, lru_lock, empty_head, recent,
                 requests, current_element_count, allocated, call, locals>>

requestPull(t) ==
  /\ Goto(t, "request_pull", "try_lock")
  /\ pull_request' = TRUE
  /\ UNCHANGED <<items, links, recent_next, table, lru_lock, empty_head, recent,
                 purge_request, current_element_count, allocated, call, locals>>

-----------------------------------------------------------------------------
(* insert: a node from the pool, filled, put into its bucket and then at   *)
(* the head of the LRU list.  While the node is only in the bucket its     *)
(* recent link is DUMMY.                                                   *)

InsertBegins(t) ==
  /\ Goto(t, "ins_begin", "alloc_next")
  /\ current_element_count' = current_element_count + 1
  /\ node' = [node EXCEPT ![t] = empty_head]
  /\ ret' = [ret EXCEPT ![t] = "alloc_load"]
  /\ UNCHANGED <<items, links, recent_next, table, lru_lock, empty_head, recent,
                 requests, allocated, arg, next, prev, freed>>

AllocLoad(t) ==
  /\ Goto(t, "alloc_load", "alloc_next")
  /\ node' = [node EXCEPT ![t] = empty_head]
  /\ UNCHANGED <<items, links, recent_next, table, lru_lock, empty_head, recent,
                 requests, current_element_count, allocated, call, next, prev,
                 freed>>

\* Mutant of requestPurge: the flag is not raised.
requestPurgeSilently(t) ==
  /\ Goto(t, "alloc_next", "try_lock")
  /\ node[t] = NULL
  /\ UNCHANGED <<items, links, recent_next, table, lru_lock, empty_head, recent,
                 requests, current_element_count, allocated, call, locals>>

\* Mutant of requestPurge: without asking whether the pool is empty.
requestPurgeEarly(t) ==
  /\ Goto(t, "alloc_next", "try_lock")
  /\ purge_request' = TRUE
  /\ UNCHANGED <<items, links, recent_next, table, lru_lock, empty_head, recent,
                 pull_request, current_element_count, allocated, call, locals>>

requestPurge(t) ==
  /\ Goto(t, "alloc_next", "try_lock")
  /\ node[t] = NULL
  /\ purge_request' = TRUE
  /\ UNCHANGED <<items, links, recent_next, table, lru_lock, empty_head, recent,
                 pull_request, current_element_count, allocated, call, locals>>

AllocNext(t) ==
  /\ Goto(t, "alloc_next", "alloc_cas")
  /\ node[t] # NULL
  /\ next' = [next EXCEPT ![t] = lru_next[node[t]]]
  /\ UNCHANGED <<items, links, recent_next, table, lru_lock, empty_head, recent,
                 requests, current_element_count, allocated, call, node, prev,
                 freed>>

\* Mutant of AllocCas: a plain store instead of the compare_exchange.
AllocStore(t) ==
  /\ Goto(t, "alloc_cas", "fill")
  /\ empty_head' = next[t]
  /\ next' = [next EXCEPT ![t] = NULL]
  /\ ret' = [ret EXCEPT ![t] = "idle"]
  /\ UNCHANGED <<items, links, recent_next, table, lru_lock, recent, requests,
                 current_element_count, allocated, arg, node, prev, freed>>

AllocCas(t) ==
  /\ Goto(t, "alloc_cas", "fill")
  /\ empty_head = node[t]
  /\ empty_head' = next[t]
  /\ next' = [next EXCEPT ![t] = NULL]
  /\ ret' = [ret EXCEPT ![t] = "idle"]
  /\ UNCHANGED <<items, links, recent_next, table, lru_lock, recent, requests,
                 current_element_count, allocated, arg, node, prev, freed>>

AllocCasFails(t) ==
  /\ Goto(t, "alloc_cas", "alloc_next")
  /\ empty_head # node[t]
  /\ node' = [node EXCEPT ![t] = empty_head]
  /\ next' = [next EXCEPT ![t] = NULL]
  /\ UNCHANGED <<items, links, recent_next, table, lru_lock, empty_head, recent,
                 requests, current_element_count, allocated, call, prev, freed>>

\* Mutant of FillNode: without the dummy recent link.
FillNodeUnmarked(t) ==
  /\ Goto(t, "fill", "add_to_bucket")
  /\ key' = [key EXCEPT ![node[t]] = arg[t]]
  /\ value' = [value EXCEPT ![node[t]] = arg[t]]
  /\ arg' = [arg EXCEPT ![t] = NoKey]
  /\ UNCHANGED <<links, recent_next, table, lru_lock, empty_head, recent, requests,
                 current_element_count, allocated, ret, locals>>

FillNode(t) ==
  /\ Goto(t, "fill", "add_to_bucket")
  /\ key' = [key EXCEPT ![node[t]] = arg[t]]
  /\ value' = [value EXCEPT ![node[t]] = arg[t]]
  /\ recent_next' = [recent_next EXCEPT ![node[t]] = DUMMY]
  /\ arg' = [arg EXCEPT ![t] = NoKey]
  /\ UNCHANGED <<links, table, lru_lock, empty_head, recent, requests,
                 current_element_count, allocated, ret, locals>>

\* The whole critical section of addNodeToBucket; first = last = node.  A chain
\* is a sequence, which is what the bucket_next links make as long as a node is
\* in no two chains.  When the pool's ABA puts one into a second chain (run
\* pool_aba), the code breaks the links of the first; nothing is claimed of the
\* chains from there on.
addNodeToBucket(t) ==
  LET b == keyToBucketNr(key[node[t]])
  IN  /\ Goto(t, "add_to_bucket", "add_first")
      /\ Unlocked(b)
      /\ bucket' = [bucket EXCEPT ![b] = <<node[t]>> \o @]
      /\ prev' = [prev EXCEPT ![t] = node[t]]
      /\ UNCHANGED <<items, links, recent_next, bucket_lock, lru_lock, empty_head,
                     recent, requests, current_element_count, allocated, call,
                     node, next, freed>>

InsertReturns(t) ==
  /\ pc[t] = "ins_done"
  /\ recent_next' = [recent_next EXCEPT ![node[t]] = NULL]
  /\ Return(t)
  /\ UNCHANGED <<items, links, table, lru_lock, empty_head, recent, requests,
                 current_element_count, allocated>>

-----------------------------------------------------------------------------
(* addSublistToLruHead(first, last), for insert and for pullRecent: node   *)
(* is first, prev is last and next is current_next.                        *)

\* A turn of its loop up to the compare_exchange.
LinkToLruHead(t) ==
  /\ next' = [next EXCEPT ![t] = lru_next[HEAD]]
  /\ lru_next' = [lru_next EXCEPT ![prev[t]] = lru_next[HEAD]]

AddFirst(t) ==
  /\ Goto(t, "add_first", "add_cas")
  /\ lru_prev' = [lru_prev EXCEPT ![node[t]] = HEAD]
  /\ LinkToLruHead(t)
  /\ UNCHANGED <<items, recent_next, table, lru_lock, empty_head, recent, requests,
                 current_element_count, allocated, call, node, prev, freed>>

\* Mutant of AddCas: a plain store instead of the compare_exchange.
AddStore(t) ==
  /\ Goto(t, "add_cas", "add_back")
  /\ lru_next' = [lru_next EXCEPT ![HEAD] = node[t]]
  /\ UNCHANGED <<items, lru_prev, recent_next, table, lru_lock, empty_head, recent,
                 requests, current_element_count, allocated, call, locals>>

AddCas(t) ==
  /\ Goto(t, "add_cas", "add_back")
  /\ lru_next[HEAD] = next[t]
  /\ lru_next' = [lru_next EXCEPT ![HEAD] = node[t]]
  /\ UNCHANGED <<items, lru_prev, recent_next, table, lru_lock, empty_head, recent,
                 requests, current_element_count, allocated, call, locals>>

AddCasFails(t) ==
  /\ Goto(t, "add_cas", "add_cas")
  /\ lru_next[HEAD] # next[t]
  /\ LinkToLruHead(t)
  /\ UNCHANGED <<items, lru_prev, recent_next, table, lru_lock, empty_head, recent, requests,
                 current_element_count, allocated, call, node, prev, freed>>

AddBack(t) ==
  /\ Goto(t, "add_back", IF lru_lock = t THEN "pull_done" ELSE "ins_done")
  /\ lru_prev' = [lru_prev EXCEPT ![next[t]] = prev[t]]
  /\ next' = [next EXCEPT ![t] = NULL]
  /\ UNCHANGED <<items, lru_next, recent_next, table, lru_lock, empty_head, recent,
                 requests, current_element_count, allocated, call, node, prev,
                 freed>>

-----------------------------------------------------------------------------
(* consolidateCache                                                        *)

\* Mutant of TryLock: consolidates whether or not the lock is held.
TryLockInVain(t) ==
  /\ Goto(t, "try_lock", "cons_purge")
  /\ lru_lock' = t
  /\ node' = [node EXCEPT ![t] = NULL]
  /\ UNCHANGED <<items, links, recent_next, table, empty_head, recent, requests,
                 current_element_count, allocated, call, next, prev, freed>>

TryLock(t) ==
  /\ Goto(t, "try_lock", "cons_purge")
  /\ lru_lock = NULL
  /\ lru_lock' = t
  /\ node' = [node EXCEPT ![t] = NULL]
  /\ UNCHANGED <<items, links, recent_next, table, empty_head, recent, requests,
                 current_element_count, allocated, call, next, prev, freed>>

TryLockFails(t) ==
  /\ pc[t] = "try_lock"
  /\ lru_lock # NULL
  /\ Return(t)
  /\ UNCHANGED <<items, links, recent_next, table, lru_lock, empty_head, recent,
                 requests, current_element_count, allocated>>

PurgeBegins(t) ==
  /\ Goto(t, "cons_purge", "purge_visit")
  /\ purge_request
  /\ node' = [node EXCEPT ![t] = lru_prev[TAIL]]
  /\ UNCHANGED <<items, links, recent_next, table, lru_lock, empty_head, recent,
                 requests, current_element_count, allocated, call, next, prev,
                 freed>>

NoPurge(t) ==
  /\ Goto(t, "cons_purge", "cons_pull")
  /\ ~purge_request
  /\ UNCHANGED <<items, links, recent_next, table, lru_lock, empty_head, recent,
                 requests, current_element_count, allocated, call, locals>>

(* purgeOld walks from the tail, evicts PurgeThreshold nodes that are not  *)
(* recent, and never evicts the node next to the head.                     *)

\* Mutant of PurgeDone: the node next to the head may be evicted.
PurgeDoneAtHeadOnly(t) == node[t] = HEAD \/ freed[t] >= PurgeThreshold

PurgeDone(t) ==
  node[t] = HEAD \/ freed[t] >= PurgeThreshold \/ lru_prev[node[t]] = HEAD

\* Mutant of PurgeSkip: stays at the recent node.
PurgeWaits(t) ==
  /\ Goto(t, "purge_visit", "purge_visit")
  /\ ~PurgeDone(t)
  /\ markedRecent(node[t])
  /\ UNCHANGED <<items, links, recent_next, table, lru_lock, empty_head, recent,
                 requests, current_element_count, allocated, call, locals>>

PurgeSkip(t) ==
  /\ Goto(t, "purge_visit", "purge_visit")
  /\ ~PurgeDone(t)
  /\ markedRecent(node[t])
  /\ node' = [node EXCEPT ![t] = lru_prev[node[t]]]
  /\ UNCHANGED <<items, links, recent_next, table, lru_lock, empty_head, recent,
                 requests, current_element_count, allocated, call, next, prev,
                 freed>>

\* prev holds the code's next, the node to visit after this one.
PurgeChoose(t) ==
  /\ Goto(t, "purge_visit", "purge_bucket")
  /\ ~PurgeDone(t)
  /\ ~markedRecent(node[t])
  /\ prev' = [prev EXCEPT ![t] = lru_prev[node[t]]]
  /\ UNCHANGED <<items, links, recent_next, table, lru_lock, empty_head, recent,
                 requests, current_element_count, allocated, call, node, next,
                 freed>>

\* Mutant of removeNodeFromBucket: does not look again whether it is recent.
RemoveWithoutRecheck(t) ==
  LET b == keyToBucketNr(key[node[t]])
      At == {i \in DOMAIN bucket[b] : bucket[b][i] = node[t]}
  IN  /\ Goto(t, "purge_bucket", "purge_unlink")
      /\ Unlocked(b)
      /\ \E i \in At : bucket' = [bucket EXCEPT ![b] = RemoveAt(@, i)]
      /\ UNCHANGED <<items, links, recent_next, bucket_lock, lru_lock, empty_head,
                     recent, requests, current_element_count, allocated, call,
                     locals>>

\* The whole critical section of removeNodeFromBucket(node, false), on the
\* sequence that addNodeToBucket tells of.
removeNodeFromBucket(t) ==
  LET b == keyToBucketNr(key[node[t]])
      At == {i \in DOMAIN bucket[b] : bucket[b][i] = node[t]}
  IN  /\ Goto(t, "purge_bucket", "purge_unlink")
      /\ Unlocked(b)
      /\ ~markedRecent(node[t])
      /\ \E i \in At : bucket' = [bucket EXCEPT ![b] = RemoveAt(@, i)]
      /\ UNCHANGED <<items, links, recent_next, bucket_lock, lru_lock, empty_head,
                     recent, requests, current_element_count, allocated, call,
                     locals>>

KeepInBucket(t) ==
  LET b == keyToBucketNr(key[node[t]])
  IN  /\ Goto(t, "purge_bucket", "purge_visit")
      /\ Unlocked(b)
      /\ markedRecent(node[t]) \/ node[t] \notin Range(bucket[b])
      /\ node' = [node EXCEPT ![t] = prev[t]]
      /\ prev' = [prev EXCEPT ![t] = NULL]
      /\ UNCHANGED <<items, links, recent_next, table, lru_lock, empty_head,
                     recent, requests, current_element_count, allocated, call,
                     next, freed>>

\* The links after removeNodeFromLru(n), whose own links keep their values.
NextWithout(n) == [lru_next EXCEPT ![lru_prev[n]] = lru_next[n]]
PrevWithout(n) == [lru_prev EXCEPT ![lru_next[n]] = lru_prev[n]]

\* Mutant of PurgeUnlink: neither onDelete nor the count.
PurgeUnlinkOnly(t) ==
  /\ Goto(t, "purge_unlink", "dispose")
  /\ lru_next' = [NextWithout(node[t]) EXCEPT ![node[t]] = empty_head]
  /\ lru_prev' = PrevWithout(node[t])
  /\ next' = [next EXCEPT ![t] = empty_head]
  /\ UNCHANGED <<items, recent_next, table, lru_lock, empty_head, recent, requests,
                 current_element_count, allocated, call, node, prev, freed>>

(* removeNodeFromLru, onDelete, which takes key and value, the count, and   *)
(* disposeNode's loop up to its compare_exchange.                           *)
PurgeUnlink(t) ==
  /\ Goto(t, "purge_unlink", "dispose")
  /\ lru_next' = [NextWithout(node[t]) EXCEPT ![node[t]] = empty_head]
  /\ lru_prev' = PrevWithout(node[t])
  /\ key' = [key EXCEPT ![node[t]] = NoKey]
  /\ value' = [value EXCEPT ![node[t]] = NoKey]
  /\ current_element_count' = current_element_count - 1
  /\ next' = [next EXCEPT ![t] = empty_head]
  /\ UNCHANGED <<recent_next, table, lru_lock, empty_head, recent, requests,
                 allocated, call, node, prev, freed>>

\* Mutant of DisposeCas: a plain store instead of the compare_exchange.
DisposeStore(t) ==
  /\ Goto(t, "dispose", "purge_visit")
  /\ empty_head' = node[t]
  /\ freed' = [freed EXCEPT ![t] = @ + 1]
  /\ node' = [node EXCEPT ![t] = prev[t]]
  /\ next' = [next EXCEPT ![t] = NULL]
  /\ prev' = [prev EXCEPT ![t] = NULL]
  /\ UNCHANGED <<items, links, recent_next, table, lru_lock, recent, requests,
                 current_element_count, allocated, call>>

DisposeCas(t) ==
  /\ Goto(t, "dispose", "purge_visit")
  /\ empty_head = next[t]
  /\ empty_head' = node[t]
  /\ freed' = [freed EXCEPT ![t] = @ + 1]
  /\ node' = [node EXCEPT ![t] = prev[t]]
  /\ next' = [next EXCEPT ![t] = NULL]
  /\ prev' = [prev EXCEPT ![t] = NULL]
  /\ UNCHANGED <<items, links, recent_next, table, lru_lock, recent, requests,
                 current_element_count, allocated, call>>

DisposeCasFails(t) ==
  /\ Goto(t, "dispose", "dispose")
  /\ empty_head # next[t]
  /\ next' = [next EXCEPT ![t] = empty_head]
  /\ lru_next' = [lru_next EXCEPT ![node[t]] = empty_head]
  /\ UNCHANGED <<items, lru_prev, recent_next, table, lru_lock, empty_head, recent,
                 requests, current_element_count, allocated, call, node, prev,
                 freed>>

PurgeEnds(t) ==
  /\ Goto(t, "purge_visit", "purge_done")
  /\ PurgeDone(t)
  /\ node' = [node EXCEPT ![t] = NULL]
  /\ freed' = [freed EXCEPT ![t] = 0]
  /\ UNCHANGED <<items, links, recent_next, table, lru_lock, empty_head, recent,
                 requests, current_element_count, allocated, call, next, prev>>

PurgeLowersFlag(t) ==
  /\ Goto(t, "purge_done", "cons_pull")
  /\ purge_request' = FALSE
  /\ UNCHANGED <<items, links, recent_next, table, lru_lock, empty_head, recent,
                 pull_request, current_element_count, allocated, call, locals>>

(* pullRecent takes the Recent list, moves its nodes one by one from the   *)
(* LRU list to a list of its own, all but one next to the head, and links  *)
(* that list in at the head.                                               *)

\* Mutant of PullBegins: nullptr in place of the dummy terminal.
PullLeavesNull(t) ==
  /\ Goto(t, "cons_pull", "pull_reset")
  /\ pull_request
  /\ node' = [node EXCEPT ![t] = recent_head]
  /\ recent_head' = NULL
  /\ prev' = [prev EXCEPT ![t] = TEMP]
  /\ UNCHANGED <<items, links, recent_next, table, lru_lock, empty_head,
                 recent_count, requests, current_element_count, allocated, call,
                 next, freed>>

\* pull_request_ is set and stays set; popRecentListSlice's exchange.
PullBegins(t) ==
  /\ Goto(t, "cons_pull", "pull_reset")
  /\ pull_request
  /\ node' = [node EXCEPT ![t] = recent_head]
  /\ recent_head' = DUMMY
  /\ prev' = [prev EXCEPT ![t] = TEMP]
  /\ UNCHANGED <<items, links, recent_next, table, lru_lock, empty_head,
                 recent_count, requests, current_element_count, allocated, call,
                 next, freed>>

NoPull(t) ==
  /\ Goto(t, "cons_pull", "unlock")
  /\ ~pull_request
  /\ UNCHANGED <<items, links, recent_next, table, lru_lock, empty_head, recent,
                 requests, current_element_count, allocated, call, locals>>

PullReset(t) ==
  /\ Goto(t, "pull_reset", "pull_visit")
  /\ recent_count' = 0
  /\ UNCHANGED <<items, links, recent_next, table, lru_lock, empty_head,
                 recent_head, requests, current_element_count, allocated, call,
                 locals>>

\* current = recent_next of the node, which is then no longer marked.
TakeNextRecent(t) ==
  /\ node' = [node EXCEPT ![t] = recent_next[node[t]]]
  /\ recent_next' = [recent_next EXCEPT ![node[t]] = NULL]

\* The node is next to the head; an insert may change that at once.
PullSkip(t) ==
  /\ Goto(t, "pull_visit", "pull_skip")
  /\ node[t] # DUMMY
  /\ lru_prev[node[t]] = HEAD
  /\ UNCHANGED <<items, links, recent_next, table, lru_lock, empty_head, recent,
                 requests, current_element_count, allocated, call, locals>>

PullSkipClear(t) ==
  /\ Goto(t, "pull_skip", "pull_visit")
  /\ TakeNextRecent(t)
  /\ UNCHANGED <<items, links, table, lru_lock, empty_head, recent, requests,
                 current_element_count, allocated, call, next, prev, freed>>

\* Mutant of PullUnlink: without removeNodeFromLru.
PullLinksOnly(t) ==
  /\ Goto(t, "pull_visit", "pull_clear")
  /\ node[t] # DUMMY
  /\ lru_prev[node[t]] # HEAD
  /\ lru_next' = [lru_next EXCEPT ![prev[t]] = node[t]]
  /\ lru_prev' = [lru_prev EXCEPT ![node[t]] = prev[t]]
  /\ UNCHANGED <<items, recent_next, table, lru_lock, empty_head, recent, requests,
                 current_element_count, allocated, call, locals>>

PullUnlink(t) ==
  /\ Goto(t, "pull_visit", "pull_clear")
  /\ node[t] # DUMMY
  /\ lru_prev[node[t]] # HEAD
  /\ lru_next' = [NextWithout(node[t]) EXCEPT ![prev[t]] = node[t]]
  /\ lru_prev' = [PrevWithout(node[t]) EXCEPT ![node[t]] = prev[t]]
  /\ UNCHANGED <<items, recent_next, table, lru_lock, empty_head, recent, requests,
                 current_element_count, allocated, call, locals>>

PullClear(t) ==
  /\ Goto(t, "pull_clear", "pull_visit")
  /\ prev' = [prev EXCEPT ![t] = node[t]]
  /\ TakeNextRecent(t)
  /\ UNCHANGED <<items, links, table, lru_lock, empty_head, recent, requests,
                 current_element_count, allocated, call, next, freed>>

PullFoundNone(t) ==
  /\ Goto(t, "pull_visit", "pull_done")
  /\ node[t] = DUMMY /\ prev[t] = TEMP
  /\ UNCHANGED <<items, links, recent_next, table, lru_lock, empty_head, recent,
                 requests, current_element_count, allocated, call, locals>>

\* addSublistToLruHead(head.lru_next, prev)
PullAdds(t) ==
  /\ Goto(t, "pull_visit", "add_first")
  /\ node[t] = DUMMY /\ prev[t] # TEMP
  /\ node' = [node EXCEPT ![t] = lru_next[TEMP]]
  /\ UNCHANGED <<items, links, recent_next, table, lru_lock, empty_head, recent,
                 requests, current_element_count, allocated, call, next, prev,
                 freed>>

\* pullRecent's stack is gone; the flag is lowered whoever raised it since it
\* was read.
PullLowersFlag(t) ==
  /\ Goto(t, "pull_done", "unlock")
  /\ pull_request' = FALSE
  /\ lru_next' = [lru_next EXCEPT ![TEMP] = NULL]
  /\ node' = [node EXCEPT ![t] = NULL]
  /\ prev' = [prev EXCEPT ![t] = NULL]
  /\ UNCHANGED <<items, lru_prev, recent_next, table, lru_lock, empty_head, recent,
                 purge_request, current_element_count, allocated, call, next, freed>>

\* A step of its own: a try_lock that fails until now leaves its request to
\* the next consolidation, not to this one.
UnlockLru(t) ==
  /\ pc[t] = "unlock"
  /\ lru_lock' = NULL
  /\ Return(t)
  /\ UNCHANGED <<items, links, recent_next, table, empty_head, recent, requests,
                 current_element_count, allocated>>

-----------------------------------------------------------------------------
Find(t) ==
  \/ FindMiss(t) \/ FindHit(t) \/ FindCopyMarked(t) \/ FindCopyUnmarked(t)
  \/ MarkCas(t) \/ MarkCasFails(t) \/ MarkCount(t)
  \/ BelowThreshold(t) \/ RecentThresholdHit(t) \/ requestPull(t)

Allocate(t) ==
  \/ InsertBegins(t) \/ AllocLoad(t) \/ requestPurge(t) \/ AllocNext(t)
  \/ AllocCas(t) \/ AllocCasFails(t)

Fill(t) == FillNode(t) \/ addNodeToBucket(t) \/ InsertReturns(t)

AddSublist(t) ==
  AddFirst(t) \/ AddCas(t) \/ AddCasFails(t) \/ AddBack(t)

Purge(t) ==
  \/ PurgeBegins(t) \/ NoPurge(t) \/ PurgeSkip(t) \/ PurgeChoose(t)
  \/ removeNodeFromBucket(t) \/ KeepInBucket(t) \/ PurgeUnlink(t)
  \/ DisposeCas(t) \/ DisposeCasFails(t) \/ PurgeEnds(t)
  \/ PurgeLowersFlag(t)

Pull(t) ==
  \/ PullBegins(t) \/ NoPull(t) \/ PullReset(t) \/ PullSkip(t)
  \/ PullSkipClear(t) \/ PullUnlink(t) \/ PullClear(t) \/ PullFoundNone(t)
  \/ PullAdds(t) \/ PullLowersFlag(t)

\* A step of a call in progress.
Step(t) ==
  \/ Find(t) \/ Allocate(t) \/ Fill(t) \/ AddSublist(t)
  \/ TryLock(t) \/ TryLockFails(t) \/ Purge(t) \/ Pull(t) \/ UnlockLru(t)

StartAny(t) == \E op \in Calls, k \in Keys : Start(t, op, k)

Next == 
  \/ \E t \in Threads : StartAny(t) \/ Step(t)
  \/ releaseMemory
  \/ allocateMemory

Spec == Init /\ [][Next]_vars

-----------------------------------------------------------------------------
(* Control points                                                          *)

FindLocked == {"find_copy", "mark_cas", "mark_count"}
Allocating == {"alloc_load", "alloc_next", "alloc_cas"}
\* A popped node belongs to its inserter until it is in the bucket ...
Filling == {"fill", "add_to_bucket"}
\* ... and insert or pullRecent adds it to the LRU list.
Adding == {"add_first", "add_cas", "add_back"}
Purging == {"purge_visit", "purge_bucket", "purge_unlink", "dispose",
            "purge_done"}
Pulling == {"pull_reset", "pull_visit", "pull_skip", "pull_clear",
            "pull_done"}
Consolidating == {"cons_purge", "cons_pull", "unlock"} \cup Purging \cup Pulling
PCs == {"idle", "find_lock", "find_threshold", "request_pull", "try_lock",
        "ins_begin", "ins_done"}
       \cup FindLocked \cup Allocating \cup Filling \cup Adding \cup Consolidating

=============================================================================
