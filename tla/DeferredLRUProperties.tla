------------------------ MODULE DeferredLRUProperties ------------------------
(* What the cache of DeferredLRU must get right.                            *)
EXTENDS DeferredLRU, LinkedLists

-----------------------------------------------------------------------------
(* The nodes from start along succ, in order, to the first pointer that is *)
(* no node; cut off after one node more than there are.                    *)
Walk(start, succ) == Follow(start, succ, Nodes, Capacity)

Reached(start, succ) == Range(Walk(start, succ))

\* The walk ends at stop, and so visits no node twice.
Ends(start, succ, stop) ==
  LET walk == Walk(start, succ)
  IN  IF walk = <<>> THEN start = stop
      ELSE Len(walk) <= Capacity /\ succ[Last(walk)] = stop

Cached == UNION {Range(bucket[b]) : b \in Buckets}
Pool == Reached(empty_head, lru_next)
LruOrder == Walk(lru_next[HEAD], lru_next)
Recent == Reached(recent_head, recent_next)

-----------------------------------------------------------------------------
(* Every variable holds what its type in the code allows, and no pointer a *)
(* thread dereferences is null or a sentinel it must not touch.            *)
TypeOK ==
  /\ key \in [Nodes -> Keys \cup {NoKey}]
  /\ value \in [Nodes -> Keys \cup {NoKey}]
  /\ lru_next \in [Base -> Nodes \cup {TAIL, NULL}]
  /\ lru_prev \in [Base -> Nodes \cup {HEAD, TEMP, NULL}]
  /\ recent_next \in [Nodes -> Nodes \cup {DUMMY, NULL}]
  /\ bucket \in [Buckets -> Seq(Nodes)]
  /\ bucket_lock \in [Locks -> Threads \cup {NULL}]
  /\ lru_lock \in Threads \cup {NULL}
  /\ empty_head \in Nodes \cup {NULL}
  /\ recent_head \in Nodes \cup {DUMMY}
  /\ recent_count \in Nat /\ current_element_count \in Nat
  /\ pull_request \in BOOLEAN /\ purge_request \in BOOLEAN
  /\ allocated \in BOOLEAN
  /\ pc \in [Threads -> PCs]
  /\ ret \in [Threads -> {"idle", "ins_begin", "alloc_load"}]
  /\ arg \in [Threads -> Keys \cup {NoKey}]
  /\ freed \in [Threads -> 0 .. PurgeThreshold]
  /\ next \in [Threads -> Nodes \cup {TAIL, DUMMY, NULL}]
  /\ prev \in [Threads -> Nodes \cup {HEAD, TEMP, NULL}]
  /\ \A t \in Threads :
       CASE pc[t] \in FindLocked \cup Filling \cup Adding \cup
                      {"alloc_cas", "ins_done", "purge_bucket", "purge_unlink",
                       "dispose", "pull_skip", "pull_clear"} -> node[t] \in Nodes
         [] pc[t] = "alloc_next" -> node[t] \in Nodes \cup {NULL}
         [] pc[t] = "purge_visit" -> node[t] \in Nodes \cup {HEAD}
         [] pc[t] \in {"pull_reset", "pull_visit"} -> node[t] \in Nodes \cup {DUMMY}
         [] OTHER -> TRUE

-----------------------------------------------------------------------------
(* lru_lock_ and the bucket locks are held by the threads that are inside  *)
(* the code they guard, and by no other (consolidateCache 348-365, find    *)
(* 236-255).                                                               *)
LockDiscipline ==
  /\ \A t \in Threads : pc[t] \in Consolidating => lru_lock = t
  /\ lru_lock # NULL => pc[lru_lock] \in Consolidating \cup Adding
  /\ \A t \in Threads :
       pc[t] \in FindLocked => bucket_lock[LockOf(keyToBucketNr(arg[t]))] = t

(* The node a lookup has found is, until the lookup lets the bucket go, in *)
(* the bucket it was found in and in no thread's hands: it can be evicted  *)
(* or filled anew neither while its value is copied nor between being      *)
(* chosen and being marked as recent (find 236-255, and purgeOld's look at *)
(* the recent link under the bucket lock, 584).                            *)
InHand == {t \in Threads : pc[t] \in Filling \cup {"purge_unlink", "dispose"}}

HitStaysInBucket ==
  \A t \in Threads :
    pc[t] \in FindLocked =>
      /\ node[t] \in Range(bucket[keyToBucketNr(arg[t])])
      /\ \A u \in InHand : node[u] # node[t]

(* A lookup gives its consumer the value computed from the key it was      *)
(* asked for: a node is never refilled under a reader.  The benchmark      *)
(* checks this of every lookup ("Wrong value").                            *)
HitReadsOwnValue ==
  \A t \in Threads :
    pc[t] \in FindLocked => key[node[t]] = arg[t] /\ value[node[t]] = arg[t]

(* A node is in the pool, or in one place of one bucket, or in the hands   *)
(* of one thread that fills or evicts it: none is lost, none is used twice *)
(* (README: all nodes are preallocated, the empty ones are in the pool).   *)
Places == {<<b, i>> : b \in Buckets, i \in Nodes}

NodeHasOneOwner ==
  allocated =>
    LET pool == Pool
        chained == {p \in Places : p[2] <= Len(bucket[p[1]])}
        owners(n) == (IF n \in pool THEN 1 ELSE 0)
                     + Cardinality({t \in InHand : node[t] = n})
                     + Cardinality({p \in chained : bucket[p[1]][p[2]] = n})
    IN  /\ \A n \in Nodes : owners(n) = 1
        /\ \A b \in Buckets : Len(bucket[b]) <= Capacity

(* The LRU list runs from the head to the tail through every cached node,  *)
(* those excepted that an insert has yet to link in and those pullRecent   *)
(* has taken out; and it can be walked back, which purgeOld does, except   *)
(* over the one link that an addSublistToLruHead has yet to store: there   *)
(* the walk meets the head, and stops.                                     *)
NotYetLinked == {node[t] : t \in {u \in Threads : /\ pc[u] \in {"add_first", "add_cas"}
                                                 /\ lru_lock # u}}
TakenOut ==
  UNION {Reached(IF pc[t] = "pull_clear" THEN node[t] ELSE prev[t], lru_prev)
         : t \in {u \in Threads : /\ lru_lock = u
                                  /\ pc[u] \in {"pull_visit", "pull_skip", "pull_clear",
                                                "add_first", "add_cas"}}}
BeingEvicted == {node[t] : t \in {u \in Threads : pc[u] = "purge_unlink"}}

BackLinkPending(n, m) ==
  /\ lru_prev[m] = HEAD
  /\ \E t \in Threads : pc[t] = "add_back" /\ prev[t] = n /\ next[t] = m

LruListIsWhole ==
  allocated =>
    LET listed == Range(LruOrder)
    IN  /\ Ends(lru_next[HEAD], lru_next, TAIL)
        /\ listed = (Cached \cup BeingEvicted) \ (NotYetLinked \cup TakenOut)
        /\ \A n \in listed \cup {HEAD} :
             lru_prev[lru_next[n]] = n \/ BackLinkPending(n, lru_next[n])

(* The recent link of a node is set exactly while the node is in the       *)
(* Recent list, or in the slice of it that pullRecent works through, or is *)
(* being put there, or is in its bucket but not yet in the LRU list        *)
(* (README: "it is always possible to tell if a node is in the Recent list *)
(* by checking if the link is NULL or not"); and the nodes of both lists   *)
(* are cached, so that pullRecent never touches an evicted one.            *)
Slice == UNION {Reached(node[t], recent_next)
                : t \in {u \in Threads : pc[u] \in {"pull_reset", "pull_visit", "pull_skip",
                                               "pull_clear"}}}
BeingMarked == {node[t] : t \in {u \in Threads : pc[u] = "mark_cas"}}
FalselyMarked ==
  {node[t] : t \in {u \in Threads :
                      \/ pc[u] \in {"add_to_bucket", "ins_done"}
                      \/ pc[u] \in Adding /\ lru_lock # u}}

RecentLinkTells ==
  allocated =>
    /\ Ends(recent_head, recent_next, DUMMY)
    /\ Recent \cap Slice = {}
    /\ Recent \cup Slice \subseteq Cached
    /\ {n \in Nodes : recent_next[n] # NULL}
         = Recent \cup Slice \cup BeingMarked \cup FalselyMarked

(* approximateSize() is exact whenever no call is in progress, and during  *)
(* calls it exceeds the number of nodes by at most the inserts waiting for *)
(* one: reservations (insert 291) and evictions (purgeOld 425) pair up.    *)
SizeExactAtRest ==
  /\ AllIdle /\ allocated => current_element_count = Cardinality(Cached)
  /\ allocated => current_element_count <= Capacity + Cardinality(Threads)

-----------------------------------------------------------------------------
(* A value leaves its node through onDelete, and each value once: it is   *)
(* cleared when purgeOld or releaseMemory hands the item to onDelete (425  *)
(* and 170), at no other time and by no insert, and what they hand over    *)
(* has not been handed over already.                                       *)
onDelete(n) ==
  \/ \E t \in Threads : pc[t] = "purge_unlink" /\ pc'[t] = "dispose" /\ node[t] = n
  \/ allocated /\ ~allocated' /\ n \in Cached

ValuesLeaveThroughOnDelete ==
  [][\A n \in Nodes :
       /\ value[n] # NoKey /\ value'[n] # value[n] => onDelete(n)
       /\ onDelete(n) => value[n] # NoKey /\ value'[n] = NoKey]_vars

(* Nodes enter the LRU list at the head, and leave it one at a time, in    *)
(* the hands of the thread that consolidates, and not from next to the     *)
(* head: no step reorders the others, whatever inserts run with purgeOld   *)
(* and pullRecent.                                                         *)
EntersAtHead ==
  [][allocated /\ lru_next' # lru_next =>
       LET old == LruOrder
           new == LruOrder'
       IN  \/ IsSuffix(old, new)
           \/ \E t \in Threads, i \in DOMAIN old \ {1} :
                lru_lock = t /\ node[t] = old[i] /\ new = RemoveAt(old, i)]_lru_next

(* The pool's compare_exchange in allocateNode compares the head only.  It *)
(* is not deceived when the node at the head still leads to the node that  *)
(* was next when it was read (516-522).                                    *)
PoolUndeceived ==
  \A t \in Threads :
    pc[t] = "alloc_cas" /\ empty_head = node[t] => next[t] = lru_next[node[t]]

-----------------------------------------------------------------------------
(* Liveness.  A thread inside a call keeps running, and a bucket lock that *)
(* is free again and again is got in the end.                              *)
LockSteps(t) ==
  FindMiss(t) \/ FindHit(t) \/ addNodeToBucket(t)
  \/ removeNodeFromBucket(t) \/ KeepInBucket(t)

FairSpec ==
  Spec /\ \A t \in Threads : WF_vars(Step(t)) /\ SF_vars(LockSteps(t))

(* A lookup returns and a consolidation ends: the wait for a bucket lock,  *)
(* the spin of purgeOld for such locks (592) under lru_lock_ and the pull   *)
(* that a lookup may have to do cannot be held up for ever.  The exception  *)
(* is a markNodeRecent (477-479) that is overtaken for ever: its            *)
(* compare_exchange fails whenever another thread marked or pulled since it *)
(* read the head, the code bounds neither, and it has the bucket's lock.    *)
OvertakenForEver ==
  /\ \E t \in Threads : <>[](pc[t] = "mark_cas")
  /\ []<><<recent_head' # recent_head>>_vars

LookupsAndConsolidationsEnd ==
  \/ \A t \in Threads : pc[t] = "find_lock" \/ lru_lock = t
       ~> lru_lock # t /\ pc[t] \in {"idle", "ins_begin"} \cup Allocating
  \/ OvertakenForEver

(* An insert gets a node (README: it spins only until the consolidating    *)
(* thread puts one into the pool or it can consolidate by itself).          *)
InsertsGetNodes ==
  \A t \in Threads : pc[t] \in Allocating ~> pc[t] = "fill"

-----------------------------------------------------------------------------
(* What the README says of the pool: "All empty nodes are stored in a node *)
(* pool [...] the head node in the pool is removed" by a new item; so no   *)
(* node of the pool is in a bucket.                                        *)
PoolHoldsEmptyNodes == allocated => Pool \cap Cached = {}
=============================================================================
