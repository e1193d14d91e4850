----------------------- MODULE ConcurrentLRUProperties -----------------------
(* What the cache of ConcurrentLRU must get right.                          *)
EXTENDS ConcurrentLRU, LinkedLists

-----------------------------------------------------------------------------
(* Control points                                                          *)

\* The thread has the lock of its node, which is in a list ...
AtNode == {"find_fails", "find_done", "remove_try", "remove_next", "give_way",
           "evict_next", "ht_insert"}
\* ... or which it has taken out of the list and not yet put into the other.
InHand == {"remove_unnext", "evict_unnext", "ht_remove", "ht_unprev",
           "tail_read", "tail_prev", "tail_retry", "tail_lock"}
AtPrev == {"relock_both", "leave_prev", "remove_next", "tail_lock",
           "tail_retry", "evict_node", "evict_next", "ht_unprev"}
PCs == {"idle", "lock_found", "lock_prev", "relock", "evict_head"}
       \cup AtNode \cup InHand \cup AtPrev

\* The nodes from a head to the tail of its list.
Listed(head) == Follow(lru_next[head], lru_next, Nodes, Capacity)

LruOrder == Listed(LRU_HEAD)
Cached == UNION {Range(chain[b]) : b \in Buckets}

-----------------------------------------------------------------------------
(* Every variable holds what its type in the code allows; a thread past a  *)
(* lock has that lock, and no lock is left to a thread that is idle.       *)
TypeOK ==
  /\ key \in [Nodes -> Keys \cup {NoKey}] /\ lru_flag \in [Nodes -> BOOLEAN]
  /\ lru_next \in [Base -> Base \cup {NULL}]
  /\ lru_prev \in [Base -> Base \cup {NULL}]
  /\ lock \in [Base -> Threads \cup {NULL}]
  /\ chain \in [Buckets -> Seq(Nodes)]
  /\ bucket_lock \in [Buckets -> Threads \cup {NULL}]
  /\ pc \in [Threads -> PCs]
  /\ op \in [Threads -> Calls] /\ arg \in [Threads -> Keys \cup {NoKey}]
  /\ node \in [Threads -> Nodes \cup {NULL}]
  /\ prev \in [Threads -> Base \cup {NULL}]
  /\ \A t \in Threads :
       /\ pc[t] \in AtNode \cup InHand => lock[node[t]] = t
       /\ pc[t] \in AtPrev => lock[prev[t]] = t
       /\ pc[t] = "idle" => \A n \in Base : lock[n] # t

(* The pool and the LRU list are whole in both directions at every moment, *)
(* and every node is in one of them, or in the hands of one thread that    *)
(* evicts it or moves it: none is lost, none is listed twice, whatever     *)
(* neighbours the threads lock at once (listEvictNext, listInsertBefore,   *)
(* lruRemoveNode).                                                         *)
ListsAreWhole ==
  LET list == [head \in Heads |-> Listed(head)]
      whole(nodes) ==
        /\ Len(nodes) <= Capacity + 2
        /\ \A i \in 2 .. Len(nodes) :
             lru_next[nodes[i - 1]] = nodes[i] /\ lru_prev[nodes[i]] = nodes[i - 1]
      holders(n) == {t \in Threads : pc[t] \in InHand /\ node[t] = n}
      lists(n) == {head \in Heads : Contains(list[head], n)}
  IN  /\ \A head \in Heads : whole(<<head>> \o list[head] \o <<TailOf(head)>>)
      /\ \A n \in Nodes : Cardinality(lists(n)) + Cardinality(holders(n)) = 1

(* assertIsCoherent (674-676), of every node that is not locked: "all      *)
(* nodes in pool have unset flags", "all nodes in lru are in ht", and with *)
(* a flag set; and in the one bucket of its key, once.                     *)
UnlockedIsCoherent ==
  \A n \in Nodes :
    lock[n] = NULL =>
      IF ~lru_flag[n]
      THEN Contains(Listed(POOL_HEAD), n) /\ n \notin Cached
      ELSE /\ Contains(LruOrder, n)
           /\ \A b \in Buckets :
                Cardinality({i \in DOMAIN chain[b] : chain[b][i] = n})
                  = IF b = whichBucket(key[n]) THEN 1 ELSE 0

(* What a lookup has not looked at again since it let the node go is still *)
(* as it left it: the node it is about to take out is between the nodes    *)
(* that it has locked for that (lruRemoveNode 455-469, 484).               *)
NeighboursStay ==
  \A t \in Threads :
    pc[t] \in {"relock_both", "remove_next"} =>
      lru_next[prev[t]] = node[t] /\ lru_prev[node[t]] = prev[t] /\ lru_flag[node[t]]

(* A lookup copies a value of the key it was asked for, from a node that   *)
(* is in the cache then: in the chain of that key and in the LRU list.  It *)
(* has found the node before it had its lock, and the node may have been   *)
(* evicted, and filled for another key or the same one, in between (find   *)
(* 215-231).                                                               *)
HitIsCached ==
  [][\A t \in Threads :
       pc[t] = "lock_found" /\ pc'[t] = "remove_try" =>
         /\ key[node[t]] = arg[t]
         /\ Contains(chain[whichBucket(arg[t])], node[t])
         /\ Contains(LruOrder, node[t])]_vars

(* Nodes leave the LRU list one at a time and come back at its tail only:  *)
(* the others keep their order, and an eviction takes the first.           *)
OrderOfUse ==
  [][LET old == LruOrder
         new == LruOrder'
     IN  \/ new = old
         \/ \E n \in Nodes : new = Append(old, n) /\ ~Contains(old, n)
         \/ \E t \in Threads, i \in DOMAIN old :
              /\ new = RemoveAt(old, i)
              /\ node[t] = old[i] /\ (op[t] = "insert" => i = 1)
         \/ \A t \in Threads : pc[t] = "idle"]_vars

-----------------------------------------------------------------------------
(* The one known way to wait for ever is a circle of threads that each    *)
(* hold a node which is in no list.  One has evicted its node and waits    *)
(* for the predecessor of that node in the chain; the others wait to lock  *)
(* the node that they read as the last of the list, when it still was.     *)
waitedFor(t) ==
  CASE pc[t] = "tail_prev" -> {lock[prev[t]]}
    [] pc[t] = "ht_remove" ->
         {lock[chain[BucketOf(t)][i - 1]] :
            i \in {j \in 2 .. Len(chain[BucketOf(t)]) :
                     chain[BucketOf(t)][j] = node[t]}}
    [] OTHER -> {}

Circle(C) ==
  /\ \A t \in C : waitedFor(t) \cap C # {}
  /\ \E t \in C : pc[t] = "ht_remove"

SomeCircle == \E C \in SUBSET Threads : Circle(C)

(* Threads that lock neighbours of the list and of a chain in different    *)
(* orders do not wait for each other in a circle, but for the known one.   *)
OnlyTheCircleBlocks ==
  LET busy == {t \in Threads : pc[t] # "idle"}
  IN  (busy # {} /\ \A t \in busy : ~ENABLED Step(t)) => SomeCircle

(* The comments on htRemove (622, 634): it fails when the predecessor in   *)
(* the chain is locked, "it may be being simultaneously evicted",          *)
(* "probably being removed", and so evictLeastRecentlyUsed repeats it.     *)
EvictionEnds ==
  \A t \in Threads : pc[t] = "ht_remove" ~> pc[t] # "ht_remove"
=============================================================================
