------------------------- MODULE ConcurrentLRUProofs -------------------------
(* Proofs about ConcurrentLRU for all values of its constants: any number  *)
(* of threads, nodes, keys and buckets.                                    *)
(*                                                                         *)
(* The invariant has a part that is about every thread alone (ThreadOK:    *)
(* what it has locked, and what it knows of the nodes that it has locked)  *)
(* and parts about the lists, the flags and the chains.  A step changes    *)
(* only what its thread has locked (Touches), so it leaves what the others *)
(* know (OthersKeep); of the lists it leaves all, or takes its node out of *)
(* one, or puts it behind the last (StepLists).                            *)
EXTENDS ConcurrentLRUProperties, LinkedListProofs

(* The nodes of a list.                                                    *)
Members(head) == Range(Listed(head))

-----------------------------------------------------------------------------
(* The types of all variables.                                             *)
Types ==
  /\ key \in [Nodes -> Keys \cup {NoKey}] /\ lru_flag \in [Nodes -> BOOLEAN]
  /\ lru_next \in [Base -> Base \cup {NULL}]
  /\ lru_prev \in [Base -> Base \cup {NULL}]
  /\ lock \in [Base -> Threads \cup {NULL}]
  /\ chain \in [Buckets -> Seq(Nodes)]
  /\ bucket_lock \in [Buckets -> Threads \cup {NULL}]
  /\ pc \in [Threads -> PCs]
  /\ op \in [Threads -> Calls] /\ arg \in [Threads -> Keys \cup {NoKey}]
  /\ node \in [Threads -> Nodes \cup {NULL}]
  /\ prev \in [Threads -> Base \cup {NULL}]

(* Control points at which a thread ...                                    *)
Evicting == {"evict_node", "evict_next", "evict_unnext"}
Removing == {"remove_try", "give_way", "lock_prev", "relock_both", "leave_prev",
             "relock", "remove_next", "remove_unnext"}
Appending == {"tail_read", "tail_prev", "tail_retry", "tail_lock"}
Unnext == {"remove_unnext", "evict_unnext"}

(* ... is in a call to insert, or in a lookup.                             *)
CallOK(t) ==
  /\ pc[t] \in Evicting \cup {"evict_head", "ht_remove", "ht_unprev", "ht_insert"}
       => op[t] = "insert"
  /\ pc[t] \in {"idle", "lock_found", "find_fails", "find_done"} \cup Removing => op[t] = "find"
  /\ op[t] = "insert" => arg[t] \in Keys

(* Where its locals are nodes or heads; the predecessor is another node.   *)
LocalsOK(t) ==
  /\ pc[t] \notin {"idle", "evict_head"} => node[t] \in Nodes
  /\ pc[t] \in {"give_way", "lock_prev", "relock_both", "leave_prev", "remove_next",
                "tail_prev", "tail_retry", "tail_lock", "ht_unprev"}
       => prev[t] \in Nodes \cup {LRU_HEAD}
  /\ pc[t] \in {"give_way", "lock_prev", "relock_both", "leave_prev", "remove_next",
                "tail_retry", "tail_lock", "ht_unprev"} => prev[t] # node[t]
  /\ pc[t] \in Evicting \cup {"evict_head"} => prev[t] \in Heads

(* The nodes it has locked: no others, and all of these.                   *)
Mine(t, n) ==
  \/ n = node[t] /\ pc[t] \in AtNode \cup InHand \cup {"leave_prev"}
  \/ n = prev[t] /\ pc[t] \in AtPrev
  \/ n = lru_next[node[t]] /\ pc[t] \in Unnext

LocksOK(t) ==
  /\ \A n \in Base : lock[n] = t => Mine(t, n)
  /\ pc[t] \in AtNode \cup InHand => lock[node[t]] = t
  /\ pc[t] \in AtPrev => lock[prev[t]] = t
  /\ pc[t] \in Unnext => /\ lock[lru_next[node[t]]] = t /\ lru_next[node[t]] \in Base
                         /\ lru_next[node[t]] # node[t]

(* What it knows from the locks it has, and from those it had: a node that *)
(* has left the pool never comes back to it.                               *)
NeighboursOK(t) ==
  /\ pc[t] \in {"relock_both", "remove_next", "evict_node", "evict_next"}
       => lru_next[prev[t]] = node[t]
  /\ pc[t] = "tail_lock" => lru_next[prev[t]] = LRU_TAIL
  /\ pc[t] \in {"give_way", "lock_prev", "relock_both", "remove_next",
                "tail_prev", "tail_lock"} => prev[t] \notin Members(POOL_HEAD)
  /\ pc[t] \in Appending \cup {"remove_try", "remove_next", "remove_unnext", "ht_insert"}
       => lru_flag[node[t]]

(* All of this.                                                            *)
ThreadOK(t) == CallOK(t) /\ LocalsOK(t) /\ LocksOK(t) /\ NeighboursOK(t)

(* The lists are whole, and apart from each other, ...                     *)
ListsOK ==
  /\ \A head \in Heads :
       /\ Distinct(Listed(head), Nodes)
       /\ IsWhole(head, Listed(head), TailOf(head), lru_next, lru_prev)
  /\ Members(LRU_HEAD) \cap Members(POOL_HEAD) = {}

(* ... and a node that is in none of them is in the hands of a thread.     *)
EachNodeOnce ==
  \A n \in Nodes :
    (n \in Members(LRU_HEAD) \cup Members(POOL_HEAD))
      <=> \A t \in Threads : pc[t] \in InHand => node[t] # n

(* The flag tells the lists apart.                                         *)
FlagsOK ==
  /\ \A n \in Members(LRU_HEAD) : lru_flag[n]
  /\ \A n \in Members(POOL_HEAD) : ~lru_flag[n]

(* A thread that has a node which is in no chain: it has just come from the*)
(* pool, or has been evicted, or is not inserted yet.                      *)
FromPool(t) == pc[t] = "evict_unnext" /\ prev[t] = POOL_HEAD
Unchained(t) ==
  \/ pc[t] \in {"ht_unprev", "ht_insert"}
  \/ pc[t] \in Appending /\ op[t] = "insert"
  \/ FromPool(t)

(* The other nodes, but for those of the pool, are in the chain of their   *)
(* key, once, and in no other.                                             *)
ChainsOK ==
  /\ \A b \in Buckets : IsInjective(chain[b])
  /\ \A b \in Buckets, n \in Nodes :
       n \in Range(chain[b]) <=> /\ b = whichBucket(key[n])
                                 /\ n \notin Members(POOL_HEAD)
                                 /\ \A t \in Threads : Unchained(t) => node[t] # n
  /\ \A n \in Nodes : \/ key[n] \in Keys
                      \/ n \in Members(POOL_HEAD)
                      \/ \E t \in Threads : FromPool(t) /\ node[t] = n

(* The inductive invariant.                                                *)
IInv ==
  /\ Types /\ ListsOK /\ EachNodeOnce /\ FlagsOK /\ ChainsOK
  /\ \A t \in Threads : ThreadOK(t)

-----------------------------------------------------------------------------
(* The heads, the tails and NULL are different pointers, and no nodes.     *)
LEMMA Pointers ==
  /\ NULL \notin Base
  /\ LRU_HEAD \notin Nodes /\ LRU_TAIL \notin Nodes /\ POOL_HEAD \notin Nodes /\ POOL_TAIL \notin Nodes
  /\ LRU_HEAD # LRU_TAIL /\ LRU_HEAD # POOL_HEAD /\ LRU_HEAD # POOL_TAIL
  /\ LRU_TAIL # POOL_HEAD /\ LRU_TAIL # POOL_TAIL /\ POOL_HEAD # POOL_TAIL
<1>. DEFINE S1 == {NULL}
            S2 == S1 \cup {LRU_HEAD}
            S3 == S2 \cup {LRU_TAIL}
            S4 == S3 \cup {POOL_HEAD}
            S5 == S4 \cup {POOL_TAIL}
<1>1. S5 = {NULL, LRU_HEAD, LRU_TAIL, POOL_HEAD, POOL_TAIL}
  OBVIOUS
<1>2. Cardinality(S5) = 5
  BY <1>1, PointerAssumption
<1>. HIDE DEF S5
<1>3. IsFiniteSet(S1) /\ Cardinality(S1) = 1
  BY FS_Singleton
<1>. HIDE DEF S1
<1>4. IsFiniteSet(S2) /\ Cardinality(S2) = IF LRU_HEAD \in S1 THEN Cardinality(S1) ELSE Cardinality(S1) + 1
  BY <1>3, FS_AddElement
<1>. HIDE DEF S2
<1>5. IsFiniteSet(S3) /\ Cardinality(S3) = IF LRU_TAIL \in S2 THEN Cardinality(S2) ELSE Cardinality(S2) + 1
  BY <1>4, FS_AddElement
<1>. HIDE DEF S3
<1>6. IsFiniteSet(S4) /\ Cardinality(S4) = IF POOL_HEAD \in S3 THEN Cardinality(S3) ELSE Cardinality(S3) + 1
  BY <1>5, FS_AddElement
<1>. HIDE DEF S4
<1>7. Cardinality(S5) = IF POOL_TAIL \in S4 THEN Cardinality(S4) ELSE Cardinality(S4) + 1
  BY <1>6, FS_AddElement DEF S5
<1>8. LRU_HEAD \notin S1 /\ LRU_TAIL \notin S2 /\ POOL_HEAD \notin S3 /\ POOL_TAIL \notin S4
  BY <1>2, <1>3, <1>4, <1>5, <1>6, <1>7
<1>9. /\ NULL # LRU_HEAD /\ NULL # LRU_TAIL /\ NULL # POOL_HEAD /\ NULL # POOL_TAIL
      /\ LRU_HEAD # LRU_TAIL /\ LRU_HEAD # POOL_HEAD /\ LRU_HEAD # POOL_TAIL
      /\ LRU_TAIL # POOL_HEAD /\ LRU_TAIL # POOL_TAIL /\ POOL_HEAD # POOL_TAIL
  BY <1>8 DEF S1, S2, S3, S4
<1>. QED
  BY <1>9, PointerAssumption DEF Base, Heads

(* The same of a head, its tail and the other head.                        *)
LEMMA HeadsAndTails ==
  ASSUME NEW head \in Heads
  PROVE  /\ head \notin Nodes /\ TailOf(head) \notin Nodes /\ head # TailOf(head)
         /\ head \in Base /\ TailOf(head) \in Base /\ OtherHead(head) \in Heads
         /\ head # OtherHead(head) /\ TailOf(head) # TailOf(OtherHead(head))
         /\ head # TailOf(OtherHead(head))
         /\ Heads = {head, OtherHead(head)}
BY Pointers DEF Heads, TailOf, OtherHead, Base

(* What a list is, when its links are whole.                               *)
LEMMA ListedIs ==
  ASSUME NEW head \in Heads, NEW list, Distinct(list, Nodes), NEW next, NEW back,
         IsWhole(head, list, TailOf(head), next, back)
  PROVE  Follow(next[head], next, Nodes, Capacity) = list
BY HeadsAndTails, FollowWhole, SizeAssumption DEF Capacity

(* The neighbours of a node in a list.                                     *)
LEMMA LinkFacts ==
  ASSUME ListsOK, NEW head \in Heads
  PROVE  /\ Members(head) \subseteq Nodes
         /\ \A n \in Members(head) \cup {head} :
              /\ lru_next[n] \in Members(head) \cup {TailOf(head)}
              /\ lru_prev[lru_next[n]] = n
         /\ \A n \in Members(head) \cup {TailOf(head)} :
              /\ lru_prev[n] \in Members(head) \cup {head}
              /\ lru_next[lru_prev[n]] = n
         /\ \A n \in Members(head) : lru_next[n] # n /\ lru_prev[n] # n
         /\ Members(head) \cap Members(OtherHead(head)) = {}
<1>1. /\ Distinct(Listed(head), Nodes)
      /\ IsWhole(head, Listed(head), TailOf(head), lru_next, lru_prev)
  BY DEF ListsOK
<1>2. head \notin Nodes /\ TailOf(head) \notin Nodes
  BY HeadsAndTails
<1>3. Members(head) \cap Members(OtherHead(head)) = {}
  BY DEF ListsOK, OtherHead, Heads
<1>4. /\ \A n \in Members(head) \cup {head} :
           /\ lru_next[n] \in Members(head) \cup {TailOf(head)}
           /\ lru_prev[lru_next[n]] = n
      /\ \A n \in Members(head) \cup {TailOf(head)} :
           /\ lru_prev[n] \in Members(head) \cup {head}
           /\ lru_next[lru_prev[n]] = n
      /\ \A n \in Members(head) : lru_next[n] # n /\ lru_prev[n] # n
      /\ Members(head) \subseteq Nodes
  BY <1>1, <1>2, WholeLinks DEF Members
<1>. QED
  BY <1>3, <1>4

(* To take a node out of its list.                                         *)
LEMMA Bypassed ==
  ASSUME Types, ListsOK, NEW head \in Heads, NEW n \in Members(head), Bypass(n, lru_prev[n])
  PROVE  /\ ListsOK'
         /\ Members(head)' = Members(head) \ {n}
         /\ Listed(OtherHead(head))' = Listed(OtherHead(head))
         /\ \E i \in DOMAIN Listed(head) :
              Listed(head)[i] = n /\ Listed(head)' = RemoveAt(Listed(head), i)
<1>. DEFINE list == Listed(head)
            other == OtherHead(head)
            p == lru_prev[n]
            q == lru_next[n]
<1>1. /\ Distinct(list, Nodes)
      /\ IsWhole(head, list, TailOf(head), lru_next, lru_prev)
      /\ Distinct(Listed(other), Nodes)
      /\ IsWhole(other, Listed(other), TailOf(other), lru_next, lru_prev)
  BY HeadsAndTails DEF ListsOK
<1>2. /\ head \notin Nodes /\ TailOf(head) \notin Nodes /\ other \in Heads
      /\ other \notin Nodes /\ TailOf(other) \notin Nodes
      /\ head # other /\ TailOf(head) # TailOf(other) /\ Heads = {head, other}
      /\ head \in Base /\ TailOf(head) \in Base /\ other \in Base /\ TailOf(other) \in Base
  BY HeadsAndTails
<1>3. /\ Members(head) \subseteq Nodes /\ Members(other) \subseteq Nodes /\ n \in Nodes
      /\ p \in Members(head) \cup {head} /\ q \in Members(head) \cup {TailOf(head)}
      /\ Members(head) \cap Members(other) = {}
  BY <1>2, LinkFacts
<1>4. p \in Base /\ q \in Base /\ Nodes \subseteq Base
  BY <1>2, <1>3 DEF Base
<1>5. /\ lru_next'[p] = q /\ \A x \in Base : x # p => lru_next'[x] = lru_next[x]
      /\ lru_prev'[q] = p /\ \A x \in Base : x # q => lru_prev'[x] = lru_prev[x]
  BY <1>4 DEF Bypass, Types
<1>6. PICK i \in 1 .. Len(list) : list[i] = n
  <2>1. DOMAIN list = 1 .. Len(list)
    BY <1>1 DEF Distinct
  <2>. QED
    BY <2>1 DEF Members, Range
<1>7. IsWhole(head, RemoveAt(list, i), TailOf(head), lru_next', lru_prev')
  <2>1. /\ lru_next'[lru_prev[list[i]]] = lru_next[list[i]]
        /\ \A x \in Nodes \cup {head} : x # lru_prev[list[i]] => lru_next'[x] = lru_next[x]
        /\ lru_prev'[lru_next[list[i]]] = lru_prev[list[i]]
        /\ \A x \in Nodes \cup {TailOf(head)} : x # lru_next[list[i]] => lru_prev'[x] = lru_prev[x]
    BY <1>2, <1>4, <1>5, <1>6
  <2>. HIDE DEF list
  <2>. QED
    BY <1>1, <1>2, <2>1, WholeRemove
<1>8. Distinct(RemoveAt(list, i), Nodes) /\ Range(RemoveAt(list, i)) = Range(list) \ {n}
  BY <1>1, <1>6, RemoveAtDistinct
<1>9. Listed(head)' = RemoveAt(list, i)
  BY <1>7, <1>8, ListedIs DEF Listed
<1>10. IsWhole(other, Listed(other), TailOf(other), lru_next', lru_prev')
  <2>1. /\ \A x \in Range(Listed(other)) \cup {other} : lru_next'[x] = lru_next[x]
        /\ \A x \in Range(Listed(other)) \cup {TailOf(other)} : lru_prev'[x] = lru_prev[x]
    BY <1>2, <1>3, <1>4, <1>5 DEF Members
  <2>. QED
    BY <1>1, <1>2, <2>1, WholeFrame
<1>11. Listed(other)' = Listed(other)
  BY <1>1, <1>2, <1>10, ListedIs DEF Listed
<1>12. Members(head)' = Members(head) \ {n} /\ Members(other)' = Members(other)
  BY <1>8, <1>9, <1>11 DEF Members
<1>13. Members(LRU_HEAD)' \cap Members(POOL_HEAD)' = {}
  BY <1>3, <1>12 DEF OtherHead, Heads
<1>14. ListsOK'
  <2>1. ASSUME NEW h \in Heads
        PROVE  Distinct(Listed(h)', Nodes) /\ IsWhole(h, Listed(h)', TailOf(h), lru_next', lru_prev')
    <3>1. CASE h = head
      BY <1>7, <1>8, <1>9, <3>1
    <3>2. CASE h = other
      BY <1>1, <1>10, <1>11, <3>2
    <3>. QED
      BY <1>2, <3>1, <3>2
  <2>. QED
    BY <1>13, <2>1 DEF ListsOK
<1>15. i \in DOMAIN list
  BY <1>1, <1>6 DEF Distinct
<1>. QED
  BY <1>6, <1>9, <1>11, <1>12, <1>14, <1>15

(* Nothing changes for the lists when only pointers of a node in neither   *)
(* of them do.                                                             *)
LEMMA Forgotten ==
  ASSUME Types, ListsOK, NEW n \in Nodes,
         n \notin Members(LRU_HEAD), n \notin Members(POOL_HEAD),
         \A x \in Base : x # n => lru_next'[x] = lru_next[x] /\ lru_prev'[x] = lru_prev[x]
  PROVE  /\ ListsOK'
         /\ \A head \in Heads : Listed(head)' = Listed(head) /\ Members(head)' = Members(head)
<1>1. ASSUME NEW head \in Heads
      PROVE  /\ Listed(head)' = Listed(head)
             /\ Distinct(Listed(head), Nodes)
             /\ IsWhole(head, Listed(head), TailOf(head), lru_next', lru_prev')
  <2>1. /\ Distinct(Listed(head), Nodes)
        /\ IsWhole(head, Listed(head), TailOf(head), lru_next, lru_prev)
    BY DEF ListsOK
  <2>2. head \notin Nodes /\ TailOf(head) \notin Nodes /\ head \in Base /\ TailOf(head) \in Base
    BY HeadsAndTails
  <2>3. Members(head) \subseteq Nodes /\ n \notin Members(head)
    BY LinkFacts DEF Heads
  <2>4. /\ \A x \in Members(head) \cup {head} : lru_next'[x] = lru_next[x]
        /\ \A x \in Members(head) \cup {TailOf(head)} : lru_prev'[x] = lru_prev[x]
    BY <2>2, <2>3 DEF Base
  <2>5. IsWhole(head, Listed(head), TailOf(head), lru_next', lru_prev')
    BY <2>1, <2>2, <2>4, WholeFrame DEF Members
  <2>. QED
    BY <2>1, <2>5, ListedIs DEF Listed
<1>2. \A head \in Heads : Members(head)' = Members(head)
  BY <1>1 DEF Members
<1>3. LRU_HEAD \in Heads /\ POOL_HEAD \in Heads
  BY DEF Heads
<1>4. Members(LRU_HEAD)' \cap Members(POOL_HEAD)' = {}
  BY <1>2, <1>3 DEF ListsOK
<1>. QED
  BY <1>1, <1>2, <1>4 DEF ListsOK

(* Lists whose links stay are the same.                                    *)
LEMMA SameLists ==
  ASSUME UNCHANGED links
  PROVE  /\ ListsOK => ListsOK'
         /\ \A head \in Heads : Listed(head)' = Listed(head) /\ Members(head)' = Members(head)
<1>1. \A head : Listed(head)' = Listed(head)
  BY DEF Listed, links
<1>2. \A head : Members(head)' = Members(head)
  BY <1>1 DEF Members
<1>. QED
  BY <1>1, <1>2 DEF ListsOK, links

\* What TailLock does to the links.
LinkLast(n, p) ==
  /\ lru_next' = [lru_next EXCEPT ![p] = n, ![n] = LRU_TAIL]
  /\ lru_prev' = [lru_prev EXCEPT ![n] = p, ![LRU_TAIL] = n]

(* To put a node behind the last of the LRU list.                          *)
LEMMA Appended ==
  ASSUME Types, ListsOK, NEW n \in Nodes, NEW p,
         n \notin Members(LRU_HEAD), n \notin Members(POOL_HEAD),
         p \in Members(LRU_HEAD) \cup {LRU_HEAD}, lru_next[p] = LRU_TAIL,
         LinkLast(n, p)
  PROVE  /\ ListsOK'
         /\ Listed(LRU_HEAD)' = Append(Listed(LRU_HEAD), n)
         /\ Members(LRU_HEAD)' = Members(LRU_HEAD) \cup {n}
         /\ Listed(POOL_HEAD)' = Listed(POOL_HEAD)
         /\ Members(POOL_HEAD)' = Members(POOL_HEAD)
<1>. DEFINE list == Listed(LRU_HEAD)
            pool == Listed(POOL_HEAD)
<1>1. LRU_HEAD \in Heads /\ POOL_HEAD \in Heads /\ Heads = {LRU_HEAD, POOL_HEAD}
      /\ TailOf(LRU_HEAD) = LRU_TAIL /\ TailOf(POOL_HEAD) = POOL_TAIL
  BY Pointers DEF Heads, TailOf
<1>2. /\ Distinct(list, Nodes) /\ IsWhole(LRU_HEAD, list, LRU_TAIL, lru_next, lru_prev)
      /\ Distinct(pool, Nodes) /\ IsWhole(POOL_HEAD, pool, POOL_TAIL, lru_next, lru_prev)
  BY <1>1 DEF ListsOK
<1>3. /\ Members(LRU_HEAD) \subseteq Nodes /\ Members(POOL_HEAD) \subseteq Nodes
      /\ Members(LRU_HEAD) \cap Members(POOL_HEAD) = {}
      /\ lru_prev[LRU_TAIL] = p
  BY <1>1, LinkFacts DEF ListsOK
<1>4. p \in Base /\ n \in Base /\ LRU_TAIL \in Base /\ p # n /\ Nodes \cup Heads \subseteq Base
  BY <1>1, <1>3, Pointers DEF Base
<1>5. /\ lru_next'[p] = n /\ lru_next'[n] = LRU_TAIL
      /\ \A x \in Base : x # p /\ x # n => lru_next'[x] = lru_next[x]
      /\ lru_prev'[n] = p /\ lru_prev'[LRU_TAIL] = n
      /\ \A x \in Base : x # n /\ x # LRU_TAIL => lru_prev'[x] = lru_prev[x]
  BY <1>4, Pointers DEF Types, LinkLast
<1>6. /\ Distinct(Append(list, n), Nodes)
      /\ Range(Append(list, n)) = Range(list) \cup {n}
      /\ IsWhole(LRU_HEAD, Append(list, n), LRU_TAIL, lru_next', lru_prev')
  <2>1. /\ lru_next'[lru_prev[LRU_TAIL]] = n /\ lru_next'[n] = LRU_TAIL
        /\ \A x \in Nodes \cup {LRU_HEAD} :
             x # lru_prev[LRU_TAIL] /\ x # n => lru_next'[x] = lru_next[x]
        /\ lru_prev'[n] = lru_prev[LRU_TAIL] /\ lru_prev'[LRU_TAIL] = n
        /\ \A x \in Nodes : x # n => lru_prev'[x] = lru_prev[x]
    BY <1>1, <1>3, <1>4, <1>5, Pointers
  <2>2. n \notin Range(list)
    BY DEF Members
  <2>. HIDE DEF list
  <2>. QED
    BY <1>2, <2>1, <2>2, Pointers, WholeAppend
<1>7. Listed(LRU_HEAD)' = Append(list, n)
  <2>1. IsWhole(LRU_HEAD, Append(list, n), TailOf(LRU_HEAD), lru_next', lru_prev')
    BY <1>1, <1>6
  <2>. HIDE DEF list
  <2>. QED
    BY <1>1, <1>6, <2>1, ListedIs DEF Listed
<1>8. IsWhole(POOL_HEAD, pool, POOL_TAIL, lru_next', lru_prev')
  <2>1. p \notin Members(POOL_HEAD) \cup {POOL_HEAD} /\ POOL_TAIL \in Base
    BY <1>3, Pointers DEF Base
  <2>2. /\ \A x \in Range(pool) \cup {POOL_HEAD} : lru_next'[x] = lru_next[x]
        /\ \A x \in Range(pool) \cup {POOL_TAIL} : lru_prev'[x] = lru_prev[x]
    BY <1>1, <1>3, <1>4, <1>5, <2>1, Pointers DEF Members
  <2>. HIDE DEF pool
  <2>. QED
    BY <1>2, <2>2, Pointers, WholeFrame
<1>9. Listed(POOL_HEAD)' = pool
  BY <1>1, <1>2, <1>8, ListedIs DEF Listed
<1>10. Members(LRU_HEAD)' = Members(LRU_HEAD) \cup {n} /\ Members(POOL_HEAD)' = Members(POOL_HEAD)
  BY <1>6, <1>7, <1>9 DEF Members
<1>11. ListsOK'
  <2>1. Members(LRU_HEAD)' \cap Members(POOL_HEAD)' = {}
    BY <1>3, <1>10
  <2>. QED
    BY <1>1, <1>2, <1>6, <1>7, <1>8, <1>9, <2>1 DEF ListsOK
<1>. QED
  BY <1>7, <1>9, <1>10, <1>11

(* What a step of a thread leaves to the others: their locals, the nodes   *)
(* that it has not locked, and locks that are not its own.                 *)
Touches(t) ==
  /\ \A u \in Threads \ {t} : /\ pc'[u] = pc[u] /\ op'[u] = op[u] /\ arg'[u] = arg[u]
                              /\ node'[u] = node[u] /\ prev'[u] = prev[u]
  /\ \A n \in Base : lock'[n] = lock[n] \/ {lock'[n], lock[n]} \subseteq {NULL, t}
  /\ \A n \in Base : lock[n] # t => lru_next'[n] = lru_next[n]
  /\ \A n \in Nodes : lock[n] # t => key'[n] = key[n] /\ lru_flag'[n] = lru_flag[n]

(* A step touches no more than that.                                       *)
LEMMA StepTouches ==
  ASSUME NEW t \in Threads, Types, LocalsOK(t), LocksOK(t), Step(t)
  PROVE  Touches(t)
<1>. USE DEF Touches, Types, LocalsOK, LocksOK, AtNode, InHand, AtPrev, Unnext, Base
<1>1. CASE LockFound(t)
  BY <1>1 DEF LockFound, Goto, Lock, items, links, table, call
<1>2. CASE FindFails(t)
  BY <1>2 DEF FindFails, Return, Goto, Unlock, items, links, table
<1>3. CASE FindDone(t)
  BY <1>3 DEF FindDone, Return, Goto, Unlock, items, links, table
<1>4. CASE RemoveTry(t)
  BY <1>4 DEF RemoveTry, Goto, Lock, items, links, table, call
<1>5. CASE RemoveTryFails(t)
  BY <1>5 DEF RemoveTryFails, Goto, items, links, table, call
<1>6. CASE GiveWay(t)
  BY <1>6 DEF GiveWay, Goto, Unlock, items, links, table, call
<1>7. CASE LockPrev(t)
  BY <1>7 DEF LockPrev, Goto, Lock, items, links, table, call
<1>8. CASE RelockBoth(t)
  BY <1>8 DEF RelockBoth, Goto, Lock, items, links, table, call
<1>9. CASE LeavePrev(t)
  BY <1>9 DEF LeavePrev, Goto, Unlock, items, links, table, call
<1>10. CASE Relock(t)
  BY <1>10 DEF Relock, Goto, Lock, items, links, table, call
<1>11. CASE RemoveNext(t)
  BY <1>11 DEF RemoveNext, Goto, LockAndUnlock, Bypass, items, table, call
<1>12. CASE RemoveUnnext(t)
  BY <1>12 DEF RemoveUnnext, Goto, TakenOut, Unlock, items, table, call
<1>13. CASE TailRead(t)
  BY <1>13 DEF TailRead, Goto, items, links, table, call
<1>14. CASE TailPrev(t)
  BY <1>14 DEF TailPrev, Goto, Lock, items, links, table, call
<1>15. CASE TailRetry(t)
  BY <1>15 DEF TailRetry, Goto, Unlock, items, links, table, call
<1>16. CASE TailLock(t)
  BY <1>16 DEF TailLock, Goto, Unlock, items, table, call
<1>17. CASE EvictNone(t)
  BY <1>17 DEF EvictNone, Goto, items, links, table, call
<1>18. CASE EvictHead(t)
  BY <1>18 DEF EvictHead, Goto, Lock, items, links, table, call
<1>19. CASE EvictNode(t)
  BY <1>19 DEF EvictNode, Goto, Lock, items, links, table, call
<1>20. CASE EvictNext(t)
  BY <1>20 DEF EvictNext, Goto, LockAndUnlock, Bypass, items, table, call
<1>21. CASE EvictFromPool(t)
  BY <1>21 DEF EvictFromPool, Goto, TakenOut, Unlock, Fill, table, call
<1>22. CASE EvictFromLru(t)
  BY <1>22 DEF EvictFromLru, Goto, TakenOut, Unlock, table, call
<1>23. CASE HtRemoveFirst(t)
  BY <1>23 DEF HtRemoveFirst, Goto, Fill, links, call
<1>24. CASE HtRemove(t)
  BY <1>24 DEF HtRemove, Goto, Lock, items, links, call
<1>25. CASE HtUnprev(t)
  BY <1>25 DEF HtUnprev, Goto, Unlock, Fill, links, call
<1>26. CASE htInsert(t)
  BY <1>26 DEF htInsert, Return, Goto, Unlock, items, links
<1>. QED
  BY <1>1, <1>2, <1>3, <1>4, <1>5, <1>6, <1>7, <1>8, <1>9, <1>10, <1>11, <1>12, <1>13,
     <1>14, <1>15, <1>16, <1>17, <1>18, <1>19, <1>20, <1>21, <1>22, <1>23, <1>24, <1>25,
     <1>26 DEF Step, Find, lruRemoveNode, lruInsertLast, Insert

(* So what is known of another thread stays.                               *)
LEMMA OthersKeep ==
  ASSUME NEW t \in Threads, NEW u \in Threads \ {t}, Types, ThreadOK(u), Touches(t),
         Members(POOL_HEAD)' \subseteq Members(POOL_HEAD)
  PROVE  ThreadOK(u)'
<1>1. /\ pc'[u] = pc[u] /\ op'[u] = op[u] /\ arg'[u] = arg[u]
      /\ node'[u] = node[u] /\ prev'[u] = prev[u]
  BY DEF Touches
<1>2. \A n \in Base : lock'[n] = u <=> lock[n] = u
  BY ThreadAssumption DEF Touches
<1>3. \A n \in Base : lock[n] = u => lru_next'[n] = lru_next[n]
  BY DEF Touches
<1>4. Nodes \cup {LRU_HEAD} \cup Heads \subseteq Base
  BY DEF Base, Heads
<1>5. CallOK(u)' /\ LocalsOK(u)'
  BY <1>1 DEF ThreadOK, CallOK, LocalsOK
<1>6. pc[u] \in Unnext => lru_next'[node[u]] = lru_next[node[u]]
  BY <1>3, <1>4 DEF ThreadOK, LocalsOK, LocksOK, Unnext, InHand
<1>7. LocksOK(u)'
  <2>1. \A n \in Base : lock'[n] = u => Mine(u, n)'
    BY <1>1, <1>2, <1>6 DEF ThreadOK, LocksOK, Mine
  <2>2. /\ pc[u] \in AtNode \cup InHand => node[u] \in Base
        /\ pc[u] \in AtPrev => prev[u] \in Base
    BY <1>4 DEF ThreadOK, LocalsOK, AtNode, InHand, AtPrev, Evicting
  <2>. QED
    BY <1>1, <1>2, <1>6, <2>1, <2>2 DEF ThreadOK, LocksOK
<1>8. NeighboursOK(u)'
  <2>1. pc[u] \in {"relock_both", "remove_next", "evict_node", "evict_next", "tail_lock"}
          => lru_next'[prev[u]] = lru_next[prev[u]]
    BY <1>3, <1>4 DEF ThreadOK, LocalsOK, LocksOK, AtPrev, Evicting
  <2>2. pc[u] \in Appending \cup {"remove_try", "remove_next", "remove_unnext", "ht_insert"}
          => node[u] \in Nodes /\ lock[node[u]] # t
    BY DEF ThreadOK, LocalsOK, LocksOK, AtNode, InHand, Appending
  <2>3. pc[u] \in Appending \cup {"remove_try", "remove_next", "remove_unnext", "ht_insert"}
          => lru_flag'[node[u]] = lru_flag[node[u]]
    BY <2>2 DEF Touches
  <2>. QED
    BY <1>1, <2>1, <2>3 DEF ThreadOK, NeighboursOK, Appending
<1>. QED
  BY <1>5, <1>7, <1>8 DEF ThreadOK

(* A thread that has locked a node that is not in its hands knows it to be *)
(* in a list.                                                              *)
LEMMA LockedIsListed ==
  ASSUME IInv, NEW t \in Threads, NEW n \in Nodes, lock[n] = t,
         n # node[t] \/ pc[t] \notin InHand
  PROVE  n \in Members(LRU_HEAD) \cup Members(POOL_HEAD)
<1>1. ASSUME NEW u \in Threads, pc[u] \in InHand, node[u] = n
      PROVE  FALSE
  <2>1. lock[node[u]] = u
    BY <1>1 DEF IInv, ThreadOK, LocksOK
  <2>. QED
    BY <1>1, <2>1
<1>. QED
  BY <1>1 DEF IInv, EachNodeOnce

(* A key's bucket exists.                                                  *)
LEMMA BucketInRange ==
  ASSUME NEW k \in Keys
  PROVE  whichBucket(k) \in Buckets
<1>1. Hash[k] \in Nat
  BY KeyAssumption
<1>2. Capacity \in Nat \ {0} /\ HashtableLoadFactor \in Nat \ {0}
  BY SizeAssumption, FS_CardinalityType, FS_EmptySet DEF Capacity
<1>3. BucketCount \in Nat \ {0}
  <2>. DEFINE c == Capacity
              f == HashtableLoadFactor
  <2>1. c \in Nat \ {0} /\ f \in Nat \ {0}
    BY <1>2
  <2>. HIDE DEF c, f
  <2>2. (c + f - 1) \div f \in Nat /\ (c + f - 1) \div f # 0
    BY <2>1
  <2>. QED
    BY <2>2 DEF BucketCount, c, f
<1>. QED
  BY <1>1, <1>3 DEF whichBucket, Buckets

(* Who has a node in hand, has it for itself, and it is in no list.        *)
LEMMA InHandIsOwn ==
  ASSUME IInv, NEW t \in Threads, pc[t] \in InHand
  PROVE  /\ node[t] \in Nodes
         /\ node[t] \notin Members(LRU_HEAD) /\ node[t] \notin Members(POOL_HEAD)
         /\ \A u \in Threads : pc[u] \in InHand /\ node[u] = node[t] => u = t
<1>1. node[t] \in Nodes
  BY DEF IInv, ThreadOK, LocalsOK, InHand
<1>2. \A u \in Threads : pc[u] \in InHand => lock[node[u]] = u
  BY DEF IInv, ThreadOK, LocksOK
<1>. QED
  BY <1>1, <1>2 DEF IInv, EachNodeOnce

(* The place of a node that is to be taken out of its chain.               *)
LEMMA EvictedKey ==
  ASSUME IInv, NEW t \in Threads, pc[t] \in {"ht_remove", "ht_unprev"} \cup Appending \cup {"ht_insert"},
         pc[t] = "ht_insert" => node[t] \notin Members(POOL_HEAD)
  PROVE  BucketOf(t) \in Buckets
<1>1. /\ node[t] \in Nodes /\ node[t] \notin Members(POOL_HEAD)
      /\ \A u \in Threads : FromPool(u) /\ node[u] = node[t] => u = t
  <2>1. \A u \in Threads : pc[u] \in InHand \cup AtNode => lock[node[u]] = u /\ node[u] \in Nodes
    BY DEF IInv, ThreadOK, LocksOK, LocalsOK, AtNode, InHand
  <2>2. pc[t] \in InHand \cup AtNode
    BY DEF AtNode, InHand, Appending
  <2>3. \A u \in Threads : FromPool(u) => pc[u] \in InHand
    BY DEF FromPool, InHand
  <2>4. pc[t] # "ht_insert" => pc[t] \in InHand
    BY DEF InHand, Appending
  <2>. QED
    BY <2>1, <2>2, <2>3, <2>4, InHandIsOwn
<1>2. ~FromPool(t)
  BY DEF FromPool, Appending
<1>3. key[node[t]] \in Keys
  BY <1>1, <1>2 DEF IInv, ChainsOK
<1>. QED
  BY <1>3, BucketInRange DEF BucketOf

(* And a step leads its own thread where it should be.                     *)
LEMMA StepKeepsThread ==
  ASSUME IInv, NEW t \in Threads, Step(t),
         Members(POOL_HEAD)' \subseteq Members(POOL_HEAD)
  PROVE  ThreadOK(t)'
<1>a. Types /\ CallOK(t) /\ LocalsOK(t) /\ LocksOK(t) /\ NeighboursOK(t)
  BY DEF IInv, ThreadOK
<1>. SUFFICES CallOK(t)' /\ LocalsOK(t)' /\ LocksOK(t)' /\ NeighboursOK(t)'
  BY DEF ThreadOK
<1>b. NULL \notin Threads /\ NULL \notin Base
  BY ThreadAssumption, Pointers
<1>c. /\ LRU_HEAD \notin Nodes /\ POOL_HEAD \notin Nodes /\ LRU_HEAD # POOL_HEAD
      /\ LRU_HEAD # LRU_TAIL /\ LRU_TAIL \notin Nodes /\ POOL_TAIL \notin Nodes
  BY Pointers
<1>d. \A head \in Heads :
        /\ Members(head) \subseteq Nodes
        /\ \A n \in Members(head) \cup {head} :
              lru_next[n] \in Members(head) \cup {TailOf(head)}
        /\ \A n \in Members(head) \cup {TailOf(head)} :
              lru_prev[n] \in Members(head) \cup {head} /\ lru_next[lru_prev[n]] = n
        /\ \A n \in Members(head) : lru_next[n] # n /\ lru_prev[n] # n
        /\ Members(head) \cap Members(OtherHead(head)) = {}
  BY LinkFacts DEF IInv
<1>e. /\ LRU_HEAD \in Heads /\ OtherHead(LRU_HEAD) = POOL_HEAD /\ TailOf(LRU_HEAD) = LRU_TAIL
      /\ \A head \in Heads : TailOf(head) \in Base
  BY Pointers DEF Heads, OtherHead, TailOf, Base
<1>f. pc[t] \in AtNode =>
        /\ node[t] \in Members(LRU_HEAD) \cup Members(POOL_HEAD)
        /\ lru_flag[node[t]] => node[t] \in Members(LRU_HEAD)
        /\ lru_next[node[t]] \in Base
  <2>1. pc[t] \in AtNode => lock[node[t]] = t /\ pc[t] \notin InHand /\ node[t] \in Nodes
    BY <1>a DEF LocksOK, LocalsOK, AtNode, InHand
  <2>2. pc[t] \in AtNode => node[t] \in Members(LRU_HEAD) \cup Members(POOL_HEAD)
    BY <2>1, LockedIsListed
  <2>3. lru_flag[node[t]] => node[t] \notin Members(POOL_HEAD)
    BY DEF IInv, FlagsOK
  <2>. QED
    BY <1>d, <1>e, <2>2, <2>3 DEF Heads, Base
<1>g. pc[t] = "remove_try" =>
        /\ lru_prev[node[t]] \in Nodes \cup {LRU_HEAD} /\ lru_prev[node[t]] # node[t]
        /\ lru_next[lru_prev[node[t]]] = node[t]
        /\ lru_prev[node[t]] \notin Members(POOL_HEAD)
  <2>1. pc[t] = "remove_try" => node[t] \in Members(LRU_HEAD)
    BY <1>a, <1>f DEF NeighboursOK, AtNode
  <2>2. LRU_HEAD \notin Members(POOL_HEAD)
    BY <1>c, <1>d DEF Heads
  <2>. QED
    BY <1>d, <1>e, <2>1, <2>2
<1>. USE DEF Types, CallOK, LocalsOK, LocksOK, NeighboursOK, Mine, AtNode, InHand, AtPrev,
             Unnext, Removing, Appending, Evicting, Base, Heads
<1>1. CASE LockFound(t)
  BY <1>a, <1>b, <1>c, <1>1 DEF LockFound, Goto, Lock, items, links, table, call,
     dataIsValidForKey
<1>2. CASE FindFails(t)
  BY <1>a, <1>b, <1>c, <1>2 DEF FindFails, Return, Goto, Unlock, items, links, table
<1>3. CASE FindDone(t)
  BY <1>a, <1>b, <1>c, <1>3 DEF FindDone, Return, Goto, Unlock, items, links, table
<1>4. CASE RemoveTry(t)
  BY <1>a, <1>b, <1>c, <1>g, <1>4 DEF RemoveTry, Goto, Lock, items, links, table, call
<1>5. CASE RemoveTryFails(t)
  BY <1>a, <1>b, <1>c, <1>g, <1>5 DEF RemoveTryFails, Goto, items, links, table, call
<1>6. CASE GiveWay(t)
  BY <1>a, <1>b, <1>c, <1>6 DEF GiveWay, Goto, Unlock, items, links, table, call
<1>7. CASE LockPrev(t)
  BY <1>a, <1>b, <1>c, <1>7 DEF LockPrev, Goto, Lock, items, links, table, call
<1>8. CASE RelockBoth(t)
  BY <1>a, <1>b, <1>c, <1>8 DEF RelockBoth, Goto, Lock, items, links, table, call
<1>9. CASE LeavePrev(t)
  BY <1>a, <1>b, <1>c, <1>9 DEF LeavePrev, Goto, Unlock, items, links, table, call
<1>10. CASE Relock(t)
  BY <1>a, <1>b, <1>c, <1>10 DEF Relock, Goto, Lock, items, links, table, call
<1>11. CASE RemoveNext(t)
  BY <1>a, <1>b, <1>c, <1>f, <1>11 DEF RemoveNext, Goto, LockAndUnlock, Bypass, items,
     table, call
<1>12. CASE RemoveUnnext(t)
  BY <1>a, <1>b, <1>c, <1>12 DEF RemoveUnnext, Goto, TakenOut, Unlock, items, table, call
<1>13. CASE TailRead(t)
  <2>1. lru_prev[LRU_TAIL] \in Nodes \cup {LRU_HEAD} /\ lru_prev[LRU_TAIL] \notin Members(POOL_HEAD)
    BY <1>c, <1>d, <1>e
  <2>. QED
    BY <1>a, <1>b, <1>c, <1>13, <2>1 DEF TailRead, Goto, items, links, table, call
<1>14. CASE TailPrev(t)
  BY <1>a, <1>b, <1>c, <1>14 DEF TailPrev, Goto, Lock, items, links, table, call
<1>15. CASE TailRetry(t)
  BY <1>a, <1>b, <1>c, <1>15 DEF TailRetry, Goto, Unlock, items, links, table, call
<1>16. CASE TailLock(t)
  BY <1>a, <1>b, <1>c, <1>16 DEF TailLock, Goto, Unlock, items, table, call, Calls
<1>17. CASE EvictNone(t)
  BY <1>a, <1>b, <1>c, <1>17 DEF EvictNone, Goto, items, links, table, call, OtherHead
<1>18. CASE EvictHead(t)
  <2>1. lru_next[prev[t]] \in Nodes
    BY <1>a, <1>d, <1>18 DEF EvictHead, Goto
  <2>. QED
    BY <1>a, <1>b, <1>c, <1>18, <2>1 DEF EvictHead, Goto, Lock, items, links, table, call
<1>19. CASE EvictNode(t)
  BY <1>a, <1>b, <1>c, <1>19 DEF EvictNode, Goto, Lock, items, links, table, call
<1>20. CASE EvictNext(t)
  BY <1>a, <1>b, <1>c, <1>f, <1>20 DEF EvictNext, Goto, LockAndUnlock, Bypass, items,
     table, call
<1>21. CASE EvictFromPool(t)
  BY <1>a, <1>b, <1>c, <1>21 DEF EvictFromPool, Goto, TakenOut, Unlock, Fill, table, call
<1>22. CASE EvictFromLru(t)
  BY <1>a, <1>b, <1>c, <1>22 DEF EvictFromLru, Goto, TakenOut, Unlock, table, call
<1>23. CASE HtRemoveFirst(t)
  BY <1>a, <1>b, <1>c, <1>23 DEF HtRemoveFirst, Goto, Fill, links, call
<1>24. CASE HtRemove(t)
  <2>1. BucketOf(t) \in Buckets
    BY <1>24, EvictedKey DEF HtRemove, Goto
  <2>2. PICK i \in 2 .. Len(chain[BucketOf(t)]) :
          /\ chain[BucketOf(t)][i] = node[t]
          /\ Lock(t, chain[BucketOf(t)][i - 1])
          /\ prev' = [prev EXCEPT ![t] = chain[BucketOf(t)][i - 1]]
    BY <1>24 DEF HtRemove
  <2>3. chain[BucketOf(t)] \in Seq(Nodes) /\ IsInjective(chain[BucketOf(t)])
    BY <1>a, <2>1 DEF IInv, ChainsOK
  <2>4. chain[BucketOf(t)][i - 1] \in Nodes /\ chain[BucketOf(t)][i - 1] # node[t]
    BY <2>2, <2>3 DEF IsInjective
  <2>5. /\ Goto(t, "ht_remove", "ht_unprev")
        /\ UNCHANGED <<items, links, call, node>>
    BY <1>24 DEF HtRemove
  <2>. HIDE DEF BucketOf
  <2>. QED
    BY <1>a, <1>b, <1>c, <2>2, <2>4, <2>5 DEF Goto, Lock, items, links, call
<1>25. CASE HtUnprev(t)
  BY <1>a, <1>b, <1>c, <1>25 DEF HtUnprev, Goto, Unlock, Fill, links, call
<1>26. CASE htInsert(t)
  BY <1>a, <1>b, <1>c, <1>26 DEF htInsert, Return, Goto, Unlock, items, links
<1>. QED
  BY <1>1, <1>2, <1>3, <1>4, <1>5, <1>6, <1>7, <1>8, <1>9, <1>10, <1>11, <1>12, <1>13,
     <1>14, <1>15, <1>16, <1>17, <1>18, <1>19, <1>20, <1>21, <1>22, <1>23, <1>24, <1>25,
     <1>26 DEF Step, Find, lruRemoveNode, lruInsertLast, Insert

(* A step keeps the types.                                                 *)
LEMMA StepKeepsTypes ==
  ASSUME IInv, NEW t \in Threads, Step(t)
  PROVE  Types'
<1>a. Types /\ CallOK(t) /\ LocalsOK(t) /\ LocksOK(t)
  BY DEF IInv, ThreadOK
<1>b. Nodes \cup Heads \cup {LRU_TAIL, POOL_TAIL} = Base
  BY DEF Base
<1>. USE DEF Types, CallOK, LocalsOK, PCs, AtNode, InHand, AtPrev, Removing, Appending, Evicting,
             Heads, Calls
<1>1. CASE LockFound(t)
  BY <1>a, <1>b, <1>1 DEF LockFound, Goto, Lock, items, links, table, call
<1>2. CASE FindFails(t)
  BY <1>a, <1>b, <1>2 DEF FindFails, Return, Goto, Unlock, items, links, table
<1>3. CASE FindDone(t)
  BY <1>a, <1>b, <1>3 DEF FindDone, Return, Goto, Unlock, items, links, table
<1>4. CASE RemoveTry(t)
  BY <1>a, <1>b, <1>4 DEF RemoveTry, Goto, Lock, items, links, table, call
<1>5. CASE RemoveTryFails(t)
  BY <1>a, <1>b, <1>5 DEF RemoveTryFails, Goto, items, links, table, call
<1>6. CASE GiveWay(t)
  BY <1>a, <1>b, <1>6 DEF GiveWay, Goto, Unlock, items, links, table, call
<1>7. CASE LockPrev(t)
  BY <1>a, <1>b, <1>7 DEF LockPrev, Goto, Lock, items, links, table, call
<1>8. CASE RelockBoth(t)
  BY <1>a, <1>b, <1>8 DEF RelockBoth, Goto, Lock, items, links, table, call
<1>9. CASE LeavePrev(t)
  BY <1>a, <1>b, <1>9 DEF LeavePrev, Goto, Unlock, items, links, table, call
<1>10. CASE Relock(t)
  BY <1>a, <1>b, <1>10 DEF Relock, Goto, Lock, items, links, table, call
<1>11. CASE RemoveNext(t)
  BY <1>a, <1>b, <1>11 DEF RemoveNext, Goto, LockAndUnlock, Bypass, items, table, call
<1>12. CASE RemoveUnnext(t)
  BY <1>a, <1>b, <1>12 DEF RemoveUnnext, Goto, TakenOut, Unlock, items, table, call
<1>13. CASE TailRead(t)
  BY <1>a, <1>b, <1>13 DEF TailRead, Goto, items, links, table, call
<1>14. CASE TailPrev(t)
  BY <1>a, <1>b, <1>14 DEF TailPrev, Goto, Lock, items, links, table, call
<1>15. CASE TailRetry(t)
  BY <1>a, <1>b, <1>15 DEF TailRetry, Goto, Unlock, items, links, table, call
<1>16. CASE TailLock(t)
  BY <1>a, <1>b, <1>16 DEF TailLock, Goto, Unlock, items, table, call
<1>17. CASE EvictNone(t)
  BY <1>a, <1>b, <1>17 DEF EvictNone, Goto, items, links, table, call, OtherHead
<1>18. CASE EvictHead(t)
  <2>1. lru_next[prev[t]] \in Nodes
    <3>1. prev[t] \in Heads /\ lru_next[prev[t]] # TailOf(prev[t])
      BY <1>a, <1>18 DEF EvictHead, Goto
    <3>. HIDE DEF Heads
    <3>. QED
      BY <3>1, LinkFacts DEF IInv
  <2>. QED
    BY <1>a, <1>b, <1>18, <2>1 DEF EvictHead, Goto, Lock, items, links, table, call
<1>19. CASE EvictNode(t)
  BY <1>a, <1>b, <1>19 DEF EvictNode, Goto, Lock, items, links, table, call
<1>20. CASE EvictNext(t)
  BY <1>a, <1>b, <1>20 DEF EvictNext, Goto, LockAndUnlock, Bypass, items, table, call
<1>21. CASE EvictFromPool(t)
  BY <1>a, <1>b, <1>21 DEF EvictFromPool, Goto, TakenOut, Unlock, Fill, table, call
<1>22. CASE EvictFromLru(t)
  BY <1>a, <1>b, <1>22 DEF EvictFromLru, Goto, TakenOut, Unlock, table, call
<1>23. CASE HtRemoveFirst(t)
  <2>1. BucketOf(t) \in Buckets
    BY <1>23, EvictedKey DEF HtRemoveFirst, Goto
  <2>2. Tail(chain[BucketOf(t)]) \in Seq(Nodes)
    BY <1>a, <1>23, <2>1, HeadTailProperties DEF HtRemoveFirst
  <2>. HIDE DEF BucketOf
  <2>. QED
    BY <1>a, <1>b, <1>23, <2>2 DEF HtRemoveFirst, Goto, Fill, links, call
<1>24. CASE HtRemove(t)
  <2>1. BucketOf(t) \in Buckets
    BY <1>24, EvictedKey DEF HtRemove, Goto
  <2>2. PICK i \in 2 .. Len(chain[BucketOf(t)]) :
          /\ Lock(t, chain[BucketOf(t)][i - 1])
          /\ prev' = [prev EXCEPT ![t] = chain[BucketOf(t)][i - 1]]
          /\ chain' = [chain EXCEPT ![BucketOf(t)] = RemoveAt(@, i)]
    BY <1>24 DEF HtRemove
  <2>3. chain[BucketOf(t)] \in Seq(Nodes)
    BY <1>a, <2>1
  <2>4. chain[BucketOf(t)][i - 1] \in Nodes /\ i \in 1 .. Len(chain[BucketOf(t)])
    BY <2>3
  <2>5. RemoveAt(chain[BucketOf(t)], i) \in Seq(Nodes)
    BY <2>3, <2>4, RemoveAtIs
  <2>6. /\ Goto(t, "ht_remove", "ht_unprev")
        /\ bucket_lock' = [bucket_lock EXCEPT ![BucketOf(t)] = t]
        /\ UNCHANGED <<items, links, call, node>>
    BY <1>24 DEF HtRemove
  <2>. HIDE DEF BucketOf
  <2>. QED
    BY <1>a, <1>b, <2>2, <2>4, <2>5, <2>6 DEF Goto, Lock, items, links, call
<1>25. CASE HtUnprev(t)
  BY <1>a, <1>b, <1>25 DEF HtUnprev, Goto, Unlock, Fill, links, call
<1>26. CASE htInsert(t)
  <2>1. \A s \in Seq(Nodes) : <<node[t]>> \o s \in Seq(Nodes)
    BY <1>a, <1>26, ConcatProperties DEF htInsert, Return, Goto
  <2>. HIDE DEF BucketOf
  <2>. QED
    BY <1>a, <1>b, <1>26, <2>1 DEF htInsert, Return, Goto, Unlock, items, links
<1>. QED
  BY <1>1, <1>2, <1>3, <1>4, <1>5, <1>6, <1>7, <1>8, <1>9, <1>10, <1>11, <1>12, <1>13,
     <1>14, <1>15, <1>16, <1>17, <1>18, <1>19, <1>20, <1>21, <1>22, <1>23, <1>24, <1>25,
     <1>26 DEF Step, Find, lruRemoveNode, lruInsertLast, Insert

-----------------------------------------------------------------------------
(* What a step does to the lists: nothing, ...                             *)
KeepsLists(t) ==
  /\ \A head \in Heads : Listed(head)' = Listed(head) /\ Members(head)' = Members(head)
  /\ pc'[t] \in InHand <=> pc[t] \in InHand
  /\ pc[t] \in InHand => node'[t] = node[t]

\* ... or it takes the thread's node out of one, ...
TakesOut(t) ==
  \E head \in Heads :
    /\ node[t] \in Members(head) /\ Members(head)' = Members(head) \ {node[t]}
    /\ Listed(OtherHead(head))' = Listed(OtherHead(head))
    /\ \E i \in DOMAIN Listed(head) :
         /\ Listed(head)[i] = node[t] /\ Listed(head)' = RemoveAt(Listed(head), i)
         /\ op[t] = "insert" => i = 1
    /\ pc[t] \notin InHand /\ pc'[t] \in InHand /\ node'[t] = node[t]

\* ... or puts it behind the last of the LRU list.
PutsBack(t) ==
  /\ Listed(LRU_HEAD)' = Append(Listed(LRU_HEAD), node[t])
  /\ Members(LRU_HEAD)' = Members(LRU_HEAD) \cup {node[t]}
  /\ Listed(POOL_HEAD)' = Listed(POOL_HEAD)
  /\ Members(POOL_HEAD)' = Members(POOL_HEAD)
  /\ pc[t] \in InHand /\ pc'[t] \notin InHand

(* The neighbours of a node that has been locked for to be taken out.      *)
LEMMA LockedNeighbours ==
  ASSUME IInv, NEW t \in Threads
  PROVE  /\ pc[t] \in {"relock_both", "remove_next", "tail_lock"} =>
              prev[t] \in Members(LRU_HEAD) \cup {LRU_HEAD}
         /\ pc[t] \in {"relock_both", "remove_next"} =>
              node[t] \in Members(LRU_HEAD) /\ lru_prev[node[t]] = prev[t]
         /\ pc[t] \in {"evict_node", "evict_next"} =>
              node[t] \in Members(prev[t]) /\ lru_prev[node[t]] = prev[t]
<1>1. LocalsOK(t) /\ LocksOK(t) /\ NeighboursOK(t)
  BY DEF IInv, ThreadOK
<1>2. ASSUME pc[t] \in {"relock_both", "remove_next", "tail_lock"}
      PROVE  prev[t] \in Members(LRU_HEAD) \cup {LRU_HEAD}
  <2>1. /\ prev[t] \in Nodes \cup {LRU_HEAD} /\ prev[t] # node[t]
        /\ lock[prev[t]] = t /\ prev[t] \notin Members(POOL_HEAD)
    BY <1>1, <1>2 DEF LocalsOK, LocksOK, NeighboursOK, AtPrev
  <2>. QED
    BY <2>1, LockedIsListed
<1>3. ASSUME NEW head \in Heads, NEW p \in Members(head) \cup {head}, lru_next[p] \in Nodes
      PROVE  lru_next[p] \in Members(head) /\ lru_prev[lru_next[p]] = p
  <2>1. lru_next[p] \in Members(head) \cup {TailOf(head)} /\ lru_prev[lru_next[p]] = p
    BY LinkFacts DEF IInv
  <2>. QED
    BY <1>3, <2>1, HeadsAndTails
<1>4. ASSUME pc[t] \in {"relock_both", "remove_next"}
      PROVE  node[t] \in Members(LRU_HEAD) /\ lru_prev[node[t]] = prev[t]
  <2>1. lru_next[prev[t]] = node[t] /\ node[t] \in Nodes /\ LRU_HEAD \in Heads
    BY <1>1, <1>4 DEF LocalsOK, NeighboursOK, Heads
  <2>. QED
    BY <1>2, <1>3, <1>4, <2>1
<1>5. ASSUME pc[t] \in {"evict_node", "evict_next"}
      PROVE  node[t] \in Members(prev[t]) /\ lru_prev[node[t]] = prev[t]
  <2>1. lru_next[prev[t]] = node[t] /\ node[t] \in Nodes /\ prev[t] \in Heads
    BY <1>1, <1>5 DEF LocalsOK, NeighboursOK, Evicting
  <2>. QED
    BY <1>3, <2>1
<1>. QED
  BY <1>2, <1>4, <1>5

(* The first of a list is what its head leads to.                          *)
LEMMA FirstListed ==
  ASSUME ListsOK, NEW head \in Heads, NEW i \in DOMAIN Listed(head),
         Listed(head)[i] = lru_next[head]
  PROVE  i = 1
<1>1. /\ Distinct(Listed(head), Nodes)
      /\ IsWhole(head, Listed(head), TailOf(head), lru_next, lru_prev)
  BY DEF ListsOK
<1>2. Leads(Listed(head), lru_next[head], lru_next, TailOf(head))
  BY <1>1, WholeLeads
<1>3. Listed(head) \in Seq(Nodes) /\ i \in 1 .. Len(Listed(head))
  BY <1>1 DEF Distinct
<1>4. Listed(head) # <<>> /\ 1 \in DOMAIN Listed(head)
  BY <1>3
<1>5. Listed(head)[1] = Listed(head)[i]
  BY <1>2, <1>4 DEF Leads
<1>. QED
  BY <1>1, <1>4, <1>5 DEF Distinct, IsInjective

(* A step does one of these, and only the three that lock both neighbours, *)
(* or the tail, do more than the first.                                    *)
LEMMA StepLists ==
  ASSUME IInv, NEW t \in Threads, Step(t)
  PROVE  /\ ListsOK'
         /\ \/ KeepsLists(t)
            \/ (RemoveNext(t) \/ EvictNext(t)) /\ TakesOut(t)
            \/ TailLock(t) /\ PutsBack(t)
<1>a. Types /\ ListsOK /\ LocalsOK(t) /\ LocksOK(t) /\ NeighboursOK(t) /\ CallOK(t)
  BY DEF IInv, ThreadOK
<1>b. ASSUME UNCHANGED links, pc'[t] \in InHand <=> pc[t] \in InHand,
             pc[t] \in InHand => node'[t] = node[t]
      PROVE  ListsOK' /\ KeepsLists(t)
  BY <1>a, <1>b, SameLists DEF KeepsLists
<1>c. ASSUME pc[t] \in InHand, pc'[t] \in InHand, node' = node, TakenOut(node[t])
      PROVE  ListsOK' /\ KeepsLists(t)
  <2>1. /\ node[t] \in Nodes
        /\ node[t] \notin Members(LRU_HEAD) /\ node[t] \notin Members(POOL_HEAD)
    BY <1>c, InHandIsOwn
  <2>2. \A x \in Base : x # node[t] => lru_next'[x] = lru_next[x] /\ lru_prev'[x] = lru_prev[x]
    BY <1>a, <1>c DEF TakenOut, Types
  <2>. QED
    BY <1>a, <1>c, <2>1, <2>2, Forgotten DEF KeepsLists
<1>1. CASE LockFound(t)
  BY <1>a, <1>b, <1>1 DEF LockFound, Goto, links, call, InHand, Types
<1>2. CASE FindFails(t)
  BY <1>a, <1>b, <1>2 DEF FindFails, Return, Goto, links, InHand, Types
<1>3. CASE FindDone(t)
  BY <1>a, <1>b, <1>3 DEF FindDone, Return, Goto, links, InHand, Types
<1>4. CASE RemoveTry(t)
  BY <1>a, <1>b, <1>4 DEF RemoveTry, Goto, links, call, InHand, Types
<1>5. CASE RemoveTryFails(t)
  BY <1>a, <1>b, <1>5 DEF RemoveTryFails, Goto, links, call, InHand, Types
<1>6. CASE GiveWay(t)
  BY <1>a, <1>b, <1>6 DEF GiveWay, Goto, links, call, InHand, Types
<1>7. CASE LockPrev(t)
  BY <1>a, <1>b, <1>7 DEF LockPrev, Goto, links, call, InHand, Types
<1>8. CASE RelockBoth(t)
  BY <1>a, <1>b, <1>8 DEF RelockBoth, Goto, links, call, InHand, Types
<1>9. CASE LeavePrev(t)
  BY <1>a, <1>b, <1>9 DEF LeavePrev, Goto, links, call, InHand, Types
<1>10. CASE Relock(t)
  BY <1>a, <1>b, <1>10 DEF Relock, Goto, links, call, InHand, Types
<1>11. CASE RemoveNext(t)
  <2>1. /\ node[t] \in Members(LRU_HEAD) /\ lru_prev[node[t]] = prev[t]
        /\ Bypass(node[t], lru_prev[node[t]]) /\ LRU_HEAD \in Heads
    BY <1>11, LockedNeighbours DEF RemoveNext, Goto, Heads
  <2>2. pc[t] \notin InHand /\ pc'[t] \in InHand /\ node' = node /\ op[t] # "insert"
    BY <1>a, <1>11 DEF RemoveNext, Goto, InHand, Types, CallOK, Removing
  <2>3. /\ ListsOK'
        /\ Members(LRU_HEAD)' = Members(LRU_HEAD) \ {node[t]}
        /\ Listed(OtherHead(LRU_HEAD))' = Listed(OtherHead(LRU_HEAD))
        /\ \E i \in DOMAIN Listed(LRU_HEAD) :
             /\ Listed(LRU_HEAD)[i] = node[t]
             /\ Listed(LRU_HEAD)' = RemoveAt(Listed(LRU_HEAD), i)
    BY <1>a, <2>1, Bypassed
  <2>. QED
    BY <1>11, <2>1, <2>2, <2>3 DEF TakesOut
<1>12. CASE RemoveUnnext(t)
  BY <1>a, <1>c, <1>12 DEF RemoveUnnext, Goto, InHand, Types, call
<1>13. CASE TailRead(t)
  BY <1>a, <1>b, <1>13 DEF TailRead, Goto, links, call, InHand, Types
<1>14. CASE TailPrev(t)
  BY <1>a, <1>b, <1>14 DEF TailPrev, Goto, links, call, InHand, Types
<1>15. CASE TailRetry(t)
  BY <1>a, <1>b, <1>15 DEF TailRetry, Goto, links, call, InHand, Types
<1>16. CASE TailLock(t)
  <2>1. /\ node[t] \in Nodes
        /\ node[t] \notin Members(LRU_HEAD) /\ node[t] \notin Members(POOL_HEAD)
        /\ pc[t] \in InHand /\ pc'[t] \notin InHand
    BY <1>a, <1>16, InHandIsOwn DEF TailLock, Goto, InHand, Types
  <2>2. /\ prev[t] \in Members(LRU_HEAD) \cup {LRU_HEAD} /\ lru_next[prev[t]] = LRU_TAIL
        /\ LinkLast(node[t], prev[t])
    BY <1>a, <1>16, LockedNeighbours DEF TailLock, Goto, NeighboursOK, LinkLast
  <2>3. /\ ListsOK'
        /\ Listed(LRU_HEAD)' = Append(Listed(LRU_HEAD), node[t])
        /\ Members(LRU_HEAD)' = Members(LRU_HEAD) \cup {node[t]}
        /\ Listed(POOL_HEAD)' = Listed(POOL_HEAD)
        /\ Members(POOL_HEAD)' = Members(POOL_HEAD)
    BY <1>a, <2>1, <2>2, Appended
  <2>. QED
    BY <1>16, <2>1, <2>3 DEF PutsBack
<1>17. CASE EvictNone(t)
  BY <1>a, <1>b, <1>17 DEF EvictNone, Goto, links, call, InHand, Types
<1>18. CASE EvictHead(t)
  BY <1>a, <1>b, <1>18 DEF EvictHead, Goto, links, call, InHand, Types
<1>19. CASE EvictNode(t)
  BY <1>a, <1>b, <1>19 DEF EvictNode, Goto, links, call, InHand, Types
<1>20. CASE EvictNext(t)
  <2>1. PICK head \in Heads : head = prev[t]
    BY <1>a, <1>20 DEF EvictNext, Goto, LocalsOK, Evicting
  <2>2. /\ node[t] \in Members(head) /\ Bypass(node[t], lru_prev[node[t]])
        /\ lru_next[head] = node[t]
    BY <1>a, <1>20, <2>1, LockedNeighbours DEF EvictNext, Goto, NeighboursOK
  <2>3. pc[t] \notin InHand /\ pc'[t] \in InHand /\ node' = node
    BY <1>a, <1>20 DEF EvictNext, Goto, InHand, Types
  <2>4. /\ ListsOK'
        /\ Members(head)' = Members(head) \ {node[t]}
        /\ Listed(OtherHead(head))' = Listed(OtherHead(head))
        /\ \E i \in DOMAIN Listed(head) :
             /\ Listed(head)[i] = node[t]
             /\ Listed(head)' = RemoveAt(Listed(head), i)
    BY <1>a, <2>2, Bypassed
  <2>5. \A i \in DOMAIN Listed(head) : Listed(head)[i] = node[t] => i = 1
    BY <1>a, <2>2, FirstListed
  <2>. QED
    BY <1>20, <2>2, <2>3, <2>4, <2>5 DEF TakesOut
<1>21. CASE EvictFromPool(t)
  BY <1>a, <1>c, <1>21 DEF EvictFromPool, Goto, InHand, Types, call
<1>22. CASE EvictFromLru(t)
  BY <1>a, <1>c, <1>22 DEF EvictFromLru, Goto, InHand, Types, call
<1>23. CASE HtRemoveFirst(t)
  BY <1>a, <1>b, <1>23 DEF HtRemoveFirst, Goto, links, call, InHand, Types
<1>24. CASE HtRemove(t)
  BY <1>a, <1>b, <1>24 DEF HtRemove, Goto, links, call, InHand, Types
<1>25. CASE HtUnprev(t)
  BY <1>a, <1>b, <1>25 DEF HtUnprev, Goto, links, call, InHand, Types
<1>26. CASE htInsert(t)
  BY <1>a, <1>b, <1>26 DEF htInsert, Return, Goto, links, InHand, Types
<1>. QED
  BY <1>1, <1>2, <1>3, <1>4, <1>5, <1>6, <1>7, <1>8, <1>9, <1>10, <1>11, <1>12, <1>13,
     <1>14, <1>15, <1>16, <1>17, <1>18, <1>19, <1>20, <1>21, <1>22, <1>23, <1>24, <1>25,
     <1>26 DEF Step, Find, lruRemoveNode, lruInsertLast, Insert

(* The pool only loses nodes.                                              *)
LEMMA PoolShrinks ==
  ASSUME IInv, NEW t \in Threads, KeepsLists(t) \/ TakesOut(t) \/ PutsBack(t)
  PROVE  Members(POOL_HEAD)' \subseteq Members(POOL_HEAD)
<1>1. CASE KeepsLists(t)
  BY <1>1 DEF KeepsLists, Heads
<1>2. CASE TakesOut(t)
  BY <1>2 DEF TakesOut, Heads, OtherHead, Members
<1>3. CASE PutsBack(t)
  BY <1>3 DEF PutsBack
<1>. QED
  BY <1>1, <1>2, <1>3

(* No node is lost by a step, or listed twice.                             *)
LEMMA StepKeepsEachNodeOnce ==
  ASSUME IInv, NEW t \in Threads, Touches(t), KeepsLists(t) \/ TakesOut(t) \/ PutsBack(t)
  PROVE  EachNodeOnce'
<1>1. \A n \in Nodes :
        (n \in Members(LRU_HEAD) \cup Members(POOL_HEAD))
          <=> \A u \in Threads : pc[u] \in InHand => node[u] # n
  BY DEF IInv, EachNodeOnce
<1>2. \A u \in Threads \ {t} : pc'[u] = pc[u] /\ node'[u] = node[u]
  BY DEF Touches
<1>3. CASE KeepsLists(t)
  <2>1. /\ Members(LRU_HEAD)' = Members(LRU_HEAD)
        /\ Members(POOL_HEAD)' = Members(POOL_HEAD)
    BY <1>3 DEF KeepsLists, Heads
  <2>2. \A u \in Threads, n \in Nodes :
          (pc'[u] \in InHand => node'[u] # n) <=> (pc[u] \in InHand => node[u] # n)
    BY <1>2, <1>3 DEF KeepsLists
  <2>. QED
    BY <1>1, <2>1, <2>2 DEF EachNodeOnce
<1>4. CASE TakesOut(t)
  <2>1. /\ node[t] \in Members(LRU_HEAD) \cup Members(POOL_HEAD)
        /\ (Members(LRU_HEAD) \cup Members(POOL_HEAD))'
             = (Members(LRU_HEAD) \cup Members(POOL_HEAD)) \ {node[t]}
        /\ pc[t] \notin InHand /\ pc'[t] \in InHand /\ node'[t] = node[t]
    <3>1. PICK head \in Heads :
            /\ node[t] \in Members(head) /\ Members(head)' = Members(head) \ {node[t]}
            /\ Listed(OtherHead(head))' = Listed(OtherHead(head))
            /\ pc[t] \notin InHand /\ pc'[t] \in InHand /\ node'[t] = node[t]
      BY <1>4 DEF TakesOut
    <3>2. Members(OtherHead(head))' = Members(OtherHead(head))
      BY <3>1 DEF Members
    <3>3. node[t] \notin Members(OtherHead(head))
      BY <3>1, LinkFacts DEF IInv
    <3>4. CASE head = LRU_HEAD
      BY <3>1, <3>2, <3>3, <3>4, Pointers DEF OtherHead
    <3>5. CASE head = POOL_HEAD
      BY <3>1, <3>2, <3>3, <3>5 DEF OtherHead
    <3>. QED
      BY <3>4, <3>5 DEF Heads
  <2>. QED
    BY <1>1, <1>2, <2>1 DEF EachNodeOnce
<1>5. CASE PutsBack(t)
  <2>1. /\ (Members(LRU_HEAD) \cup Members(POOL_HEAD))'
             = Members(LRU_HEAD) \cup Members(POOL_HEAD) \cup {node[t]}
        /\ pc[t] \in InHand /\ pc'[t] \notin InHand
    BY <1>5 DEF PutsBack
  <2>2. \A u \in Threads : pc[u] \in InHand /\ node[u] = node[t] => u = t
    BY <2>1, InHandIsOwn
  <2>. QED
    BY <1>1, <1>2, <2>1, <2>2 DEF EachNodeOnce
<1>. QED
  BY <1>3, <1>4, <1>5

(* Items change only in the hands of a thread.                             *)
LEMMA ItemsInHand ==
  ASSUME IInv, NEW t \in Threads, Step(t)
  PROVE  \A n \in Nodes :
           \/ key'[n] = key[n] /\ lru_flag'[n] = lru_flag[n]
           \/ n = node[t] /\ pc[t] \in InHand
<1>a. Types
  BY DEF IInv
<1>. USE DEF Types, InHand
<1>1. CASE LockFound(t)
  BY <1>a, <1>1 DEF LockFound, Goto, items
<1>2. CASE FindFails(t)
  BY <1>a, <1>2 DEF FindFails, Goto, items
<1>3. CASE FindDone(t)
  BY <1>a, <1>3 DEF FindDone, Goto, items
<1>4. CASE RemoveTry(t)
  BY <1>a, <1>4 DEF RemoveTry, Goto, items
<1>5. CASE RemoveTryFails(t)
  BY <1>a, <1>5 DEF RemoveTryFails, Goto, items
<1>6. CASE GiveWay(t)
  BY <1>a, <1>6 DEF GiveWay, Goto, items
<1>7. CASE LockPrev(t)
  BY <1>a, <1>7 DEF LockPrev, Goto, items
<1>8. CASE RelockBoth(t)
  BY <1>a, <1>8 DEF RelockBoth, Goto, items
<1>9. CASE LeavePrev(t)
  BY <1>a, <1>9 DEF LeavePrev, Goto, items
<1>10. CASE Relock(t)
  BY <1>a, <1>10 DEF Relock, Goto, items
<1>11. CASE RemoveNext(t)
  BY <1>a, <1>11 DEF RemoveNext, Goto, items
<1>12. CASE RemoveUnnext(t)
  BY <1>a, <1>12 DEF RemoveUnnext, Goto, items
<1>13. CASE TailRead(t)
  BY <1>a, <1>13 DEF TailRead, Goto, items
<1>14. CASE TailPrev(t)
  BY <1>a, <1>14 DEF TailPrev, Goto, items
<1>15. CASE TailRetry(t)
  BY <1>a, <1>15 DEF TailRetry, Goto, items
<1>16. CASE TailLock(t)
  BY <1>a, <1>16 DEF TailLock, Goto, items
<1>17. CASE EvictNone(t)
  BY <1>a, <1>17 DEF EvictNone, Goto, items
<1>18. CASE EvictHead(t)
  BY <1>a, <1>18 DEF EvictHead, Goto, items
<1>19. CASE EvictNode(t)
  BY <1>a, <1>19 DEF EvictNode, Goto, items
<1>20. CASE EvictNext(t)
  BY <1>a, <1>20 DEF EvictNext, Goto, items
<1>21. CASE EvictFromPool(t)
  BY <1>a, <1>21 DEF EvictFromPool, Goto, Fill
<1>22. CASE EvictFromLru(t)
  BY <1>a, <1>22 DEF EvictFromLru, Goto
<1>23. CASE HtRemoveFirst(t)
  BY <1>a, <1>23 DEF HtRemoveFirst, Goto, Fill
<1>24. CASE HtRemove(t)
  BY <1>a, <1>24 DEF HtRemove, Goto, items
<1>25. CASE HtUnprev(t)
  BY <1>a, <1>25 DEF HtUnprev, Goto, Fill
<1>26. CASE htInsert(t)
  BY <1>a, <1>26 DEF htInsert, Goto, items
<1>. QED
  BY <1>1, <1>2, <1>3, <1>4, <1>5, <1>6, <1>7, <1>8, <1>9, <1>10, <1>11, <1>12, <1>13,
     <1>14, <1>15, <1>16, <1>17, <1>18, <1>19, <1>20, <1>21, <1>22, <1>23, <1>24, <1>25,
     <1>26 DEF Step, Find, lruRemoveNode, lruInsertLast, Insert

(* The flags still tell the lists apart.                                   *)
LEMMA StepKeepsFlags ==
  ASSUME IInv, NEW t \in Threads, Step(t)
  PROVE  FlagsOK'
<1>1. \A n \in Nodes : lru_flag'[n] = lru_flag[n] \/ (n = node[t] /\ pc[t] \in InHand)
  BY ItemsInHand
<1>2. Members(LRU_HEAD) \subseteq Nodes /\ Members(POOL_HEAD) \subseteq Nodes
  BY LinkFacts DEF IInv, Heads
<1>3. \A head \in Heads : \A n \in Members(head) : lru_flag'[n] = lru_flag[n]
  BY <1>1, <1>2, InHandIsOwn DEF Heads
<1>4. ListsOK' /\ (KeepsLists(t) \/ TakesOut(t) \/ (TailLock(t) /\ PutsBack(t)))
  BY StepLists
<1>5. Members(POOL_HEAD)' \subseteq Members(POOL_HEAD)
  BY <1>4, PoolShrinks
<1>6. \A n \in Members(LRU_HEAD)' : n \in Members(LRU_HEAD) \/ lru_flag'[n]
  <2>1. CASE KeepsLists(t)
    BY <2>1 DEF KeepsLists, Heads
  <2>2. CASE TakesOut(t)
    BY <2>2 DEF TakesOut, Heads, OtherHead, Members
  <2>3. CASE TailLock(t) /\ PutsBack(t)
    <3>1. lru_flag[node[t]] /\ lru_flag' = lru_flag
      BY <2>3 DEF TailLock, Goto, items, IInv, ThreadOK, NeighboursOK, Appending
    <3>. QED
      BY <2>3, <3>1 DEF PutsBack
  <2>. QED
    BY <1>4, <2>1, <2>2, <2>3
<1>. QED
  BY <1>3, <1>5, <1>6 DEF FlagsOK, IInv, Heads

(* A node that is being filled or emptied belongs to one thread.           *)
LEMMA UnchainedIsOwn ==
  ASSUME IInv, NEW t \in Threads, pc[t] \in AtNode \cup InHand, NEW u \in Threads,
         Unchained(u), node[u] = node[t]
  PROVE  u = t
<1>1. pc[u] \in AtNode \cup InHand
  BY DEF Unchained, FromPool, AtNode, InHand, Appending
<1>2. lock[node[u]] = u /\ lock[node[t]] = t
  BY <1>1 DEF IInv, ThreadOK, LocksOK
<1>. QED
  BY <1>2

(* The chains stay what they are.                                          *)
LEMMA ChainsStay ==
  ASSUME IInv, NEW t \in Threads, Touches(t), chain' = chain,
         Members(POOL_HEAD)' = Members(POOL_HEAD),
         Unchained(t)' <=> Unchained(t), Unchained(t) => node'[t] = node[t],
         \A n \in Nodes : \/ key'[n] = key[n]
                          \/ n = node[t] /\ Unchained(t) /\ key'[n] \in Keys,
         FromPool(t) => FromPool(t)' \/ key'[node[t]] \in Keys
  PROVE  ChainsOK'
<1>1. \A u \in Threads \ {t} : /\ Unchained(u)' <=> Unchained(u)
                               /\ FromPool(u)' <=> FromPool(u)
                               /\ node'[u] = node[u]
  BY DEF Touches, Unchained, FromPool
<1>2. \A n \in Nodes : (\A u \in Threads : Unchained(u)' => node'[u] # n)
                         <=> (\A u \in Threads : Unchained(u) => node[u] # n)
  BY <1>1
<1>3. \A n \in Nodes : (\A u \in Threads : Unchained(u) => node[u] # n) => key'[n] = key[n]
  OBVIOUS
<1>4. ASSUME NEW b \in Buckets, NEW n \in Nodes
      PROVE  n \in Range(chain'[b]) <=>
               /\ b = whichBucket(key'[n]) /\ n \notin Members(POOL_HEAD)'
               /\ \A u \in Threads : Unchained(u)' => node'[u] # n
  <2>1. n \in Range(chain[b]) <=>
          /\ b = whichBucket(key[n]) /\ n \notin Members(POOL_HEAD)
          /\ \A u \in Threads : Unchained(u) => node[u] # n
    BY DEF IInv, ChainsOK
  <2>2. (\A u \in Threads : Unchained(u)' => node'[u] # n)
          <=> (\A u \in Threads : Unchained(u) => node[u] # n)
    BY <1>2
  <2>3. (\A u \in Threads : Unchained(u) => node[u] # n) => key'[n] = key[n]
    BY <1>3
  <2>. QED
    BY <2>1, <2>2, <2>3
<1>5. ASSUME NEW n \in Nodes
      PROVE  \/ key'[n] \in Keys \/ n \in Members(POOL_HEAD)'
             \/ \E u \in Threads : FromPool(u)' /\ node'[u] = n
  <2>1. \/ key[n] \in Keys \/ n \in Members(POOL_HEAD)
        \/ \E u \in Threads : FromPool(u) /\ node[u] = n
    BY DEF IInv, ChainsOK
  <2>2. CASE key[n] \in Keys \/ n \in Members(POOL_HEAD)
    BY <2>2
  <2>3. CASE \E u \in Threads : FromPool(u) /\ node[u] = n
    <3>1. PICK u \in Threads : FromPool(u) /\ node[u] = n
      BY <2>3
    <3>2. CASE u # t
      BY <1>1, <3>1, <3>2
    <3>3. CASE u = t
      BY <3>1, <3>3 DEF Unchained
    <3>. QED
      BY <3>2, <3>3
  <2>. QED
    BY <2>1, <2>2, <2>3
<1>6. \A b \in Buckets : IsInjective(chain'[b])
  BY DEF IInv, ChainsOK
<1>. QED
  BY <1>4, <1>5, <1>6 DEF ChainsOK

(* A thread takes its node out of its chain.                               *)
LEMMA Unchains ==
  ASSUME IInv, NEW t \in Threads, Touches(t), pc[t] = "ht_remove",
         Members(POOL_HEAD)' = Members(POOL_HEAD),
         Unchained(t)', node'[t] = node[t],
         \A n \in Nodes : key'[n] = key[n] \/ (n = node[t] /\ key'[n] \in Keys),
         NEW list, chain' = [chain EXCEPT ![BucketOf(t)] = list],
         Distinct(list, Nodes), Range(list) = Range(chain[BucketOf(t)]) \ {node[t]}
  PROVE  ChainsOK'
<1>1. \A u \in Threads \ {t} : /\ Unchained(u)' <=> Unchained(u)
                               /\ FromPool(u)' <=> FromPool(u)
                               /\ node'[u] = node[u]
  BY DEF Touches, Unchained, FromPool
<1>2. ~Unchained(t) /\ ~FromPool(t)
  BY DEF Unchained, FromPool, Appending
<1>3. BucketOf(t) \in Buckets /\ node[t] \in Nodes
  BY EvictedKey DEF IInv, ThreadOK, LocalsOK
<1>4. \A b \in Buckets : chain'[b] = IF b = BucketOf(t) THEN list ELSE chain[b]
  BY <1>3 DEF IInv, Types
<1>5. ASSUME NEW b \in Buckets, NEW n \in Nodes
      PROVE  n \in Range(chain'[b]) <=>
               /\ b = whichBucket(key'[n]) /\ n \notin Members(POOL_HEAD)'
               /\ \A u \in Threads : Unchained(u)' => node'[u] # n
  <2>1. n \in Range(chain[b]) <=>
          /\ b = whichBucket(key[n]) /\ n \notin Members(POOL_HEAD)
          /\ \A u \in Threads : Unchained(u) => node[u] # n
    BY DEF IInv, ChainsOK
  <2>2. CASE n = node[t]
    BY <1>4, <2>1, <2>2 DEF BucketOf
  <2>3. CASE n # node[t]
    <3>1. key'[n] = key[n]
      BY <2>3
    <3>2. (\A u \in Threads : Unchained(u)' => node'[u] # n)
            <=> (\A u \in Threads : Unchained(u) => node[u] # n)
      BY <1>1, <1>2, <2>3
    <3>3. n \in Range(chain'[b]) <=> n \in Range(chain[b])
      BY <1>4, <2>3
    <3>. QED
      BY <2>1, <3>1, <3>2, <3>3
  <2>. QED
    BY <2>2, <2>3
<1>6. ASSUME NEW n \in Nodes
      PROVE  \/ key'[n] \in Keys \/ n \in Members(POOL_HEAD)'
             \/ \E u \in Threads : FromPool(u)' /\ node'[u] = n
  <2>1. \/ key[n] \in Keys \/ n \in Members(POOL_HEAD)
        \/ \E u \in Threads : FromPool(u) /\ node[u] = n
    BY DEF IInv, ChainsOK
  <2>. QED
    BY <1>1, <1>2, <2>1
<1>7. \A b \in Buckets : IsInjective(chain'[b])
  BY <1>4 DEF IInv, ChainsOK, Distinct
<1>. QED
  BY <1>5, <1>6, <1>7 DEF ChainsOK

(* The chains still have the nodes they should: one step takes a node out  *)
(* of the pool, two out of their chain, and one puts it into the new one.  *)
LEMMA StepKeepsChains ==
  ASSUME IInv, NEW t \in Threads, Step(t), Touches(t), Members(POOL_HEAD)' \subseteq Nodes
  PROVE  ChainsOK'
<1>a. Types /\ LocalsOK(t) /\ CallOK(t)
  BY DEF IInv, ThreadOK
<1>b. RemoveNext(t) \/ EvictNext(t) \/ Members(POOL_HEAD)' = Members(POOL_HEAD)
  BY StepLists DEF KeepsLists, PutsBack, Heads
<1>c. \/ Members(POOL_HEAD)' = Members(POOL_HEAD)
      \/ /\ node[t] \in Members(POOL_HEAD)
         /\ Members(POOL_HEAD)' = Members(POOL_HEAD) \ {node[t]}
  <2>1. KeepsLists(t) \/ TakesOut(t) \/ PutsBack(t)
    BY StepLists
  <2>. QED
    BY <2>1 DEF KeepsLists, PutsBack, TakesOut, Heads, OtherHead, Members
<1>d. ASSUME pc[t] \in AtNode, node[t] \in Members(LRU_HEAD)
      PROVE  Members(POOL_HEAD)' = Members(POOL_HEAD)
  BY <1>c, <1>d DEF IInv, ListsOK
<1>e. POOL_HEAD # LRU_HEAD
  BY Pointers
<1>. USE DEF Types, Unchained, FromPool, Appending
<1>1. CASE LockFound(t)
  <2>1. Members(POOL_HEAD)' = Members(POOL_HEAD)
    BY <1>b, <1>1 DEF LockFound, RemoveNext, EvictNext, Goto
  <2>. QED
    BY <1>a, <1>e, <1>1, <2>1, ChainsStay DEF LockFound, Goto, items, table, call,
       CallOK, Removing, LocalsOK
<1>2. CASE FindFails(t)
  <2>1. Members(POOL_HEAD)' = Members(POOL_HEAD)
    BY <1>b, <1>2 DEF FindFails, RemoveNext, EvictNext, Goto, Return
  <2>. QED
    BY <1>a, <1>e, <1>2, <2>1, ChainsStay DEF FindFails, Return, Goto, items, table,
       CallOK, Removing, LocalsOK
<1>3. CASE FindDone(t)
  <2>1. Members(POOL_HEAD)' = Members(POOL_HEAD)
    BY <1>b, <1>3 DEF FindDone, RemoveNext, EvictNext, Goto, Return
  <2>. QED
    BY <1>a, <1>e, <1>3, <2>1, ChainsStay DEF FindDone, Return, Goto, items, table,
       CallOK, Removing, LocalsOK
<1>4. CASE RemoveTry(t)
  <2>1. Members(POOL_HEAD)' = Members(POOL_HEAD)
    BY <1>b, <1>4 DEF RemoveTry, RemoveNext, EvictNext, Goto
  <2>. QED
    BY <1>a, <1>e, <1>4, <2>1, ChainsStay DEF RemoveTry, Goto, items, table, call,
       CallOK, Removing, LocalsOK
<1>5. CASE RemoveTryFails(t)
  <2>1. Members(POOL_HEAD)' = Members(POOL_HEAD)
    BY <1>b, <1>5 DEF RemoveTryFails, RemoveNext, EvictNext, Goto
  <2>. QED
    BY <1>a, <1>e, <1>5, <2>1, ChainsStay DEF RemoveTryFails, Goto, items, table, call,
       CallOK, Removing, LocalsOK
<1>6. CASE GiveWay(t)
  <2>1. Members(POOL_HEAD)' = Members(POOL_HEAD)
    BY <1>b, <1>6 DEF GiveWay, RemoveNext, EvictNext, Goto
  <2>. QED
    BY <1>a, <1>e, <1>6, <2>1, ChainsStay DEF GiveWay, Goto, items, table, call, CallOK,
       Removing, LocalsOK
<1>7. CASE LockPrev(t)
  <2>1. Members(POOL_HEAD)' = Members(POOL_HEAD)
    BY <1>b, <1>7 DEF LockPrev, RemoveNext, EvictNext, Goto
  <2>. QED
    BY <1>a, <1>e, <1>7, <2>1, ChainsStay DEF LockPrev, Goto, items, table, call, CallOK,
       Removing, LocalsOK
<1>8. CASE RelockBoth(t)
  <2>1. Members(POOL_HEAD)' = Members(POOL_HEAD)
    BY <1>b, <1>8 DEF RelockBoth, RemoveNext, EvictNext, Goto
  <2>. QED
    BY <1>a, <1>e, <1>8, <2>1, ChainsStay DEF RelockBoth, Goto, items, table, call,
       CallOK, Removing, LocalsOK
<1>9. CASE LeavePrev(t)
  <2>1. Members(POOL_HEAD)' = Members(POOL_HEAD)
    BY <1>b, <1>9 DEF LeavePrev, RemoveNext, EvictNext, Goto
  <2>. QED
    BY <1>a, <1>e, <1>9, <2>1, ChainsStay DEF LeavePrev, Goto, items, table, call,
       CallOK, Removing, LocalsOK
<1>10. CASE Relock(t)
  <2>1. Members(POOL_HEAD)' = Members(POOL_HEAD)
    BY <1>b, <1>10 DEF Relock, RemoveNext, EvictNext, Goto
  <2>. QED
    BY <1>a, <1>e, <1>10, <2>1, ChainsStay DEF Relock, Goto, items, table, call, CallOK,
       Removing, LocalsOK
<1>11. CASE RemoveNext(t)
  <2>1. Members(POOL_HEAD)' = Members(POOL_HEAD)
    BY <1>d, <1>11, LockedNeighbours DEF RemoveNext, Goto, AtNode
  <2>. QED
    BY <1>a, <1>11, <2>1, ChainsStay DEF RemoveNext, Goto, items, table, call
<1>12. CASE RemoveUnnext(t)
  <2>1. Members(POOL_HEAD)' = Members(POOL_HEAD)
    BY <1>b, <1>12 DEF RemoveUnnext, RemoveNext, EvictNext, Goto
  <2>. QED
    BY <1>a, <1>e, <1>12, <2>1, ChainsStay DEF RemoveUnnext, Goto, TakenOut, items,
       table, call, CallOK, Removing, LocalsOK
<1>13. CASE TailRead(t)
  <2>1. Members(POOL_HEAD)' = Members(POOL_HEAD)
    BY <1>b, <1>13 DEF TailRead, RemoveNext, EvictNext, Goto
  <2>. QED
    BY <1>a, <1>e, <1>13, <2>1, ChainsStay
       DEF TailRead, Goto, items, table, call, CallOK, Removing, LocalsOK
<1>14. CASE TailPrev(t)
  <2>1. Members(POOL_HEAD)' = Members(POOL_HEAD)
    BY <1>b, <1>14 DEF TailPrev, RemoveNext, EvictNext, Goto
  <2>. QED
    BY <1>a, <1>e, <1>14, <2>1, ChainsStay
       DEF TailPrev, Goto, items, table, call, CallOK, Removing, LocalsOK
<1>15. CASE TailRetry(t)
  <2>1. Members(POOL_HEAD)' = Members(POOL_HEAD)
    BY <1>b, <1>15 DEF TailRetry, RemoveNext, EvictNext, Goto
  <2>. QED
    BY <1>a, <1>e, <1>15, <2>1, ChainsStay DEF TailRetry, Goto, items, table, call,
       CallOK, Removing, LocalsOK
<1>16. CASE TailLock(t)
  <2>1. Members(POOL_HEAD)' = Members(POOL_HEAD)
    BY <1>b, <1>16 DEF TailLock, RemoveNext, EvictNext, Goto
  <2>. QED
    BY <1>a, <1>e, <1>16, <2>1, ChainsStay
       DEF TailLock, Goto, items, table, call, CallOK, Removing, LocalsOK
<1>17. CASE EvictNone(t)
  <2>1. Members(POOL_HEAD)' = Members(POOL_HEAD)
    BY <1>b, <1>17 DEF EvictNone, RemoveNext, EvictNext, Goto
  <2>. QED
    BY <1>a, <1>e, <1>17, <2>1, ChainsStay DEF EvictNone, Goto, items, table, call,
       CallOK, Removing, LocalsOK
<1>18. CASE EvictHead(t)
  <2>1. Members(POOL_HEAD)' = Members(POOL_HEAD)
    BY <1>b, <1>18 DEF EvictHead, RemoveNext, EvictNext, Goto
  <2>. QED
    BY <1>a, <1>e, <1>18, <2>1, ChainsStay DEF EvictHead, Goto, items, table, call,
       CallOK, Removing, LocalsOK
<1>19. CASE EvictNode(t)
  <2>1. Members(POOL_HEAD)' = Members(POOL_HEAD)
    BY <1>b, <1>19 DEF EvictNode, RemoveNext, EvictNext, Goto
  <2>. QED
    BY <1>a, <1>e, <1>19, <2>1, ChainsStay DEF EvictNode, Goto, items, table, call,
       CallOK, Removing, LocalsOK
<1>20. CASE EvictNext(t)
  <2>1. /\ pc[t] = "evict_next" /\ pc'[t] = "evict_unnext" /\ prev' = prev /\ node' = node
        /\ prev[t] \in Heads /\ chain' = chain /\ key' = key /\ node[t] \in Members(prev[t])
    BY <1>a, <1>20, LockedNeighbours DEF EvictNext, Goto, items, table, call, LocalsOK,
       Evicting
  <2>2. CASE prev[t] = LRU_HEAD
    <3>1. Members(POOL_HEAD)' = Members(POOL_HEAD)
      BY <1>d, <2>1, <2>2 DEF AtNode
    <3>. QED
      BY <1>e, <2>1, <2>2, <3>1, ChainsStay
  <2>3. CASE prev[t] = POOL_HEAD
    <3>1. FromPool(t)' /\ Unchained(t)' /\ ~Unchained(t) /\ ~FromPool(t) /\ node'[t] = node[t]
      BY <2>1, <2>3
    <3>2. \A u \in Threads \ {t} : /\ Unchained(u)' <=> Unchained(u)
                                   /\ FromPool(u)' <=> FromPool(u)
                                   /\ node'[u] = node[u]
      BY DEF Touches
    <3>. HIDE DEF Unchained, FromPool
    <3>3. \A b \in Buckets, n \in Nodes :
            n \in Range(chain[b]) <=>
              /\ b = whichBucket(key[n]) /\ n \notin Members(POOL_HEAD)
              /\ \A u \in Threads : Unchained(u) => node[u] # n
      BY DEF IInv, ChainsOK
    <3>4. ASSUME NEW n \in Nodes
          PROVE  (/\ n \notin Members(POOL_HEAD)
                  /\ \A u \in Threads : Unchained(u) => node[u] # n)
                 <=> (/\ n \notin Members(POOL_HEAD)'
                      /\ \A u \in Threads : Unchained(u)' => node'[u] # n)
      BY <1>c, <2>1, <2>3, <3>1, <3>2
    <3>5. \A b \in Buckets, n \in Nodes :
            n \in Range(chain'[b]) <=>
              /\ b = whichBucket(key'[n]) /\ n \notin Members(POOL_HEAD)'
              /\ \A u \in Threads : Unchained(u)' => node'[u] # n
      BY <2>1, <3>3, <3>4
    <3>6. \A n \in Nodes : \/ key'[n] \in Keys \/ n \in Members(POOL_HEAD)'
                           \/ \E u \in Threads : FromPool(u)' /\ node'[u] = n
      <4>1. \A n \in Nodes : \/ key[n] \in Keys \/ n \in Members(POOL_HEAD)
                             \/ \E u \in Threads : FromPool(u) /\ node[u] = n
        BY DEF IInv, ChainsOK
      <4>. QED
        BY <1>c, <2>1, <3>1, <3>2, <4>1
    <3>7. \A b \in Buckets : IsInjective(chain'[b])
      BY <2>1 DEF IInv, ChainsOK
    <3>. QED
      BY <3>5, <3>6, <3>7 DEF ChainsOK
  <2>. QED
    BY <2>1, <2>2, <2>3 DEF Heads
<1>21. CASE EvictFromPool(t)
  <2>1. Members(POOL_HEAD)' = Members(POOL_HEAD)
    BY <1>b, <1>21 DEF EvictFromPool, RemoveNext, EvictNext, Goto
  <2>2. /\ pc[t] = "evict_unnext" /\ prev[t] = POOL_HEAD /\ pc'[t] = "tail_read"
        /\ op'[t] = "insert" /\ op[t] = "insert" /\ node'[t] = node[t] /\ chain' = chain
    BY <1>a, <1>21 DEF EvictFromPool, Goto, table, call, CallOK, Evicting
  <2>3. /\ node[t] \in Nodes /\ key' = [key EXCEPT ![node[t]] = arg[t]] /\ arg[t] \in Keys
    BY <1>a, <1>21, <2>2 DEF EvictFromPool, Goto, Fill, CallOK, LocalsOK
  <2>. QED
    BY <1>a, <1>21, <2>1, <2>2, <2>3, ChainsStay
<1>22. CASE EvictFromLru(t)
  <2>1. Members(POOL_HEAD)' = Members(POOL_HEAD)
    BY <1>b, <1>22 DEF EvictFromLru, RemoveNext, EvictNext, Goto
  <2>. QED
    BY <1>a, <1>e, <1>22, <2>1, ChainsStay DEF EvictFromLru, Goto, TakenOut, table, call,
       CallOK, Removing, LocalsOK
<1>23. CASE HtRemoveFirst(t)
  <2>1. BucketOf(t) \in Buckets
    BY <1>23, EvictedKey DEF HtRemoveFirst, Goto
  <2>2. Distinct(chain[BucketOf(t)], Nodes)
    BY <1>a, <2>1 DEF IInv, ChainsOK, Distinct
  <2>3. /\ chain[BucketOf(t)] # <<>> /\ Head(chain[BucketOf(t)]) = node[t]
        /\ chain' = [chain EXCEPT ![BucketOf(t)] = Tail(chain[BucketOf(t)])]
    BY <1>23 DEF HtRemoveFirst
  <2>4. /\ Distinct(Tail(chain[BucketOf(t)]), Nodes)
        /\ Range(Tail(chain[BucketOf(t)])) = Range(chain[BucketOf(t)]) \ {node[t]}
    BY <2>2, <2>3, TailDistinct
  <2>5. pc[t] = "ht_remove" /\ pc'[t] = "tail_read" /\ op'[t] = "insert" /\ node'[t] = node[t]
    BY <1>a, <1>23 DEF HtRemoveFirst, Goto, call, CallOK
  <2>6. Unchained(t)' /\ pc[t] = "ht_remove" /\ node'[t] = node[t]
    BY <2>5
  <2>7. \A n \in Nodes : key'[n] = key[n] \/ (n = node[t] /\ key'[n] \in Keys)
    BY <1>a, <1>23 DEF HtRemoveFirst, Goto, Fill, CallOK
  <2>8. Members(POOL_HEAD)' = Members(POOL_HEAD)
    BY <1>b, <2>5 DEF RemoveNext, EvictNext, Goto
  <2>. HIDE DEF Unchained, BucketOf
  <2>. QED
    BY <2>3, <2>4, <2>6, <2>7, <2>8, Unchains
<1>24. CASE HtRemove(t)
  <2>1. BucketOf(t) \in Buckets
    BY <1>24, EvictedKey DEF HtRemove, Goto
  <2>2. Distinct(chain[BucketOf(t)], Nodes)
    BY <1>a, <2>1 DEF IInv, ChainsOK, Distinct
  <2>3. PICK i \in 2 .. Len(chain[BucketOf(t)]) :
          /\ chain[BucketOf(t)][i] = node[t]
          /\ chain' = [chain EXCEPT ![BucketOf(t)] = RemoveAt(chain[BucketOf(t)], i)]
    BY <1>24 DEF HtRemove
  <2>4. /\ Distinct(RemoveAt(chain[BucketOf(t)], i), Nodes)
        /\ Range(RemoveAt(chain[BucketOf(t)], i)) = Range(chain[BucketOf(t)]) \ {node[t]}
    <3>1. i \in 1 .. Len(chain[BucketOf(t)])
      BY <2>2 DEF Distinct
    <3>. QED
      BY <2>2, <2>3, <3>1, RemoveAtDistinct
  <2>5. pc[t] = "ht_remove" /\ pc'[t] = "ht_unprev" /\ node'[t] = node[t] /\ key' = key
    BY <1>a, <1>24 DEF HtRemove, Goto, items
  <2>6. Unchained(t)' /\ pc[t] = "ht_remove" /\ node'[t] = node[t]
    BY <2>5
  <2>8. Members(POOL_HEAD)' = Members(POOL_HEAD)
    BY <1>b, <2>5 DEF RemoveNext, EvictNext, Goto
  <2>. HIDE DEF Unchained, BucketOf
  <2>. QED
    BY <2>3, <2>4, <2>5, <2>6, <2>8, Unchains
<1>25. CASE HtUnprev(t)
  <2>1. Members(POOL_HEAD)' = Members(POOL_HEAD)
    BY <1>b, <1>25 DEF HtUnprev, RemoveNext, EvictNext, Goto
  <2>. QED
    BY <1>a, <1>e, <1>25, <2>1, ChainsStay
       DEF HtUnprev, Goto, Fill, call, CallOK, Removing, LocalsOK
<1>26. CASE htInsert(t)
  <2>1. pc[t] = "ht_insert" /\ pc'[t] = "idle" /\ key' = key /\ node[t] \in Nodes
    BY <1>a, <1>26 DEF htInsert, Return, Goto, items, LocalsOK
  <2>2. Members(POOL_HEAD)' = Members(POOL_HEAD)
    BY <1>b, <2>1 DEF RemoveNext, EvictNext, Goto
  <2>3. node[t] \notin Members(POOL_HEAD)
    BY <2>1 DEF IInv, ThreadOK, NeighboursOK, FlagsOK
  <2>4. BucketOf(t) \in Buckets
    BY <2>1, <2>3, EvictedKey
  <2>5. Unchained(t) /\ ~Unchained(t)' /\ ~FromPool(t) /\ ~FromPool(t)'
    BY <2>1
  <2>6. \A u \in Threads \ {t} : /\ Unchained(u)' <=> Unchained(u)
                                 /\ FromPool(u)' <=> FromPool(u)
                                 /\ node'[u] = node[u]
    BY DEF Touches
  <2>. HIDE DEF Unchained, FromPool
  <2>7. \A u \in Threads : Unchained(u) /\ node[u] = node[t] => u = t
    BY <2>1, UnchainedIsOwn DEF AtNode
  <2>8. \A b \in Buckets, n \in Nodes :
          n \in Range(chain[b]) <=>
            /\ b = whichBucket(key[n]) /\ n \notin Members(POOL_HEAD)
            /\ \A u \in Threads : Unchained(u) => node[u] # n
    BY DEF IInv, ChainsOK
  <2>9. \A b \in Buckets : node[t] \notin Range(chain[b])
    BY <2>1, <2>5, <2>8
  <2>10. Distinct(chain[BucketOf(t)], Nodes)
    BY <1>a, <2>4 DEF IInv, ChainsOK, Distinct
  <2>11. /\ Distinct(<<node[t]>> \o chain[BucketOf(t)], Nodes)
         /\ Range(<<node[t]>> \o chain[BucketOf(t)]) = Range(chain[BucketOf(t)]) \cup {node[t]}
    BY <2>1, <2>4, <2>9, <2>10, ConsDistinct
  <2>12. \A b \in Buckets :
           chain'[b] = IF b = BucketOf(t) THEN <<node[t]>> \o chain[b] ELSE chain[b]
    BY <1>a, <1>26, <2>4 DEF htInsert
  <2>13. ASSUME NEW b \in Buckets, NEW n \in Nodes
         PROVE  n \in Range(chain'[b]) <=>
                  /\ b = whichBucket(key'[n]) /\ n \notin Members(POOL_HEAD)'
                  /\ \A u \in Threads : Unchained(u)' => node'[u] # n
    <3>1. CASE n = node[t]
      <4>1. \A u \in Threads : Unchained(u)' => node'[u] # n
        BY <2>5, <2>6, <2>7, <3>1
      <4>2. n \in Range(chain'[b]) <=> b = BucketOf(t)
        BY <2>9, <2>11, <2>12, <3>1
      <4>. QED
        BY <2>1, <2>2, <2>3, <3>1, <4>1, <4>2 DEF BucketOf
    <3>2. CASE n # node[t]
      <4>1. (\A u \in Threads : Unchained(u)' => node'[u] # n)
              <=> (\A u \in Threads : Unchained(u) => node[u] # n)
        BY <2>5, <2>6, <3>2
      <4>2. n \in Range(chain'[b]) <=> n \in Range(chain[b])
        BY <2>11, <2>12, <3>2
      <4>. QED
        BY <2>1, <2>2, <2>8, <4>1, <4>2
    <3>. QED
      BY <3>1, <3>2
  <2>14. \A n \in Nodes : \/ key'[n] \in Keys \/ n \in Members(POOL_HEAD)'
                          \/ \E u \in Threads : FromPool(u)' /\ node'[u] = n
    <3>1. \A n \in Nodes : \/ key[n] \in Keys \/ n \in Members(POOL_HEAD)
                           \/ \E u \in Threads : FromPool(u) /\ node[u] = n
      BY DEF IInv, ChainsOK
    <3>. QED
      BY <2>1, <2>2, <2>5, <2>6, <3>1
  <2>15. \A b \in Buckets : IsInjective(chain'[b])
    BY <2>11, <2>12 DEF IInv, ChainsOK, Distinct
  <2>. QED
    BY <2>13, <2>14, <2>15 DEF ChainsOK
<1>. QED
  BY <1>1, <1>2, <1>3, <1>4, <1>5, <1>6, <1>7, <1>8, <1>9, <1>10, <1>11, <1>12, <1>13,
     <1>14, <1>15, <1>16, <1>17, <1>18, <1>19, <1>20, <1>21, <1>22, <1>23, <1>24, <1>25,
     <1>26 DEF Step, Find, lruRemoveNode, lruInsertLast, Insert

-----------------------------------------------------------------------------
(* Every step keeps the invariant.                                         *)
LEMMA StepKeepsIInv ==
  ASSUME IInv, NEW t \in Threads, Step(t)
  PROVE  IInv'
<1>1. Touches(t)
  BY StepTouches DEF IInv, ThreadOK
<1>2. ListsOK' /\ (KeepsLists(t) \/ TakesOut(t) \/ PutsBack(t))
  BY StepLists
<1>3. Members(POOL_HEAD)' \subseteq Members(POOL_HEAD) /\ Members(POOL_HEAD) \subseteq Nodes
  BY <1>2, PoolShrinks, LinkFacts DEF IInv, Heads
<1>4. Types' /\ FlagsOK'
  BY StepKeepsTypes, StepKeepsFlags
<1>5. EachNodeOnce'
  BY <1>1, <1>2, StepKeepsEachNodeOnce
<1>6. ChainsOK'
  BY <1>1, <1>3, StepKeepsChains
<1>7. ThreadOK(t)'
  BY <1>3, StepKeepsThread
<1>8. ASSUME NEW u \in Threads \ {t} PROVE ThreadOK(u)'
  <2>1. Types /\ ThreadOK(u)
    BY DEF IInv
  <2>. QED
    BY <1>1, <1>3, <2>1, OthersKeep
<1>. QED
  BY <1>2, <1>4, <1>5, <1>6, <1>7, <1>8 DEF IInv

(* A call begins with no lock and changes nothing that is shared.          *)
LEMMA CallKeepsIInv ==
  ASSUME IInv, NEW t \in Threads, NEW k \in Keys, CallInsert(t, k) \/ CallFind(t, k)
  PROVE  IInv'
<1>a. Types /\ CallOK(t) /\ LocalsOK(t) /\ LocksOK(t) /\ NeighboursOK(t)
  BY DEF IInv, ThreadOK
<1>1. /\ UNCHANGED <<items, links, lock, table>>
      /\ pc[t] = "idle"
      /\ pc' = [pc EXCEPT ![t] = pc'[t]] /\ pc'[t] \in {"evict_head", "lock_found"}
      /\ arg' = [arg EXCEPT ![t] = k]
  BY <1>a DEF CallInsert, CallFind, Goto, Types
<1>2. /\ op' = [op EXCEPT ![t] = op'[t]] /\ op'[t] \in Calls
      /\ prev' = [prev EXCEPT ![t] = prev'[t]] /\ prev'[t] \in Base \cup {NULL}
      /\ pc'[t] = "evict_head" => op'[t] = "insert" /\ prev'[t] \in Heads /\ node' = node
  BY <1>a DEF CallInsert, CallFind, Goto, Types, Calls, Heads, Base
<1>3. /\ node' = [node EXCEPT ![t] = node'[t]] /\ node'[t] \in Nodes \cup {NULL}
      /\ pc'[t] = "lock_found" => node'[t] \in Nodes /\ op' = op
  <2>1. CASE CallInsert(t, k)
    BY <1>a, <2>1 DEF CallInsert, Goto, Types
  <2>2. CASE CallFind(t, k)
    <3>1. PICK i \in Matches(k) : node' = [node EXCEPT ![t] = chain[whichBucket(k)][i]]
      BY <2>2 DEF CallFind
    <3>2. chain[whichBucket(k)] \in Seq(Nodes)
      BY <1>a, BucketInRange DEF Types
    <3>3. chain[whichBucket(k)][i] \in Nodes
      BY <3>2 DEF Matches
    <3>. QED
      BY <1>a, <2>2, <3>1, <3>3 DEF CallFind, Types
  <2>. QED
    BY <2>1, <2>2
<1>4. /\ ListsOK'
      /\ \A head \in Heads : Listed(head)' = Listed(head) /\ Members(head)' = Members(head)
  BY <1>1, SameLists DEF IInv
<1>5. /\ Members(LRU_HEAD)' = Members(LRU_HEAD)
      /\ Members(POOL_HEAD)' = Members(POOL_HEAD)
  BY <1>4 DEF Heads
<1>6. Types'
  <2>1. pc'[t] \in PCs
    BY <1>1 DEF PCs
  <2>2. /\ pc' \in [Threads -> PCs] /\ op' \in [Threads -> Calls]
        /\ arg' \in [Threads -> Keys \cup {NoKey}] /\ node' \in [Threads -> Nodes \cup {NULL}]
        /\ prev' \in [Threads -> Base \cup {NULL}]
    <3>1. pc' \in [Threads -> PCs]
      BY <1>a, <1>1, <2>1 DEF Types
    <3>2. op' \in [Threads -> Calls] /\ arg' \in [Threads -> Keys \cup {NoKey}]
      BY <1>a, <1>1, <1>2 DEF Types
    <3>3. node' \in [Threads -> Nodes \cup {NULL}] /\ prev' \in [Threads -> Base \cup {NULL}]
      BY <1>a, <1>1, <1>2, <1>3 DEF Types
    <3>. QED
      BY <3>1, <3>2, <3>3
  <2>3. UNCHANGED <<key, lru_flag, lru_next, lru_prev, lock, chain, bucket_lock>>
    BY <1>1 DEF items, links, table
  <2>. QED
    BY <1>a, <2>2, <2>3 DEF Types
<1>7. Touches(t)
  BY <1>a, <1>1, <1>2, <1>3 DEF Touches, Types, items, links
<1>8. KeepsLists(t)
  BY <1>1, <1>4 DEF KeepsLists, InHand
<1>9. EachNodeOnce'
  BY <1>7, <1>8, StepKeepsEachNodeOnce
<1>10. FlagsOK'
  BY <1>1, <1>5 DEF IInv, FlagsOK, items
<1>11. ChainsOK'
  <2>1. ~Unchained(t) /\ ~Unchained(t)' /\ ~FromPool(t) /\ chain' = chain /\ key' = key
    BY <1>1 DEF Unchained, FromPool, Appending, items, table
  <2>. QED
    BY <1>5, <1>7, <2>1, ChainsStay
<1>12. ThreadOK(t)'
  <2>1. \A n \in Base : lock'[n] # t
    BY <1>a, <1>1 DEF LocksOK, Mine, AtNode, InHand, AtPrev, Unnext
  <2>2. LocksOK(t)'
    BY <1>1, <2>1 DEF LocksOK, AtNode, InHand, AtPrev, Unnext
  <2>3. NeighboursOK(t)'
    BY <1>1 DEF NeighboursOK, Appending
  <2>4. CallOK(t)'
    <3>1. pc'[t] = "lock_found" => op'[t] = "find"
      BY <1>1, <1>a DEF CallFind, CallInsert, CallOK, Goto, Types
    <3>. QED
      BY <1>a, <1>1, <1>2, <3>1 DEF CallOK, Evicting, Removing, Types
  <2>5. LocalsOK(t)'
    BY <1>1, <1>2, <1>3 DEF LocalsOK, Evicting
  <2>. QED
    BY <2>2, <2>3, <2>4, <2>5 DEF ThreadOK
<1>13. ASSUME NEW u \in Threads \ {t} PROVE ThreadOK(u)'
  <2>1. Types /\ ThreadOK(u)
    BY DEF IInv
  <2>. QED
    BY <1>5, <1>7, <2>1, OthersKeep
<1>. QED
  BY <1>4, <1>6, <1>9, <1>10, <1>11, <1>12, <1>13 DEF IInv

-----------------------------------------------------------------------------
(* The pointers of fresh nodes make a pool of all nodes and an empty list. *)
LEMMA FreshLists ==
  ASSUME NEW order \in Orders, NEW next, NEW back,
         next = Fresh(order).lru_next, back = Fresh(order).lru_prev
  PROVE  /\ Distinct(order, Nodes) /\ Range(order) = Nodes
         /\ IsWhole(POOL_HEAD, order, POOL_TAIL, next, back)
         /\ IsWhole(LRU_HEAD, <<>>, LRU_TAIL, next, back)
         /\ next \in [Base -> Base \cup {NULL}] /\ back \in [Base -> Base \cup {NULL}]
<1>. DEFINE pool == <<POOL_HEAD>> \o order \o <<POOL_TAIL>>
            at(n) == CHOOSE i \in DOMAIN pool : pool[i] = n
<1>1. /\ next = [n \in Base |-> CASE n = LRU_HEAD -> LRU_TAIL
                                  [] n \in {LRU_TAIL, POOL_TAIL} -> NULL
                                  [] OTHER -> pool[at(n) + 1]]
      /\ back = [n \in Base |-> CASE n = LRU_TAIL -> LRU_HEAD
                                  [] n \in Heads -> NULL
                                  [] OTHER -> pool[at(n) - 1]]
  BY DEF Fresh
<1>2. /\ Capacity \in Nat /\ order \in [1 .. Capacity -> Nodes] /\ IsInjective(order)
      /\ DOMAIN order = 1 .. Capacity
  BY SizeAssumption, FS_CardinalityType DEF Orders, SetToSeqs, Capacity, IsInjective
<1>3. order \in Seq(Nodes) /\ Len(order) = Capacity
  BY <1>2
<1>4. Range(order) = Nodes
  <2>1. Cardinality(1 .. Capacity) = Capacity
    BY <1>2, FS_Interval
  <2>2. order \in Injection(1 .. Capacity, Nodes)
    BY <1>2 DEF Injection, IsInjective
  <2>3. order \in Surjection(1 .. Capacity, Nodes)
    BY <2>1, <2>2, FS_Injection, SizeAssumption DEF Capacity
  <2>. QED
    BY <1>2, <2>3 DEF Surjection, Range
<1>5. /\ Len(pool) = Capacity + 2 /\ DOMAIN pool = 1 .. Capacity + 2
      /\ \A i \in 0 .. Capacity + 1 : pool[i + 1] = Spot(POOL_HEAD, order, POOL_TAIL, i)
  BY <1>2, <1>3 DEF Spot
<1>. HIDE DEF pool, at
<1>6. \A i, j \in 0 .. Capacity + 1 :
        Spot(POOL_HEAD, order, POOL_TAIL, i) = Spot(POOL_HEAD, order, POOL_TAIL, j) => i = j
  BY <1>2, <1>3, Pointers DEF Spot, IsInjective
<1>7. \A i \in 0 .. Capacity + 1 : at(Spot(POOL_HEAD, order, POOL_TAIL, i)) = i + 1
  <2>. SUFFICES ASSUME NEW i \in 0 .. Capacity + 1
                PROVE  at(Spot(POOL_HEAD, order, POOL_TAIL, i)) = i + 1
    OBVIOUS
  <2>. DEFINE s == Spot(POOL_HEAD, order, POOL_TAIL, i)
  <2>1. i + 1 \in DOMAIN pool /\ pool[i + 1] = s
    <3>1. i + 1 \in 1 .. Capacity + 2
      BY <1>2
    <3>. QED
      BY <1>5, <3>1
  <2>2. \A j \in DOMAIN pool : pool[j] = s => j = i + 1
    <3>1. ASSUME NEW j \in DOMAIN pool, pool[j] = s PROVE j = i + 1
      <4>1. j \in 1 .. Capacity + 2
        BY <1>5
      <4>2. j - 1 \in 0 .. Capacity + 1 /\ (j - 1) + 1 = j
        BY <1>2, <4>1
      <4>3. Spot(POOL_HEAD, order, POOL_TAIL, j - 1) = s
        BY <1>5, <3>1, <4>2
      <4>4. j - 1 = i
        BY <1>6, <4>2, <4>3
      <4>. QED
        BY <4>1, <4>4
    <3>. QED
      BY <3>1
  <2>. QED
    BY <2>1, <2>2 DEF at
<1>8. \A i \in 0 .. Capacity + 1 : Spot(POOL_HEAD, order, POOL_TAIL, i) \in Nodes \cup {POOL_HEAD, POOL_TAIL}
  BY <1>2, <1>3 DEF Spot
<1>9. \A i \in 0 .. Capacity :
        /\ Spot(POOL_HEAD, order, POOL_TAIL, i) \in Nodes \cup {POOL_HEAD}
        /\ Spot(POOL_HEAD, order, POOL_TAIL, i + 1) \in Nodes \cup {POOL_TAIL}
  BY <1>2, <1>3 DEF Spot
<1>10. Nodes \cup Heads \cup {LRU_TAIL, POOL_TAIL} = Base /\ Heads = {LRU_HEAD, POOL_HEAD}
  BY DEF Base, Heads
<1>11. ASSUME NEW i \in 0 .. Capacity
       PROVE  /\ next[Spot(POOL_HEAD, order, POOL_TAIL, i)] = Spot(POOL_HEAD, order, POOL_TAIL, i + 1)
              /\ back[Spot(POOL_HEAD, order, POOL_TAIL, i + 1)] = Spot(POOL_HEAD, order, POOL_TAIL, i)
  <2>. DEFINE s == Spot(POOL_HEAD, order, POOL_TAIL, i)
              r == Spot(POOL_HEAD, order, POOL_TAIL, i + 1)
  <2>1. i \in 0 .. Capacity + 1 /\ i + 1 \in 0 .. Capacity + 1
    BY <1>2
  <2>2. at(s) + 1 = i + 2 /\ at(r) - 1 = i + 1
    <3>1. at(s) = i + 1 /\ at(r) = i + 1 + 1
      BY <1>7, <2>1
    <3>. QED
      BY <2>1, <3>1
  <2>3. pool[i + 2] = r /\ pool[i + 1] = s
    <3>1. pool[i + 1 + 1] = r /\ pool[i + 1] = s /\ i + 1 + 1 = i + 2
      BY <1>5, <2>1
    <3>. QED
      BY <3>1
  <2>4. s \in Nodes \cup {POOL_HEAD} /\ r \in Nodes \cup {POOL_TAIL}
    BY <1>9
  <2>. HIDE DEF s, r
  <2>5. next[s] = pool[at(s) + 1] /\ back[r] = pool[at(r) - 1]
    BY <1>1, <1>10, <2>4, Pointers
  <2>6. next[s] = r /\ back[r] = s
    BY <2>2, <2>3, <2>5
  <2>. QED
    BY <2>6 DEF s, r
<1>12. IsWhole(POOL_HEAD, order, POOL_TAIL, next, back)
  BY <1>3, <1>11 DEF IsWhole
<1>13. IsWhole(LRU_HEAD, <<>>, LRU_TAIL, next, back)
  <2>1. next[LRU_HEAD] = LRU_TAIL /\ back[LRU_TAIL] = LRU_HEAD
    BY <1>1, <1>10, Pointers
  <2>. QED
    BY <2>1 DEF IsWhole, Spot
<1>14. \A n \in Nodes \cup {POOL_HEAD} : n \in Base /\ next[n] \in Base
  <2>. SUFFICES ASSUME NEW n \in Nodes \cup {POOL_HEAD} PROVE n \in Base /\ next[n] \in Base
    OBVIOUS
  <2>1. \E i \in 0 .. Capacity : n = Spot(POOL_HEAD, order, POOL_TAIL, i)
    <3>1. CASE n = POOL_HEAD
      BY <1>2, <3>1 DEF Spot
    <3>2. CASE n \in Nodes
      <4>1. PICK i \in 1 .. Capacity : order[i] = n
        BY <1>2, <1>4, <3>2 DEF Range
      <4>2. i \in 0 .. Capacity /\ Spot(POOL_HEAD, order, POOL_TAIL, i) = n
        BY <1>2, <1>3, <4>1 DEF Spot
      <4>. QED
        BY <4>2
    <3>. QED
      BY <3>1, <3>2
  <2>. QED
    BY <1>9, <1>10, <1>11, <2>1
<1>15. \A n \in Nodes \cup {POOL_TAIL} : n \in Base /\ back[n] \in Base
  <2>. SUFFICES ASSUME NEW n \in Nodes \cup {POOL_TAIL} PROVE n \in Base /\ back[n] \in Base
    OBVIOUS
  <2>1. \E i \in 0 .. Capacity : n = Spot(POOL_HEAD, order, POOL_TAIL, i + 1)
    <3>1. CASE n = POOL_TAIL
      BY <1>2, <1>3, <3>1 DEF Spot
    <3>2. CASE n \in Nodes
      <4>1. PICK i \in 1 .. Capacity : order[i] = n
        BY <1>2, <1>4, <3>2 DEF Range
      <4>2. i - 1 \in 0 .. Capacity /\ Spot(POOL_HEAD, order, POOL_TAIL, i - 1 + 1) = n
        BY <1>2, <1>3, <4>1 DEF Spot
      <4>. QED
        BY <4>2
    <3>. QED
      BY <3>1, <3>2
  <2>. QED
    BY <1>9, <1>10, <1>11, <2>1
<1>16. next \in [Base -> Base \cup {NULL}]
  <2>1. next[LRU_HEAD] \in Base /\ next[LRU_TAIL] = NULL /\ next[POOL_TAIL] = NULL
    BY <1>1, <1>10, Pointers
  <2>2. \A n \in Base : next[n] \in Base \cup {NULL}
    BY <1>10, <1>14, <2>1
  <2>3. next = [n \in Base |-> next[n]]
    BY <1>1
  <2>. QED
    BY <2>2, <2>3
<1>17. back \in [Base -> Base \cup {NULL}]
  <2>1. back[LRU_TAIL] \in Base /\ back[LRU_HEAD] = NULL /\ back[POOL_HEAD] = NULL
    BY <1>1, <1>10, Pointers
  <2>2. \A n \in Base : back[n] \in Base \cup {NULL}
    BY <1>10, <1>15, <2>1
  <2>3. back = [n \in Base |-> back[n]]
    BY <1>1
  <2>. QED
    BY <2>2, <2>3
<1>. QED
  BY <1>2, <1>3, <1>4, <1>12, <1>13, <1>16, <1>17 DEF Distinct

(* Nobody is in a call, no node is locked and none has been used.          *)
Anew ==
  /\ \E order \in Orders :
       LET fresh == Fresh(order)
       IN  /\ key = fresh.key /\ lru_flag = fresh.lru_flag /\ chain = fresh.chain
           /\ lru_next = fresh.lru_next /\ lru_prev = fresh.lru_prev
  /\ lock = [n \in Base |-> NULL]
  /\ bucket_lock \in [Buckets -> Threads \cup {NULL}]
  /\ pc = [t \in Threads |-> "idle"]
  /\ op = [t \in Threads |-> "find"]
  /\ arg \in [Threads -> Keys \cup {NoKey}]
  /\ node \in [Threads -> Nodes \cup {NULL}]
  /\ prev \in [Threads -> Base \cup {NULL}]

(* Such a cache is as it should be.                                        *)
LEMMA AnewIInv == Anew => IInv
<1>. SUFFICES ASSUME Anew PROVE IInv
  OBVIOUS
<1>1. PICK order \in Orders :
        LET fresh == Fresh(order)
        IN  /\ key = fresh.key /\ lru_flag = fresh.lru_flag /\ chain = fresh.chain
            /\ lru_next = fresh.lru_next /\ lru_prev = fresh.lru_prev
  BY DEF Anew
<1>2. /\ key = [n \in Nodes |-> NoKey] /\ lru_flag = [n \in Nodes |-> FALSE]
      /\ chain = [b \in Buckets |-> <<>>]
  BY <1>1 DEF Fresh
<1>3. /\ Distinct(order, Nodes) /\ Range(order) = Nodes
      /\ IsWhole(POOL_HEAD, order, POOL_TAIL, lru_next, lru_prev)
      /\ IsWhole(LRU_HEAD, <<>>, LRU_TAIL, lru_next, lru_prev)
      /\ lru_next \in [Base -> Base \cup {NULL}] /\ lru_prev \in [Base -> Base \cup {NULL}]
  BY <1>1, FreshLists
<1>4. /\ LRU_HEAD \in Heads /\ POOL_HEAD \in Heads /\ Heads = {LRU_HEAD, POOL_HEAD}
      /\ TailOf(LRU_HEAD) = LRU_TAIL /\ TailOf(POOL_HEAD) = POOL_TAIL
  BY Pointers DEF Heads, TailOf
<1>5. Distinct(<<>>, Nodes) /\ Range(<<>>) = {}
  BY DEF Distinct, IsInjective, Range
<1>6. Listed(POOL_HEAD) = order /\ Listed(LRU_HEAD) = <<>>
  BY <1>3, <1>4, <1>5, ListedIs DEF Listed
<1>7. Members(POOL_HEAD) = Nodes /\ Members(LRU_HEAD) = {}
  BY <1>3, <1>5, <1>6 DEF Members
<1>8. ListsOK
  BY <1>3, <1>4, <1>5, <1>6, <1>7 DEF ListsOK
<1>9. Types
  <2>1. key \in [Nodes -> Keys \cup {NoKey}] /\ lru_flag \in [Nodes -> BOOLEAN]
    BY <1>2
  <2>2. chain \in [Buckets -> Seq(Nodes)]
    BY <1>2
  <2>3. /\ lock \in [Base -> Threads \cup {NULL}] /\ pc \in [Threads -> PCs]
        /\ op \in [Threads -> Calls]
    BY DEF Anew, PCs, Calls
  <2>. QED
    BY <1>3, <2>1, <2>2, <2>3 DEF Types, Anew
<1>10. EachNodeOnce
  BY <1>7 DEF EachNodeOnce, InHand, Anew
<1>11. FlagsOK
  BY <1>2, <1>7 DEF FlagsOK
<1>12. ChainsOK
  <2>1. \A b \in Buckets : IsInjective(chain[b]) /\ Range(chain[b]) = {}
    BY <1>2, <1>5 DEF Distinct
  <2>. QED
    BY <1>7, <2>1 DEF ChainsOK
<1>13. ASSUME NEW t \in Threads PROVE ThreadOK(t)
  <2>1. pc[t] = "idle" /\ op[t] = "find" /\ \A n \in Base : lock[n] # t
    BY ThreadAssumption DEF Anew
  <2>2. LocksOK(t)
    BY <2>1 DEF LocksOK, AtNode, InHand, AtPrev, Unnext
  <2>3. CallOK(t) /\ LocalsOK(t) /\ NeighboursOK(t)
    BY <2>1 DEF CallOK, LocalsOK, NeighboursOK, Evicting, Appending
  <2>. QED
    BY <2>2, <2>3 DEF ThreadOK
<1>. QED
  BY <1>8, <1>9, <1>10, <1>11, <1>12, <1>13 DEF IInv

(* So is a new cache, ...                                                  *)
LEMMA InitIsAnew == Init => Anew
<1>1. Init => /\ bucket_lock \in [Buckets -> Threads \cup {NULL}]
              /\ arg \in [Threads -> Keys \cup {NoKey}]
              /\ node \in [Threads -> Nodes \cup {NULL}]
              /\ prev \in [Threads -> Base \cup {NULL}]
  BY DEF Init
<1>. QED
  BY <1>1 DEF Init, Anew

(* ... and one whose nodes have been released and allocated again.         *)
LEMMA ReallocateIsAnew ==
  ASSUME IInv, Reallocate
  PROVE  Anew'
<1>1. Types /\ \A t \in Threads : pc[t] = "idle" /\ op[t] = "find" /\ LocksOK(t)
  BY DEF IInv, ThreadOK, CallOK, Reallocate
<1>2. \A t \in Threads, n \in Base : lock[n] # t
  BY <1>1 DEF LocksOK, Mine, AtNode, InHand, AtPrev, Unnext
<1>3. lock = [n \in Base |-> NULL]
  BY <1>1, <1>2 DEF Types
<1>4. pc = [t \in Threads |-> "idle"] /\ op = [t \in Threads |-> "find"]
  BY <1>1 DEF Types
<1>5. UNCHANGED <<lock, bucket_lock, pc, op, arg, node, prev>>
  BY DEF Reallocate, call
<1>. QED
  BY <1>1, <1>3, <1>4, <1>5 DEF Reallocate, Anew, Types

(* Every step of the system keeps the invariant.                           *)
LEMMA NextKeepsIInv ==
  ASSUME IInv, [Next]_vars
  PROVE  IInv'
<1>1. CASE UNCHANGED vars
  <2>1. UNCHANGED <<key, lru_flag, lru_next, lru_prev, lock, chain, bucket_lock, pc, op, arg, node, prev>>
    BY <1>1 DEF vars, items, links, table, call
  <2>. QED
    BY <2>1 DEF IInv, Types, ListsOK, Listed, Members, EachNodeOnce, FlagsOK, ChainsOK,
                Unchained, FromPool, ThreadOK, CallOK, LocalsOK, LocksOK, Mine, NeighboursOK
<1>2. CASE Next
  <2>1. ASSUME NEW t \in Threads, Step(t) PROVE IInv'
    BY <2>1, StepKeepsIInv
  <2>2. ASSUME NEW t \in Threads, Call(t) PROVE IInv'
    BY <2>2, CallKeepsIInv DEF Call
  <2>3. CASE Reallocate
    <3>1. Anew'
      BY <2>3, ReallocateIsAnew
    <3>2. Anew' => IInv'
      BY AnewIInv, PTL
    <3>. QED
      BY <3>1, <3>2
  <2>. QED
    BY <1>2, <2>1, <2>2, <2>3 DEF Next
<1>. QED
  BY <1>1, <1>2

(* It holds in every state of the cache, for any constants; the theorems   *)
(* below state what follows from it.                                       *)
THEOREM SpecIInv == Spec => []IInv
<1>1. Init => IInv
  BY InitIsAnew, AnewIInv
<1>2. IInv /\ [Next]_vars => IInv'
  BY NextKeepsIInv
<1>. QED
  BY <1>1, <1>2, PTL DEF Spec

-----------------------------------------------------------------------------
(* What the invariant says in the words of the properties.                 *)
LEMMA IInvTypeOK == IInv => TypeOK
<1>. SUFFICES ASSUME IInv PROVE TypeOK
  OBVIOUS
<1>1. ASSUME NEW t \in Threads
      PROVE  /\ pc[t] \in AtNode \cup InHand => lock[node[t]] = t
             /\ pc[t] \in AtPrev => lock[prev[t]] = t
             /\ pc[t] = "idle" => \A n \in Base : lock[n] # t
  <2>1. LocksOK(t)
    BY DEF IInv, ThreadOK
  <2>. QED
    BY <2>1 DEF LocksOK, Mine, AtNode, InHand, AtPrev, Unnext
<1>. QED
  BY <1>1 DEF IInv, Types, TypeOK

(* The node that is about to be taken out is between the locked ones.      *)
LEMMA IInvNeighboursStay == IInv => NeighboursStay
<1>. SUFFICES ASSUME IInv, NEW t \in Threads, pc[t] \in {"relock_both", "remove_next"}
              PROVE  lru_next[prev[t]] = node[t] /\ lru_prev[node[t]] = prev[t] /\ lru_flag[node[t]]
  BY DEF NeighboursStay
<1>1. lru_next[prev[t]] = node[t]
  BY DEF IInv, ThreadOK, NeighboursOK
<1>2. node[t] \in Members(LRU_HEAD) /\ lru_prev[node[t]] = prev[t]
  BY LockedNeighbours
<1>3. lru_flag[node[t]]
  BY <1>2 DEF IInv, FlagsOK
<1>. QED
  BY <1>1, <1>2, <1>3

(* Membership of a list, in the words of SequencesExt.                     *)
LEMMA ContainsIsMembers ==
  ASSUME IInv, NEW head \in Heads, NEW n
  PROVE  Contains(Listed(head), n) <=> n \in Members(head)
<1>1. DOMAIN Listed(head) = 1 .. Len(Listed(head))
  BY DEF IInv, ListsOK, Distinct
<1>. QED
  BY <1>1 DEF Contains, Members, Range

(* The lists are whole and every node is in one place.                     *)
LEMMA IInvListsAreWhole == IInv => ListsAreWhole
<1>. SUFFICES ASSUME IInv PROVE ListsAreWhole
  OBVIOUS
<1>. DEFINE whole(nodes) ==
              /\ Len(nodes) <= Capacity + 2
              /\ \A i \in 2 .. Len(nodes) :
                   lru_next[nodes[i - 1]] = nodes[i] /\ lru_prev[nodes[i]] = nodes[i - 1]
            holders(n) == {t \in Threads : pc[t] \in InHand /\ node[t] = n}
            lists(n) == {head \in Heads : Contains(Listed(head), n)}
<1>1. ASSUME NEW head \in Heads
      PROVE  whole(<<head>> \o Listed(head) \o <<TailOf(head)>>)
  <2>. DEFINE list == Listed(head)
              tail == TailOf(head)
              nodes == <<head>> \o list \o <<tail>>
  <2>1. Distinct(list, Nodes) /\ IsWhole(head, list, tail, lru_next, lru_prev)
    BY DEF IInv, ListsOK
  <2>2. list \in Seq(Nodes) /\ Len(list) \in Nat
    BY <2>1 DEF Distinct
  <2>3. Len(list) <= Capacity /\ Capacity \in Nat
    BY <2>1, DistinctFits, SizeAssumption, FS_CardinalityType DEF Capacity
  <2>. HIDE DEF list, tail
  <2>4. /\ Len(nodes) = Len(list) + 2
        /\ \A i \in 0 .. Len(list) + 1 : nodes[i + 1] = Spot(head, list, tail, i)
    BY <2>2 DEF Spot
  <2>. HIDE DEF nodes
  <2>5. ASSUME NEW i \in 2 .. Len(nodes)
        PROVE  lru_next[nodes[i - 1]] = nodes[i] /\ lru_prev[nodes[i]] = nodes[i - 1]
    <3>1. i - 2 \in 0 .. Len(list) /\ i - 1 \in 0 .. Len(list) + 1 /\ i - 2 \in 0 .. Len(list) + 1
      BY <2>2, <2>4
    <3>2. nodes[i - 1 + 1] = Spot(head, list, tail, i - 1) /\ i - 1 + 1 = i
      BY <2>4, <3>1
    <3>3. nodes[i - 2 + 1] = Spot(head, list, tail, i - 2) /\ i - 2 + 1 = i - 1
      BY <2>4, <3>1
    <3>4. /\ lru_next[Spot(head, list, tail, i - 2)] = Spot(head, list, tail, i - 2 + 1)
          /\ lru_prev[Spot(head, list, tail, i - 2 + 1)] = Spot(head, list, tail, i - 2)
      BY <2>1, <3>1 DEF IsWhole
    <3>. QED
      BY <3>2, <3>3, <3>4
  <2>6. Len(nodes) <= Capacity + 2
    BY <2>2, <2>3, <2>4
  <2>. QED
    BY <2>5, <2>6 DEF nodes, list, tail
<1>2. ASSUME NEW n \in Nodes
      PROVE  Cardinality(lists(n)) + Cardinality(holders(n)) = 1
  <2>1. lists(n) = {head \in Heads : n \in Members(head)}
    BY ContainsIsMembers
  <2>2. \A x : Cardinality({x}) = 1
    BY FS_Singleton
  <2>3. Cardinality({}) = 0
    BY FS_EmptySet
  <2>4. CASE n \in Members(LRU_HEAD) \cup Members(POOL_HEAD)
    <3>1. holders(n) = {}
      BY <2>4 DEF IInv, EachNodeOnce
    <3>2. lists(n) = {LRU_HEAD} \/ lists(n) = {POOL_HEAD}
      BY <2>1, <2>4 DEF Heads, IInv, ListsOK
    <3>. HIDE DEF lists, holders
    <3>3. Cardinality(lists(n)) = 1 /\ Cardinality(holders(n)) = 0
      BY <2>2, <2>3, <3>1, <3>2, Zenon
    <3>. QED
      BY <3>3
  <2>5. CASE n \notin Members(LRU_HEAD) \cup Members(POOL_HEAD)
    <3>1. lists(n) = {}
      BY <2>1, <2>5 DEF Heads
    <3>2. PICK t \in Threads : pc[t] \in InHand /\ node[t] = n
      BY <2>5 DEF IInv, EachNodeOnce
    <3>3. holders(n) = {t}
      BY <3>2, InHandIsOwn
    <3>4. Cardinality(lists(n)) = 0
      BY <2>3, <3>1
    <3>5. Cardinality(holders(n)) = 1
      BY <2>2, <3>3
    <3>. HIDE DEF lists, holders
    <3>. QED
      BY <3>4, <3>5
  <2>. QED
    BY <2>4, <2>5
<1>. HIDE DEF whole
<1>3. \A head \in Heads :
        whole(<<head>> \o [h \in Heads |-> Listed(h)][head] \o <<TailOf(head)>>)
  BY <1>1
<1>4. \A n \in Nodes :
        Cardinality({head \in Heads : Contains([h \in Heads |-> Listed(h)][head], n)})
          + Cardinality(holders(n)) = 1
  <2>1. \A n \in Nodes :
          {head \in Heads : Contains([h \in Heads |-> Listed(h)][head], n)} = lists(n)
    OBVIOUS
  <2>. HIDE DEF lists, holders
  <2>. QED
    BY <1>2, <2>1
<1>. QED
  BY <1>3, <1>4 DEF ListsAreWhole, whole

(* A node that nobody has locked is in the list and the chain of its flag. *)
LEMMA IInvUnlockedIsCoherent == IInv => UnlockedIsCoherent
<1>. SUFFICES ASSUME IInv, NEW n \in Nodes, lock[n] = NULL
              PROVE  IF ~lru_flag[n]
                     THEN Contains(Listed(POOL_HEAD), n) /\ n \notin Cached
                     ELSE /\ Contains(LruOrder, n)
                          /\ \A b \in Buckets :
                               Cardinality({i \in DOMAIN chain[b] : chain[b][i] = n})
                                 = IF b = whichBucket(key[n]) THEN 1 ELSE 0
  BY DEF UnlockedIsCoherent
<1>1. \A t \in Threads : pc[t] \in AtNode \cup InHand => node[t] # n
  BY ThreadAssumption DEF IInv, ThreadOK, LocksOK
<1>2. n \in Members(LRU_HEAD) \cup Members(POOL_HEAD)
  BY <1>1 DEF IInv, EachNodeOnce
<1>3. \A t \in Threads : Unchained(t) => node[t] # n
  BY <1>1 DEF Unchained, FromPool, AtNode, InHand, Appending
<1>4. \A b \in Buckets :
        n \in Range(chain[b]) <=> b = whichBucket(key[n]) /\ n \notin Members(POOL_HEAD)
  BY <1>3 DEF IInv, ChainsOK
<1>5. LRU_HEAD \in Heads /\ POOL_HEAD \in Heads
  BY DEF Heads
<1>6. CASE ~lru_flag[n]
  <2>1. n \in Members(POOL_HEAD)
    BY <1>2, <1>6 DEF IInv, FlagsOK
  <2>2. n \notin Cached
    BY <1>4, <2>1 DEF Cached
  <2>. QED
    BY <1>5, <1>6, <2>1, <2>2, ContainsIsMembers
<1>7. CASE lru_flag[n]
  <2>1. n \in Members(LRU_HEAD) /\ n \notin Members(POOL_HEAD)
    BY <1>2, <1>7 DEF IInv, FlagsOK
  <2>2. ASSUME NEW b \in Buckets
        PROVE  Cardinality({i \in DOMAIN chain[b] : chain[b][i] = n})
                 = IF b = whichBucket(key[n]) THEN 1 ELSE 0
    <3>1. IsInjective(chain[b])
      BY DEF IInv, ChainsOK
    <3>2. CASE b = whichBucket(key[n])
      <4>1. n \in Range(chain[b])
        BY <1>4, <2>1, <3>2
      <4>2. PICK j \in DOMAIN chain[b] : chain[b][j] = n
        BY <4>1 DEF Range
      <4>3. {i \in DOMAIN chain[b] : chain[b][i] = n} = {j}
        BY <3>1, <4>2 DEF IsInjective
      <4>. QED
        BY <3>2, <4>3, FS_Singleton
    <3>3. CASE b # whichBucket(key[n])
      <4>1. n \notin Range(chain[b])
        BY <1>4, <3>3
      <4>2. {i \in DOMAIN chain[b] : chain[b][i] = n} = {}
        BY <4>1 DEF Range
      <4>. QED
        BY <3>3, <4>2, FS_EmptySet
    <3>. QED
      BY <3>2, <3>3
  <2>3. Contains(LruOrder, n)
    BY <1>5, <2>1, ContainsIsMembers DEF LruOrder
  <2>. QED
    BY <1>7, <2>2, <2>3
<1>. QED
  BY <1>6, <1>7

(* What a step does to the order of use.                                   *)
LEMMA NextKeepsOrder ==
  ASSUME IInv, Next
  PROVE  LET old == LruOrder
             new == LruOrder'
         IN  \/ new = old
             \/ \E n \in Nodes : new = Append(old, n) /\ ~Contains(old, n)
             \/ \E t \in Threads, i \in DOMAIN old :
                  /\ new = RemoveAt(old, i)
                  /\ node[t] = old[i] /\ (op[t] = "insert" => i = 1)
             \/ \A t \in Threads : pc[t] = "idle"
<1>1. LRU_HEAD \in Heads /\ POOL_HEAD \in Heads /\ OtherHead(POOL_HEAD) = LRU_HEAD
  BY DEF Heads, OtherHead
<1>2. ASSUME NEW t \in Threads, Call(t) PROVE LruOrder' = LruOrder
  <2>1. UNCHANGED links
    BY <1>2 DEF Call, CallInsert, CallFind
  <2>. QED
    BY <1>1, <2>1, SameLists DEF LruOrder
<1>3. ASSUME NEW t \in Threads, KeepsLists(t) PROVE LruOrder' = LruOrder
  BY <1>1, <1>3 DEF KeepsLists, LruOrder
<1>4. ASSUME NEW t \in Threads, TakesOut(t)
      PROVE  \/ LruOrder' = LruOrder
             \/ \E i \in DOMAIN LruOrder :
                  /\ LruOrder' = RemoveAt(LruOrder, i)
                  /\ node[t] = LruOrder[i] /\ (op[t] = "insert" => i = 1)
  BY <1>1, <1>4 DEF TakesOut, LruOrder, Heads
<1>5. ASSUME NEW t \in Threads, PutsBack(t)
      PROVE  \E n \in Nodes : LruOrder' = Append(LruOrder, n) /\ ~Contains(LruOrder, n)
  <2>1. node[t] \in Nodes /\ node[t] \notin Members(LRU_HEAD)
    BY <1>5, InHandIsOwn DEF PutsBack
  <2>2. ~Contains(LruOrder, node[t])
    BY <1>1, <2>1, ContainsIsMembers DEF LruOrder
  <2>. QED
    BY <1>5, <2>1, <2>2 DEF PutsBack, LruOrder
<1>6. CASE Reallocate
  BY <1>6 DEF Reallocate
<1>7. ASSUME NEW t \in Threads, Step(t) PROVE KeepsLists(t) \/ TakesOut(t) \/ PutsBack(t)
  BY <1>7, StepLists
<1>. QED
  BY <1>2, <1>3, <1>4, <1>5, <1>6, <1>7 DEF Next

(* A lookup that finds the data of its node valid, under the lock of that  *)
(* node, is the only one to go on from there, and by then nobody else has  *)
(* the node.                                                               *)
LEMMA NextHitIsCached ==
  ASSUME IInv, Next, NEW t \in Threads, pc[t] = "lock_found", pc'[t] = "remove_try"
  PROVE  /\ key[node[t]] = arg[t]
         /\ Contains(chain[whichBucket(arg[t])], node[t])
         /\ Contains(LruOrder, node[t])
<1>. DEFINE n == node[t]
<1>. USE DEF Goto
<1>1. ASSUME NEW u \in Threads, Step(u), u # t PROVE FALSE
  <2>1. Touches(u)
    BY <1>1, StepTouches DEF IInv, ThreadOK
  <2>. QED
    BY <1>1, <2>1 DEF Touches
<1>2. ASSUME NEW u \in Threads, Call(u) PROVE FALSE
  BY <1>2 DEF Call, CallInsert, CallFind, IInv, Types
<1>3. ~Reallocate
  BY DEF Reallocate
<1>4. Step(t)
  BY <1>1, <1>2, <1>3 DEF Next
<1>5. ~lruRemoveNode(t) /\ ~lruInsertLast(t) /\ ~FindFails(t) /\ ~FindDone(t)
  BY DEF lruRemoveNode, RemoveTry, RemoveTryFails, GiveWay, LockPrev, RelockBoth,
         LeavePrev, Relock, RemoveNext, RemoveUnnext, lruInsertLast, TailRead, TailPrev,
         TailRetry, TailLock, FindFails, FindDone, Return
<1>6. ~Insert(t)
  BY DEF Insert, EvictNone, EvictHead, EvictNode, EvictNext, EvictFromPool, EvictFromLru,
         HtRemoveFirst, HtRemove, HtUnprev, htInsert, Return
<1>7. LockFound(t)
  BY <1>4, <1>5, <1>6 DEF Step, Find
<1>8. lock[n] = NULL /\ dataIsValidForKey(n, arg[t])
  BY <1>7 DEF LockFound, Lock, IInv, Types
<1>9. n \in Nodes
  BY DEF IInv, ThreadOK, LocalsOK
<1>10. key[n] = arg[t] /\ lru_flag[n]
  BY <1>8 DEF dataIsValidForKey
<1>. HIDE DEF n
<1>11. Contains(LruOrder, n)
  BY <1>8, <1>9, <1>10, IInvUnlockedIsCoherent DEF UnlockedIsCoherent
<1>12. \A u \in Threads : pc[u] \in AtNode \cup InHand => node[u] # n
  BY <1>8, ThreadAssumption DEF IInv, ThreadOK, LocksOK
<1>13. \A u \in Threads : ~(Unchained(u) /\ node[u] = n) /\ ~(FromPool(u) /\ node[u] = n)
  BY <1>12 DEF Unchained, FromPool, AtNode, InHand, Appending
<1>14. n \notin Members(POOL_HEAD)
  BY <1>9, <1>10 DEF IInv, FlagsOK
<1>15. key[n] \in Keys
  BY <1>9, <1>13, <1>14 DEF IInv, ChainsOK
<1>16. whichBucket(key[n]) \in Buckets
  BY <1>15, BucketInRange
<1>17. n \in Range(chain[whichBucket(key[n])])
  BY <1>9, <1>13, <1>14, <1>16 DEF IInv, ChainsOK
<1>18. Contains(chain[whichBucket(key[n])], n)
  BY <1>16, <1>17 DEF IInv, Types, Contains, Range
<1>. QED
  BY <1>10, <1>11, <1>18 DEF n

-----------------------------------------------------------------------------
(* Every variable holds what its type allows, a thread past a lock has it, *)
(* and a thread that has returned has none: no path of a call leaves a     *)
(* node locked.                                                            *)
THEOREM SpecTypeOK == Spec => []TypeOK
BY SpecIInv, IInvTypeOK, PTL

(* The LRU list and the pool are whole in both directions at every moment, *)
(* and every node is in exactly one of them or in the hands of exactly one *)
(* thread (listEvictNext, listInsertBefore, lruRemoveNode), for any number *)
(* of threads and of nodes.                                                *)
THEOREM SpecListsAreWhole == Spec => []ListsAreWhole
BY SpecIInv, IInvListsAreWhole, PTL

(* What assertIsCoherent says of the cache at rest is true at any moment   *)
(* of every node that nobody has locked.                                   *)
THEOREM SpecUnlockedIsCoherent == Spec => []UnlockedIsCoherent
BY SpecIInv, IInvUnlockedIsCoherent, PTL

(* A lookup that gave way and locked both nodes again takes its node out   *)
(* of the place where it is: lruRemoveNode does not check that twice.      *)
THEOREM SpecNeighboursStay == Spec => []NeighboursStay
BY SpecIInv, IInvNeighboursStay, PTL

(* What a lookup copies is a value of the key it was asked for, from a     *)
(* node that is in the cache at that moment: however often the node was    *)
(* evicted and filled anew since the lookup found it, the check under its  *)
(* lock is enough.                                                         *)
THEOREM SpecHitIsCached == Spec => HitIsCached
<1>. DEFINE CopiesCached ==
              \A t \in Threads :
                pc[t] = "lock_found" /\ pc'[t] = "remove_try" =>
                  /\ key[node[t]] = arg[t]
                  /\ Contains(chain[whichBucket(arg[t])], node[t])
                  /\ Contains(LruOrder, node[t])
<1>1. IInv /\ [Next]_vars => [CopiesCached]_vars
  BY NextHitIsCached
<1>. HIDE DEF CopiesCached
<1>2. Spec => [][CopiesCached]_vars
  BY <1>1, SpecIInv, PTL DEF Spec
<1>. QED
  BY <1>2 DEF HitIsCached, CopiesCached

(* The order of use is kept: a node leaves the list alone, comes back at   *)
(* its tail, and an eviction takes the first.                              *)
THEOREM SpecOrderOfUse == Spec => OrderOfUse
<1>. DEFINE Orderly ==
              LET old == LruOrder
                  new == LruOrder'
              IN  \/ new = old
                  \/ \E n \in Nodes : new = Append(old, n) /\ ~Contains(old, n)
                  \/ \E t \in Threads, i \in DOMAIN old :
                       /\ new = RemoveAt(old, i)
                       /\ node[t] = old[i] /\ (op[t] = "insert" => i = 1)
                  \/ \A t \in Threads : pc[t] = "idle"
<1>1. IInv /\ [Next]_vars => [Orderly]_vars
  BY NextKeepsOrder
<1>. HIDE DEF Orderly
<1>2. Spec => [][Orderly]_vars
  BY <1>1, SpecIInv, PTL DEF Spec
<1>. QED
  BY <1>2 DEF OrderOfUse, Orderly
=============================================================================
