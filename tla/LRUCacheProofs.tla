--------------------------- MODULE LRUCacheProofs ---------------------------
(***************************************************************************)
(* What the operations of LRUCache do to a cache whose lists are whole,    *)
(* for any capacity, any hash and any keys.                                *)
(*                                                                         *)
(* Whole says what the links stand for: the list of the items in the order *)
(* of their use, the empty nodes, and a chain for every bucket.  The list  *)
(* is seen as a ring through None, with the head of the cache as what is   *)
(* behind None and the tail as what is before it; a chain leads from the   *)
(* number that the code stores for its bucket, -b - 1, to None.            *)
(***************************************************************************)
EXTENDS LRUCache, LinkedListProofs

Forward(c) == [i \in Indices(c) \cup {None} |-> IF i = None THEN c.head ELSE c.list_next[i]]
Backward(c) == [i \in Indices(c) \cup {None} |-> IF i = None THEN c.tail ELSE c.list_prev[i]]

Mark(b) == -b - 1
Down(c, b) ==
  [i \in Indices(c) \cup {Mark(b)} |-> IF i = Mark(b) THEN c.bucket[b] ELSE c.bucket_next[i]]
Up(c, last) == [i \in Indices(c) \cup {None} |-> IF i = None THEN last ELSE c.bucket_prev[i]]

Links(c) == Indices(c) \cup {None}

Attributes ==
  {"memory", "max", "count", "bucket_count", "head", "tail", "empty", "key", "bucket",
   "list_next", "list_prev", "bucket_next", "bucket_prev"}

Typed(c) ==
  /\ DOMAIN c = Attributes /\ c.memory = "allocated"
  /\ c.max \in Nat \ {0} /\ c.count \in Nat /\ c.bucket_count \in 0 .. c.max
  /\ c.head \in Links(c) /\ c.tail \in Links(c) /\ c.empty \in Links(c)
  /\ c.key \in [Indices(c) -> Keys \cup {NoKey}]
  /\ c.bucket \in [Buckets(c) -> Links(c)]
  /\ c.list_next \in [Indices(c) -> Links(c)]
  /\ c.list_prev \in [Indices(c) -> Links(c) \cup {Garbage}]
  /\ c.bucket_next \in [Indices(c) -> Links(c) \cup {Garbage}]
  /\ c.bucket_prev \in [Indices(c) -> Int \cup {Garbage}]

\* The items in the order of their use, and those left over.
ListWhole(c, list) ==
  /\ Distinct(list, Indices(c)) /\ c.count = Len(list)
  /\ IsWhole(None, list, None, Forward(c), Backward(c))
  /\ \A i \in Range(list) : c.key[i] \in Keys

EmptyWhole(c, list, empty) ==
  /\ Distinct(empty, Indices(c)) /\ Leads(empty, c.empty, c.list_next, None)
  /\ Range(empty) = Indices(c) \ Range(list)

ItemsOf(c, list, b) == {i \in Range(list) : whichBucket(c, c.key[i]) = b}

ChainWhole(c, list, chain, b) ==
  /\ Distinct(chain, Indices(c)) /\ Range(chain) = ItemsOf(c, list, b)
  /\ \E last : IsWhole(Mark(b), chain, None, Down(c, b), Up(c, last))

\* Of two items with the same key the one used later is first in its chain.
LatestFirst(c, list, chain) ==
  \A i, j \in Range(list) : c.key[i] = c.key[j] => ~(Before(list, i, j) /\ Before(chain, i, j))

Whole(c, list, empty, chains) ==
  /\ ListWhole(c, list) /\ EmptyWhole(c, list, empty)
  /\ \A b \in Buckets(c) : /\ ChainWhole(c, list, chains[b], b)
                           /\ LatestFirst(c, list, chains[b])

(* The fields after each of the steps that the operations are made of.     *)
LEMMA MoveFields ==
  ASSUME NEW c, Typed(c), NEW i \in Indices(c), i # c.tail, c.tail # None,
         NEW p \in Links(c), NEW n \in Indices(c),
         c.list_prev[i] = p, c.list_next[i] = n, p # i, n # i
  PROVE  LET d == moveToTail(c, i)
         IN  /\ Typed(d)
             /\ d.head = (IF p = None THEN n ELSE c.head) /\ d.tail = i
             /\ d.list_next = Store(Store(Store(c.list_next, p, n), i, None), c.tail, i)
             /\ d.list_prev = Store(Store(c.list_prev, n, p), i, c.tail)
             /\ d.max = c.max /\ d.count = c.count /\ d.bucket_count = c.bucket_count
             /\ d.empty = c.empty /\ d.key = c.key /\ d.bucket = c.bucket
             /\ d.bucket_next = c.bucket_next /\ d.bucket_prev = c.bucket_prev
<1>. DEFINE d == moveToTail(c, i)
<1>1. d = [c EXCEPT !.head = IF p = None THEN n ELSE @,
                    !.list_next = Store(Store(Store(@, p, n), i, None), c.tail, i),
                    !.list_prev = Store(Store(@, n, p), i, c.tail),
                    !.tail = i]
  BY DEF moveToTail
<1>2. /\ d.head = (IF p = None THEN n ELSE c.head) /\ d.tail = i
      /\ d.list_next = Store(Store(Store(c.list_next, p, n), i, None), c.tail, i)
      /\ d.list_prev = Store(Store(c.list_prev, n, p), i, c.tail)
      /\ d.max = c.max /\ d.count = c.count /\ d.bucket_count = c.bucket_count
      /\ d.empty = c.empty /\ d.key = c.key /\ d.bucket = c.bucket
      /\ d.bucket_next = c.bucket_next /\ d.bucket_prev = c.bucket_prev
      /\ DOMAIN d = Attributes /\ d.memory = "allocated"
  BY <1>1 DEF Typed, Attributes
<1>. HIDE DEF d
<1>3. d.list_next \in [Indices(c) -> Links(c)]
  BY <1>2 DEF Typed, Links, Store
<1>4. d.list_prev \in [Indices(c) -> Links(c) \cup {Garbage}]
  BY <1>2 DEF Typed, Links, Store
<1>5. Indices(d) = Indices(c) /\ Links(d) = Links(c) /\ Buckets(d) = Buckets(c)
  BY <1>2 DEF Indices, Links, Buckets
<1>6. Typed(d)
  BY <1>2, <1>3, <1>4, <1>5 DEF Typed, Links
<1>. QED
  BY <1>2, <1>6 DEF d

-----------------------------------------------------------------------------
(* Facts about indices.                                                    *)
LEMMA IndexFacts ==
  ASSUME NEW c, Typed(c)
  PROVE  /\ IsFiniteSet(Indices(c)) /\ Cardinality(Indices(c)) = c.max
         /\ None \notin Indices(c) /\ Garbage \notin Links(c) /\ Links(c) \subseteq Int
         /\ \A b \in Buckets(c) : Mark(b) \notin Indices(c)
<1>1. c.max \in Nat \ {0} /\ c.bucket_count \in 0 .. c.max
  BY DEF Typed
<1>2. /\ IsFiniteSet(Indices(c))
      /\ Cardinality(Indices(c)) = IF 0 > c.max - 1 THEN 0 ELSE c.max - 1 - 0 + 1
  <2>1. 0 \in Int /\ c.max - 1 \in Int
    BY <1>1
  <2>. QED
    BY <2>1, FS_Interval, Zenon DEF Indices
<1>3. Cardinality(Indices(c)) = c.max
  BY <1>1, <1>2
<1>. QED
  BY <1>1, <1>2, <1>3, GarbageAssumption DEF Indices, None, Links, Mark, Buckets

(* The ends of the ring and the links of an item.                          *)
LEMMA RingFacts ==
  ASSUME NEW c, Typed(c), NEW list, ListWhole(c, list)
  PROVE  /\ c.head = (IF list = <<>> THEN None ELSE list[1])
         /\ c.tail = (IF list = <<>> THEN None ELSE list[Len(list)])
         /\ Range(list) \subseteq Indices(c)
         /\ \A i \in Range(list) :
              /\ c.list_next[i] \in Range(list) \cup {None} /\ c.list_next[i] # i
              /\ c.list_prev[i] \in Range(list) \cup {None} /\ c.list_prev[i] # i
              /\ c.list_next[i] = None <=> i = c.tail
              /\ c.list_prev[i] = None <=> i = c.head
<1>1. None \notin Indices(c)
  BY IndexFacts
<1>2. /\ Distinct(list, Indices(c)) /\ list \in Seq(Indices(c)) /\ Len(list) \in Nat
      /\ IsWhole(None, list, None, Forward(c), Backward(c))
  BY DEF ListWhole, Distinct
<1>3. Forward(c)[None] = c.head /\ Backward(c)[None] = c.tail
  BY DEF Forward, Backward
<1>4. Forward(c)[None] = Spot(None, list, None, 1)
      /\ Backward(c)[None] = Spot(None, list, None, Len(list))
  <2>1. Spot(None, list, None, 0) = None /\ Spot(None, list, None, Len(list) + 1) = None
    BY <1>2 DEF Spot
  <2>2. /\ Forward(c)[Spot(None, list, None, 0)] = Spot(None, list, None, 0 + 1)
        /\ Backward(c)[Spot(None, list, None, Len(list) + 1)] = Spot(None, list, None, Len(list))
    BY <1>2 DEF IsWhole
  <2>. QED
    BY <2>1, <2>2
<1>5. /\ Spot(None, list, None, 1) = (IF list = <<>> THEN None ELSE list[1])
      /\ Spot(None, list, None, Len(list)) = (IF list = <<>> THEN None ELSE list[Len(list)])
  BY <1>2 DEF Spot
<1>6. /\ \A x \in Range(list) \cup {None} :
           Forward(c)[x] \in Range(list) \cup {None} /\ Backward(c)[Forward(c)[x]] = x
      /\ \A x \in Range(list) \cup {None} :
           Backward(c)[x] \in Range(list) \cup {None} /\ Forward(c)[Backward(c)[x]] = x
      /\ \A x \in Range(list) : Forward(c)[x] # x /\ Backward(c)[x] # x
      /\ Range(list) \subseteq Indices(c)
  BY <1>1, <1>2, WholeLinks
<1>7. \A i \in Range(list) : Forward(c)[i] = c.list_next[i] /\ Backward(c)[i] = c.list_prev[i]
  BY <1>1, <1>6 DEF Forward, Backward
<1>. QED
  BY <1>3, <1>4, <1>5, <1>6, <1>7

(* An item that is not the last is taken out of the ring and put last.     *)
LEMMA MoveRing ==
  ASSUME NEW c, Typed(c), NEW list, ListWhole(c, list), NEW j \in 1 .. Len(list),
         list[j] # c.tail
  PROVE  LET d == moveToTail(c, list[j])
             list2 == Append(RemoveAt(list, j), list[j])
         IN  /\ Typed(d) /\ Distinct(list2, Indices(c)) /\ Range(list2) = Range(list)
             /\ IsWhole(None, list2, None, Forward(d), Backward(d))
             /\ Len(list2) = Len(list)
             /\ d.max = c.max /\ d.count = c.count /\ d.bucket_count = c.bucket_count
             /\ d.empty = c.empty /\ d.key = c.key /\ d.bucket = c.bucket
             /\ d.bucket_next = c.bucket_next /\ d.bucket_prev = c.bucket_prev
             /\ \A x \in Indices(c) \ Range(list) : d.list_next[x] = c.list_next[x]
<1>1. /\ None \notin Indices(c) /\ Distinct(list, Indices(c)) /\ list \in Seq(Indices(c))
      /\ IsWhole(None, list, None, Forward(c), Backward(c))
  BY IndexFacts DEF ListWhole, Distinct
<1>2. PICK i \in Range(list) : i = list[j]
  BY <1>1 DEF Range
<1>3. PICK p \in Range(list) \cup {None} : p = c.list_prev[i] /\ p # i
  BY RingFacts
<1>4. PICK n \in Range(list) : n = c.list_next[i] /\ n # i
  BY <1>2, RingFacts
<1>5. PICK t \in Range(list) : t = c.tail /\ t # i
  BY <1>1, <1>2, RingFacts DEF Range
<1>6. Range(list) \subseteq Indices(c) /\ Range(list) \cup {None} \subseteq Links(c)
  BY RingFacts DEF Links
<1>. DEFINE d == moveToTail(c, i)
<1>7. /\ Typed(d)
      /\ d.head = (IF p = None THEN n ELSE c.head) /\ d.tail = i
      /\ d.list_next = Store(Store(Store(c.list_next, p, n), i, None), c.tail, i)
      /\ d.list_prev = Store(Store(c.list_prev, n, p), i, c.tail)
      /\ d.max = c.max /\ d.count = c.count /\ d.bucket_count = c.bucket_count
      /\ d.empty = c.empty /\ d.key = c.key /\ d.bucket = c.bucket
      /\ d.bucket_next = c.bucket_next /\ d.bucket_prev = c.bucket_prev
  BY <1>1, <1>3, <1>4, <1>5, <1>6, MoveFields
<1>. HIDE DEF d
<1>8. /\ \A x \in Indices(c) : d.list_next[x] = IF x = t THEN i ELSE IF x = i THEN None
                                                ELSE IF x = p THEN n ELSE c.list_next[x]
      /\ \A x \in Indices(c) : d.list_prev[x] = IF x = i THEN t ELSE IF x = n THEN p
                                                ELSE c.list_prev[x]
  BY <1>1, <1>3, <1>4, <1>5, <1>6, <1>7 DEF Store, Typed
<1>. DEFINE n1 == [Forward(c) EXCEPT ![p] = n]
            p1 == [Backward(c) EXCEPT ![n] = p]
            rest == RemoveAt(list, j)
<1>9. /\ Forward(c)[i] = n /\ Backward(c)[i] = p /\ Backward(c)[None] = t
      /\ p \in Indices(c) \cup {None} /\ n \in Indices(c) \cup {None}
  BY <1>1, <1>3, <1>4, <1>5, <1>6 DEF Forward, Backward
<1>10. /\ n1[p] = n /\ \A x \in Indices(c) \cup {None} : x # p => n1[x] = Forward(c)[x]
       /\ p1[n] = p /\ \A x \in Indices(c) \cup {None} : x # n => p1[x] = Backward(c)[x]
  BY <1>9 DEF Forward, Backward
<1>. HIDE DEF n1, p1
<1>11. IsWhole(None, rest, None, n1, p1)
  BY <1>1, <1>2, <1>9, <1>10, WholeRemove
<1>12. /\ Distinct(rest, Indices(c)) /\ Range(rest) = Range(list) \ {i}
       /\ Len(rest) = Len(list) - 1 /\ rest \in Seq(Indices(c))
  BY <1>1, <1>2, RemoveAtDistinct, RemoveAtIs
<1>. HIDE DEF rest
<1>13. p1[None] = t
  BY <1>1, <1>6, <1>9, <1>10
<1>14. Forward(d)[t] = i /\ Forward(d)[i] = None
       /\ \A x \in Indices(c) \cup {None} : x # t /\ x # i => Forward(d)[x] = n1[x]
  <2>1. \A x \in Indices(c) : Forward(d)[x] = d.list_next[x] /\ Forward(c)[x] = c.list_next[x]
    BY <1>1, <1>7 DEF Forward, Indices
  <2>2. Forward(d)[None] = d.head /\ Forward(c)[None] = c.head
    BY DEF Forward
  <2>. QED
    BY <1>1, <1>5, <1>6, <1>7, <1>8, <1>10, <2>1, <2>2
<1>15. Backward(d)[i] = t /\ Backward(d)[None] = i
       /\ \A x \in Indices(c) : x # i => Backward(d)[x] = p1[x]
  <2>1. \A x \in Indices(c) : Backward(d)[x] = d.list_prev[x] /\ Backward(c)[x] = c.list_prev[x]
    BY <1>1, <1>7 DEF Backward, Indices
  <2>2. Backward(d)[None] = d.tail
    BY DEF Backward
  <2>. QED
    BY <1>1, <1>6, <1>7, <1>8, <1>10, <2>1, <2>2
<1>16. /\ Distinct(Append(rest, i), Indices(c))
       /\ Range(Append(rest, i)) = Range(rest) \cup {i}
       /\ IsWhole(None, Append(rest, i), None, Forward(d), Backward(d))
  <2>1. i \in Indices(c) /\ i \notin Range(rest)
    BY <1>6, <1>12
  <2>. QED
    <3>1. LET last == p1[None]
          IN  /\ Forward(d)[last] = i /\ Forward(d)[i] = None
              /\ \A x \in Indices(c) \cup {None} : x # last /\ x # i => Forward(d)[x] = n1[x]
              /\ Backward(d)[i] = last /\ Backward(d)[None] = i
              /\ \A x \in Indices(c) : x # i => Backward(d)[x] = p1[x]
      BY <1>13, <1>14, <1>15, Zenon
    <3>. QED
      BY <1>1, <1>11, <1>12, <2>1, <3>1, WholeAppend
<1>17. Len(Append(rest, i)) = Len(list) /\ Range(Append(rest, i)) = Range(list)
  BY <1>12, <1>16
<1>18. \A x \in Indices(c) \ Range(list) : d.list_next[x] = c.list_next[x]
  BY <1>1, <1>3, <1>5, <1>8
<1>. QED
  BY <1>2, <1>7, <1>16, <1>17, <1>18 DEF d, rest

(* Chains of which nothing has changed.                                    *)
LEMMA ChainSame ==
  ASSUME NEW c, NEW d, NEW list, NEW list2, Range(list2) = Range(list), NEW chain, NEW b,
         ChainWhole(c, list, chain, b),
         d.max = c.max, d.bucket_count = c.bucket_count, d.key = c.key,
         d.bucket = c.bucket, d.bucket_next = c.bucket_next, d.bucket_prev = c.bucket_prev
  PROVE  ChainWhole(d, list2, chain, b)
<1>1. Indices(d) = Indices(c) /\ Down(d, b) = Down(c, b) /\ \A last : Up(d, last) = Up(c, last)
  BY DEF Indices, Down, Up
<1>2. ItemsOf(d, list2, b) = ItemsOf(c, list, b)
  BY DEF ItemsOf, whichBucket
<1>. QED
  BY <1>1, <1>2 DEF ChainWhole

(* A hit: the item found, the first with its key in its chain, is the last *)
(* one used from then on, and nothing else moves.                          *)
LEMMA MoveWhole ==
  ASSUME NEW c, Typed(c), NEW list, NEW empty, NEW chains, Whole(c, list, empty, chains),
         NEW j \in 1 .. Len(list),
         \A b \in Buckets(c) : \A i \in Range(list) :
           c.key[i] = c.key[list[j]] => ~Before(chains[b], i, list[j])
  PROVE  LET d == moveToTail(c, list[j])
         IN  /\ Typed(d) /\ Whole(d, Append(RemoveAt(list, j), list[j]), empty, chains)
             /\ d.max = c.max /\ d.key = c.key /\ d.bucket_count = c.bucket_count
             /\ d.count = c.count
<1>1. /\ ListWhole(c, list) /\ EmptyWhole(c, list, empty) /\ Distinct(list, Indices(c))
      /\ list \in Seq(Indices(c)) /\ list # <<>> /\ list[j] \in Range(list)
  BY DEF Whole, ListWhole, Distinct, Range
<1>2. CASE list[j] = c.tail
  <2>1. j = Len(list)
    BY <1>1, <1>2, RingFacts DEF Distinct, IsInjective
  <2>2. Append(RemoveAt(list, j), list[j]) = list
    BY <1>1, <2>1, LastStays
  <2>3. moveToTail(c, list[j]) = c
    BY <1>2 DEF moveToTail
  <2>. QED
    BY <2>2, <2>3
<1>3. CASE list[j] # c.tail
  <2>1. PICK d, list2 : d = moveToTail(c, list[j]) /\ list2 = Append(RemoveAt(list, j), list[j])
    OBVIOUS
  <2>2. /\ Typed(d) /\ Distinct(list2, Indices(c)) /\ Range(list2) = Range(list)
        /\ IsWhole(None, list2, None, Forward(d), Backward(d))
        /\ Len(list2) = Len(list)
        /\ d.max = c.max /\ d.count = c.count /\ d.bucket_count = c.bucket_count
        /\ d.empty = c.empty /\ d.key = c.key /\ d.bucket = c.bucket
        /\ d.bucket_next = c.bucket_next /\ d.bucket_prev = c.bucket_prev
        /\ \A x \in Indices(c) \ Range(list) : d.list_next[x] = c.list_next[x]
    BY <1>1, <1>3, <2>1, MoveRing
  <2>3. Indices(d) = Indices(c) /\ Buckets(d) = Buckets(c)
    BY <2>2 DEF Indices, Buckets
  <2>4. ListWhole(d, list2)
    BY <1>1, <2>2, <2>3 DEF ListWhole
  <2>5. EmptyWhole(d, list2, empty)
    BY <1>1, <2>2, <2>3, LeadsFrame DEF EmptyWhole, Distinct
  <2>6. ASSUME NEW b \in Buckets(c)
        PROVE  ChainWhole(d, list2, chains[b], b) /\ LatestFirst(d, list2, chains[b])
    <3>1. ChainWhole(d, list2, chains[b], b)
      BY <2>2, ChainSame DEF Whole
    <3>2. \A a, z : Before(list2, a, z) => Before(list, a, z) \/ z = list[j]
      BY <1>1, <2>1, RemoveAtIs, BeforeRemove, BeforeAppend
    <3>. QED
      BY <2>2, <3>1, <3>2 DEF Whole, LatestFirst
  <2>. QED
    BY <2>1, <2>2, <2>3, <2>4, <2>5, <2>6 DEF Whole
<1>. QED
  BY <1>2, <1>3

-----------------------------------------------------------------------------
(* An eviction takes the first of the list, v; n is the next of the list,  *)
(* b its bucket, and p and q stand before and behind it in its chain.      *)
Victim(c, list, chain, v, n, b, q, p) ==
  /\ v \in Range(list) /\ v = list[1] /\ v = c.head /\ c.list_prev[v] = None
  /\ n \in Range(list) /\ n = c.list_next[v] /\ n # v
  /\ v \in Indices(c) /\ n \in Indices(c)
  /\ b \in Buckets(c) /\ b = whichBucket(c, c.key[v]) /\ v \in Range(chain)
  /\ q = c.bucket_next[v] /\ q \in Links(c)
  /\ q = None \/ q \in Range(chain) \ {v}
  /\ p = c.bucket_prev[v] /\ p \in Indices(c) \cup {Mark(b)}
  /\ p = Mark(b) \/ p \in Range(chain) \ {v}

Evicted(c, d, v, n, q, p) ==
  /\ d.head = n /\ d.tail = c.tail /\ d.empty = v /\ d.count = c.count - 1
  /\ d.list_next = [c.list_next EXCEPT ![v] = c.empty]
  /\ d.list_prev = [c.list_prev EXCEPT ![n] = None]
  /\ d.bucket = (IF p < 0 THEN [c.bucket EXCEPT ![Mark(p)] = q] ELSE c.bucket)
  /\ d.bucket_next = (IF p < 0 THEN c.bucket_next ELSE [c.bucket_next EXCEPT ![p] = q])
  /\ d.bucket_prev = Store(c.bucket_prev, q, p)
  /\ d.max = c.max /\ d.bucket_count = c.bucket_count /\ d.key = c.key

(* evict does what Evicted says, field by field.                           *)
LEMMA EvictFields ==
  ASSUME NEW c, Typed(c), c.count > 0, NEW list, NEW chain, NEW v, NEW n, NEW b, NEW q, NEW p,
         Victim(c, list, chain, v, n, b, q, p)
  PROVE  Typed(evict(c)) /\ Evicted(c, evict(c), v, n, q, p)
<1>0. /\ v \in Indices(c) /\ v = c.head /\ n \in Indices(c) /\ n = c.list_next[v]
      /\ q \in Links(c) /\ q = c.bucket_next[v] /\ p \in Int /\ p = c.bucket_prev[v]
      /\ p < 0 => Mark(p) \in Buckets(c)
      /\ p >= 0 => p \in Indices(c)
  BY DEF Victim, Mark, Indices, Buckets
<1>. DEFINE a == [c EXCEPT !.head = n, !.list_prev = Store(@, n, None),
                           !.list_next = Store(@, v, c.empty), !.empty = v, !.count = @ - 1]
            d == unchain(a, v)
<1>1. evict(c) = d
  BY <1>0 DEF evict
<1>2. /\ DOMAIN a = Attributes /\ a.memory = "allocated"
      /\ a.head = n /\ a.tail = c.tail /\ a.empty = v /\ a.count = c.count - 1
      /\ a.list_next = Store(c.list_next, v, c.empty) /\ a.list_prev = Store(c.list_prev, n, None)
      /\ a.bucket = c.bucket /\ a.bucket_next = c.bucket_next /\ a.bucket_prev = c.bucket_prev
      /\ a.max = c.max /\ a.bucket_count = c.bucket_count /\ a.key = c.key
  BY DEF Typed, Attributes
<1>. HIDE DEF a
<1>3. d = [a EXCEPT !.bucket = IF p < 0 THEN Store(@, -p - 1, q) ELSE @,
                    !.bucket_next = IF p < 0 THEN @ ELSE Store(@, p, q),
                    !.bucket_prev = Store(@, q, p)]
  BY <1>0, <1>2 DEF unchain
<1>. HIDE DEF d
<1>4. v # None /\ n # None /\ Mark(p) = -p - 1 /\ (p < 0 => -p - 1 # None) /\ (p >= 0 => p # None)
  BY <1>0, IndexFacts DEF Mark, Buckets, None
<1>5. /\ DOMAIN d = Attributes /\ d.memory = "allocated"
      /\ d.head = n /\ d.tail = c.tail /\ d.empty = v /\ d.count = c.count - 1
      /\ d.list_next = Store(c.list_next, v, c.empty) /\ d.list_prev = Store(c.list_prev, n, None)
      /\ d.bucket = (IF p < 0 THEN Store(c.bucket, -p - 1, q) ELSE c.bucket)
      /\ d.bucket_next = (IF p < 0 THEN c.bucket_next ELSE Store(c.bucket_next, p, q))
      /\ d.bucket_prev = Store(c.bucket_prev, q, p)
      /\ d.max = c.max /\ d.bucket_count = c.bucket_count /\ d.key = c.key
  BY <1>2, <1>3 DEF Attributes
<1>6. /\ d.list_next = [c.list_next EXCEPT ![v] = c.empty]
      /\ d.list_prev = [c.list_prev EXCEPT ![n] = None]
      /\ d.bucket = (IF p < 0 THEN [c.bucket EXCEPT ![Mark(p)] = q] ELSE c.bucket)
      /\ d.bucket_next = (IF p < 0 THEN c.bucket_next ELSE [c.bucket_next EXCEPT ![p] = q])
  <2>1. /\ d.list_next = [c.list_next EXCEPT ![v] = c.empty]
        /\ d.list_prev = [c.list_prev EXCEPT ![n] = None]
    BY <1>4, <1>5 DEF Store
  <2>2. CASE p < 0
    BY <1>4, <1>5, <2>1, <2>2 DEF Store
  <2>3. CASE ~(p < 0)
    BY <1>0, <1>4, <1>5, <2>1, <2>3 DEF Store
  <2>. QED
    BY <2>2, <2>3
<1>7. Indices(d) = Indices(c) /\ Links(d) = Links(c) /\ Buckets(d) = Buckets(c)
  BY <1>5 DEF Indices, Links, Buckets
<1>8. Typed(d)
  <2>1. d.list_next \in [Indices(c) -> Links(c)]
    BY <1>0, <1>6 DEF Typed, Links
  <2>2. d.list_prev \in [Indices(c) -> Links(c) \cup {Garbage}]
    BY <1>0, <1>6 DEF Typed, Links
  <2>3. d.bucket \in [Buckets(c) -> Links(c)]
    BY <1>0, <1>6 DEF Typed
  <2>4. d.bucket_next \in [Indices(c) -> Links(c) \cup {Garbage}]
    BY <1>0, <1>6 DEF Typed
  <2>5. d.bucket_prev \in [Indices(c) -> Int \cup {Garbage}]
    <3>1. c.bucket_prev \in [Indices(c) -> Int \cup {Garbage}]
      BY DEF Typed
    <3>2. [c.bucket_prev EXCEPT ![q] = p] \in [Indices(c) -> Int \cup {Garbage}]
      BY <1>0, <3>1
    <3>. QED
      BY <1>5, <3>1, <3>2 DEF Store
  <2>6. d.count \in Nat
    BY <1>5 DEF Typed
  <2>7. d.head \in Links(c) /\ d.empty \in Links(c)
    BY <1>0, <1>5 DEF Links
  <2>. QED
    BY <1>5, <1>7, <2>1, <2>2, <2>3, <2>4, <2>5, <2>6, <2>7 DEF Typed
<1>. QED
  BY <1>1, <1>5, <1>6, <1>8 DEF Evicted

(* The first and the next item, and the place of the first in its chain.   *)
LEMMA VictimFacts ==
  ASSUME NEW c, Typed(c), c.bucket_count # 0, NEW list, NEW empty, NEW chains,
         Whole(c, list, empty, chains), Len(list) > 1
  PROVE  \E v, n, b, q, p : b \in Buckets(c) /\ Victim(c, list, chains[b], v, n, b, q, p)
<1>1. /\ ListWhole(c, list) /\ Distinct(list, Indices(c)) /\ list \in Seq(Indices(c))
      /\ Len(list) \in Nat /\ None \notin Indices(c)
  BY IndexFacts DEF Whole, ListWhole, Distinct
<1>2. PICK v \in Range(list) : v = list[1]
  BY <1>1 DEF Range
<1>3. /\ v = c.head /\ v # c.tail /\ v \in Indices(c)
      /\ c.list_next[v] \in Range(list) \cup {None} /\ c.list_next[v] # v
      /\ (c.list_next[v] = None <=> v = c.tail) /\ (c.list_prev[v] = None <=> v = c.head)
  <2>1. /\ c.head = list[1] /\ c.tail = list[Len(list)] /\ Range(list) \subseteq Indices(c)
    BY <1>1, RingFacts
  <2>2. list[1] # list[Len(list)]
    BY <1>1 DEF Distinct, IsInjective
  <2>. QED
    BY <1>1, <1>2, <2>1, <2>2, RingFacts
<1>4. PICK b \in Buckets(c) : b = whichBucket(c, c.key[v])
  <2>1. Hash[c.key[v]] \in Nat /\ c.bucket_count \in Nat \ {0}
    BY <1>1, KeyAssumption DEF ListWhole, Typed
  <2>. QED
    BY <2>1 DEF whichBucket, Buckets
<1>5. PICK chain : chain = chains[b] /\ ChainWhole(c, list, chain, b)
  BY DEF Whole
<1>6. PICK last : IsWhole(Mark(b), chain, None, Down(c, b), Up(c, last))
  BY <1>5 DEF ChainWhole
<1>7. v \in Range(chain) /\ Distinct(chain, Indices(c)) /\ Mark(b) \notin Indices(c)
  BY <1>4, <1>5, IndexFacts DEF ChainWhole, ItemsOf
<1>8. /\ Down(c, b)[v] \in Range(chain) \cup {None} /\ Down(c, b)[v] # v
      /\ Up(c, last)[v] \in Range(chain) \cup {Mark(b)} /\ Up(c, last)[v] # v
      /\ Range(chain) \subseteq Indices(c)
  BY <1>1, <1>6, <1>7, WholeLinks
<1>9. Down(c, b)[v] = c.bucket_next[v] /\ Up(c, last)[v] = c.bucket_prev[v]
  BY <1>1, <1>3, <1>7 DEF Down, Up
<1>10. /\ c.bucket_next[v] \in Links(c) /\ c.bucket_prev[v] \in Int
       /\ c.bucket_prev[v] \in Indices(c) \cup {Mark(b)}
  BY <1>8, <1>9 DEF Links, Indices, Mark, Buckets
<1>11. PICK n \in Range(list) : n = c.list_next[v] /\ n # v /\ n \in Indices(c)
  BY <1>1, <1>3, DistinctIn
<1>12. Victim(c, list, chain, v, n, b, c.bucket_next[v], c.bucket_prev[v])
  BY <1>1, <1>2, <1>3, <1>4, <1>5, <1>7, <1>8, <1>9, <1>10, <1>11 DEF Victim
<1>. QED
  BY <1>5, <1>12

(* The list without its first item, the empty nodes with it.               *)
LEMMA EvictRing ==
  ASSUME NEW c, Typed(c), NEW list, NEW empty, ListWhole(c, list), EmptyWhole(c, list, empty),
         NEW chain, NEW v, NEW n, NEW b, NEW q, NEW p, Victim(c, list, chain, v, n, b, q, p),
         NEW d, Evicted(c, d, v, n, q, p)
  PROVE  /\ ListWhole(d, RemoveAt(list, 1)) /\ EmptyWhole(d, RemoveAt(list, 1), <<v>> \o empty)
         /\ Range(RemoveAt(list, 1)) = Range(list) \ {v}
<1>a. /\ v \in Range(list) /\ v = list[1] /\ v = c.head /\ c.list_prev[v] = None
      /\ n \in Range(list) /\ n = c.list_next[v] /\ n # v
  BY DEF Victim
<1>b. /\ d.max = c.max /\ d.key = c.key /\ d.head = n /\ d.tail = c.tail /\ d.empty = v
      /\ d.count = c.count - 1 /\ d.list_next = [c.list_next EXCEPT ![v] = c.empty]
      /\ d.list_prev = [c.list_prev EXCEPT ![n] = None]
  BY DEF Evicted
<1>1. /\ Distinct(list, Indices(c)) /\ list \in Seq(Indices(c)) /\ Len(list) \in Nat
      /\ None \notin Indices(c) /\ Range(list) \subseteq Indices(c) /\ 1 \in 1 .. Len(list)
      /\ IsWhole(None, list, None, Forward(c), Backward(c))
      /\ Distinct(empty, Indices(c)) /\ empty \in Seq(Indices(c))
      /\ Indices(d) = Indices(c)
  <2>1. Len(list) \in Nat /\ 1 \in 1 .. Len(list)
    BY <1>a DEF ListWhole, Distinct, Range
  <2>. QED
    BY <1>b, <2>1, IndexFacts, RingFacts DEF ListWhole, EmptyWhole, Distinct, Indices
<1>0. PICK j \in 1 .. Len(list) : j = 1
  BY <1>a, <1>b, <1>1
<1>. DEFINE n1 == [Forward(c) EXCEPT ![None] = n]
            p1 == [Backward(c) EXCEPT ![n] = None]
            rest == RemoveAt(list, j)
<1>2. Forward(c)[v] = n /\ Backward(c)[v] = None
  BY <1>a, <1>b, <1>1 DEF Forward, Backward
<1>3. /\ n1[None] = n /\ \A x \in Indices(c) \cup {None} : x # None => n1[x] = Forward(c)[x]
      /\ p1[n] = None /\ \A x \in Indices(c) \cup {None} : x # n => p1[x] = Backward(c)[x]
  BY <1>a, <1>b, <1>1 DEF Forward, Backward
<1>4. /\ Distinct(rest, Indices(c)) /\ Range(rest) = Range(list) \ {v}
      /\ Len(rest) = Len(list) - 1
  <2>1. Len(rest) = Len(list) - 1
    BY <1>a, <1>b, <1>1, RemoveAtIs
  <2>2. Distinct(rest, Indices(c)) /\ Range(rest) = Range(list) \ {list[j]}
    BY <1>a, <1>b, <1>1, RemoveAtDistinct
  <2>. QED
    BY <1>a, <1>0, <2>1, <2>2
<1>5. \A x \in Range(rest) \cup {None} : Forward(d)[x] = n1[x] /\ Backward(d)[x] = p1[x]
  <2>1. \A x \in Range(rest) : d.list_next[x] = c.list_next[x]
    BY <1>a, <1>b, <1>1, <1>4 DEF Typed
  <2>2. \A x \in Range(rest) : d.list_prev[x] = IF x = n THEN None ELSE c.list_prev[x]
    BY <1>a, <1>b, <1>1, <1>4 DEF Typed
  <2>3. \A x \in Range(rest) : x \in Indices(c) /\ x # None
    BY <1>a, <1>b, <1>1, <1>4
  <2>4. /\ Forward(d)[None] = n /\ Backward(d)[None] = c.tail
        /\ \A x \in Indices(c) : x # None => /\ Forward(d)[x] = d.list_next[x]
                                            /\ Backward(d)[x] = d.list_prev[x]
                                            /\ Forward(c)[x] = c.list_next[x]
                                            /\ Backward(c)[x] = c.list_prev[x]
        /\ Backward(c)[None] = c.tail
    BY <1>a, <1>b, <1>1 DEF Forward, Backward
  <2>. QED
    BY <1>a, <1>b, <1>1, <1>3, <2>1, <2>2, <2>3, <2>4
<1>. HIDE DEF n1, p1
<1>6. IsWhole(None, rest, None, n1, p1)
  <2>1. v = list[j] /\ None \in Indices(c) \cup {None}
    BY <1>a, <1>0
  <2>2. Distinct(list, Indices(c)) /\ IsWhole(None, list, None, Forward(c), Backward(c))
    BY <1>a, <1>b, <1>1
  <2>. QED
    BY <1>a, <1>b, <1>1, <1>2, <1>3, <2>1, <2>2, WholeRemove, SMTT(30)
<1>. HIDE DEF rest
<1>7. IsWhole(None, rest, None, Forward(d), Backward(d))
  BY <1>a, <1>b, <1>1, <1>4, <1>5, <1>6, WholeFrame
<1>8. ListWhole(d, rest)
  BY <1>a, <1>b, <1>1, <1>4, <1>7 DEF ListWhole
<1>9. v \notin Range(empty) /\ Range(empty) = Indices(c) \ Range(list) /\ v \in Indices(c)
  BY <1>a, <1>b, <1>1 DEF EmptyWhole
<1>10. /\ d.list_next[v] = c.empty
       /\ \A x \in Range(empty) : d.list_next[x] = c.list_next[x]
  <2>1. c.list_next \in [Indices(c) -> Links(c)]
    BY DEF Typed
  <2>2. \A x \in Range(empty) : x \in Indices(c) /\ x # v
    BY <1>a, <1>b, <1>9
  <2>. QED
    BY <1>a, <1>b, <1>9, <2>1, <2>2
<1>11. Leads(empty, d.list_next[v], d.list_next, None)
  <2>1. Leads(empty, c.empty, c.list_next, None)
    BY DEF EmptyWhole
  <2>2. Leads(empty, c.empty, d.list_next, None)
    <3>1. PICK f, g : f = c.list_next /\ g = d.list_next
      OBVIOUS
    <3>2. /\ empty \in Seq(Indices(c)) /\ \A x \in Range(empty) : g[x] = f[x]
          /\ Leads(empty, c.empty, f, None)
      BY <1>a, <1>b, <1>1, <1>10, <2>1, <3>1
    <3>3. Leads(empty, c.empty, g, None)
      BY <3>2, LeadsFrame
    <3>. QED
      BY <3>1, <3>3
  <2>. QED
    BY <1>a, <1>b, <1>10, <2>2
<1>12. Leads(<<v>> \o empty, v, d.list_next, None)
  BY <1>a, <1>b, <1>1, <1>9, <1>11, LeadsCons
<1>13. Distinct(<<v>> \o empty, Indices(c)) /\ Range(<<v>> \o empty) = Range(empty) \cup {v}
  BY <1>a, <1>b, <1>1, <1>9, ConsDistinct
<1>14. EmptyWhole(d, rest, <<v>> \o empty)
  BY <1>a, <1>b, <1>1, <1>4, <1>9, <1>12, <1>13 DEF EmptyWhole
<1>. QED
  BY <1>0, <1>4, <1>8, <1>14 DEF rest

(* A chain that neither loses nor gets an item: what changes is not in it. *)
LEMMA ChainFrame ==
  ASSUME NEW c, Typed(c), NEW d, NEW list, NEW list2, NEW chain, NEW b \in Buckets(c),
         ChainWhole(c, list, chain, b), d.max = c.max, d.bucket[b] = c.bucket[b],
         ItemsOf(d, list2, b) = ItemsOf(c, list, b),
         \A i \in Range(chain) : /\ d.bucket_next[i] = c.bucket_next[i]
                                 /\ d.bucket_prev[i] = c.bucket_prev[i]
  PROVE  ChainWhole(d, list2, chain, b)
<1>1. /\ Distinct(chain, Indices(c)) /\ Range(chain) = ItemsOf(c, list, b)
      /\ Indices(d) = Indices(c) /\ None \notin Indices(c) /\ Mark(b) \notin Indices(c)
      /\ Range(chain) \subseteq Indices(c)
  BY IndexFacts, DistinctIn DEF ChainWhole, Indices
<1>2. PICK last : IsWhole(Mark(b), chain, None, Down(c, b), Up(c, last))
  BY DEF ChainWhole
<1>3. \A x \in Range(chain) \cup {Mark(b)} : Down(d, b)[x] = Down(c, b)[x]
  BY <1>1 DEF Down
<1>4. \A x \in Range(chain) \cup {None} : Up(d, last)[x] = Up(c, last)[x]
  BY <1>1 DEF Up
<1>5. IsWhole(Mark(b), chain, None, Down(d, b), Up(d, last))
  BY <1>1, <1>2, <1>3, <1>4, WholeFrame
<1>. QED
  BY <1>1, <1>5 DEF ChainWhole

(* The chain of the item that is evicted.                                  *)
LEMMA ChainRemove ==
  ASSUME NEW c, Typed(c), NEW d, NEW list, NEW list2, NEW chain, NEW b \in Buckets(c),
         ChainWhole(c, list, chain, b), NEW v, NEW n, NEW q, NEW p,
         Victim(c, list, chain, v, n, b, q, p), Evicted(c, d, v, n, q, p),
         NEW j \in 1 .. Len(chain), v = chain[j], Range(list2) = Range(list) \ {v}
  PROVE  ChainWhole(d, list2, RemoveAt(chain, j), b)
<1>a. q = c.bucket_next[v] /\ p = c.bucket_prev[v]
  BY DEF Victim
<1>b. /\ d.max = c.max /\ d.bucket_count = c.bucket_count /\ d.key = c.key
      /\ d.bucket = (IF p < 0 THEN [c.bucket EXCEPT ![Mark(p)] = q] ELSE c.bucket)
      /\ d.bucket_next = (IF p < 0 THEN c.bucket_next ELSE [c.bucket_next EXCEPT ![p] = q])
      /\ d.bucket_prev = Store(c.bucket_prev, q, p)
  BY DEF Evicted
<1>1. /\ Distinct(chain, Indices(c)) /\ Range(chain) = ItemsOf(c, list, b)
      /\ Indices(d) = Indices(c) /\ None \notin Indices(c) /\ Mark(b) \notin Indices(c)
      /\ Range(chain) \subseteq Indices(c) /\ v \in Range(chain) /\ Mark(b) < 0
      /\ Mark(Mark(b)) = b
  <2>1. Mark(b) < 0 /\ Mark(Mark(b)) = b
    BY DEF Mark, Buckets
  <2>. QED
    BY <1>b, <2>1, IndexFacts, DistinctIn DEF ChainWhole, Indices
<1>2. PICK last : IsWhole(Mark(b), chain, None, Down(c, b), Up(c, last))
  BY DEF ChainWhole
<1>3. Down(c, b)[v] = q /\ Up(c, last)[v] = p
  BY <1>a, <1>b, <1>1 DEF Down, Up
<1>4. q \in Range(chain) \cup {None} /\ p \in Range(chain) \cup {Mark(b)}
  BY <1>a, <1>b, <1>1, <1>2, <1>3, WholeLinks
<1>5. (p < 0 <=> p = Mark(b)) /\ (p < 0 \/ p \in Indices(c))
  BY <1>a, <1>b, <1>1, <1>4 DEF Indices
<1>6. PICK last2 : last2 = IF q = None THEN p ELSE last
  OBVIOUS
<1>7. /\ Down(d, b)[p] = q
      /\ \A x \in Indices(c) \cup {Mark(b)} : x # p => Down(d, b)[x] = Down(c, b)[x]
  <2>1. CASE p = Mark(b)
    <3>1. d.bucket[b] = q /\ d.bucket_next = c.bucket_next
      BY <1>a, <1>b, <1>1, <1>5, <2>1 DEF Typed
    <3>. QED
      BY <1>a, <1>b, <1>1, <2>1, <3>1 DEF Down
  <2>2. CASE p # Mark(b)
    <3>1. /\ d.bucket = c.bucket /\ p \in Indices(c)
          /\ d.bucket_next = [c.bucket_next EXCEPT ![p] = q]
      BY <1>b, <1>5, <2>2
    <3>2. d.bucket_next[p] = q /\ \A x \in Indices(c) : x # p => d.bucket_next[x] = c.bucket_next[x]
      BY <3>1 DEF Typed
    <3>. QED
      BY <1>a, <1>b, <1>1, <2>2, <3>1, <3>2 DEF Down
  <2>. QED
    BY <2>1, <2>2
<1>8. /\ Up(d, last2)[q] = p
      /\ \A x \in Indices(c) \cup {None} : x # q => Up(d, last2)[x] = Up(c, last)[x]
  <2>1. CASE q = None
    BY <1>a, <1>b, <1>1, <1>6, <2>1 DEF Up, Store
  <2>2. CASE q # None
    <3>1. q \in Indices(c) /\ d.bucket_prev = [c.bucket_prev EXCEPT ![q] = p]
      BY <1>a, <1>b, <1>1, <1>4, <2>2 DEF Store
    <3>2. d.bucket_prev[q] = p /\ \A x \in Indices(c) : x # q => d.bucket_prev[x] = c.bucket_prev[x]
      BY <3>1 DEF Typed
    <3>. QED
      BY <1>a, <1>b, <1>1, <1>6, <2>2, <3>1, <3>2 DEF Up
  <2>. QED
    BY <2>1, <2>2
<1>9. IsWhole(Mark(b), RemoveAt(chain, j), None, Down(d, b), Up(d, last2))
  BY <1>a, <1>b, <1>1, <1>2, <1>3, <1>7, <1>8, WholeRemove
<1>10. Distinct(RemoveAt(chain, j), Indices(c)) /\ Range(RemoveAt(chain, j)) = Range(chain) \ {v}
  BY <1>a, <1>b, <1>1, RemoveAtDistinct
<1>11. ItemsOf(d, list2, b) = ItemsOf(c, list, b) \ {v}
  BY <1>b DEF ItemsOf, whichBucket
<1>. QED
  BY <1>a, <1>b, <1>1, <1>9, <1>10, <1>11 DEF ChainWhole

(* The item evicted leaves the list and its chain for the empty nodes.     *)
LEMMA EvictWhole ==
  ASSUME NEW c, Typed(c), c.bucket_count # 0, NEW list, NEW empty, NEW chains,
         Whole(c, list, empty, chains), Len(list) > 1
  PROVE  /\ Typed(evict(c)) /\ evict(c).max = c.max /\ evict(c).count = c.count - 1
         /\ evict(c).bucket_count = c.bucket_count /\ evict(c).key = c.key
         /\ evict(c).empty = list[1]
         /\ Range(RemoveAt(list, 1)) = Range(list) \ {list[1]}
         /\ \E chains2 : Whole(evict(c), RemoveAt(list, 1), <<list[1]>> \o empty, chains2)
<1>0. PICK v, n, b, q, p : b \in Buckets(c) /\ Victim(c, list, chains[b], v, n, b, q, p)
  BY VictimFacts
<1>1. /\ v \in Range(list) /\ v = list[1] /\ b = whichBucket(c, c.key[v])
      /\ p \in Indices(c) \cup {Mark(b)}
      /\ p = Mark(b) \/ p \in Range(chains[b]) \ {v}
      /\ q = None \/ q \in Range(chains[b]) \ {v}
      /\ v \in Range(chains[b])
  BY <1>0 DEF Victim
<1>2. /\ ListWhole(c, list) /\ EmptyWhole(c, list, empty) /\ Distinct(list, Indices(c))
      /\ Range(list) \subseteq Indices(c) /\ list \in Seq(Indices(c)) /\ Len(list) \in Nat
      /\ \A x \in Buckets(c) : ChainWhole(c, list, chains[x], x)
  BY DistinctIn DEF Whole, ListWhole
<1>3. /\ Distinct(chains[b], Indices(c)) /\ Range(chains[b]) \subseteq Indices(c)
      /\ Range(chains[b]) = ItemsOf(c, list, b)
  BY <1>0, <1>2, DistinctIn DEF ChainWhole
<1>4. /\ p \in Int /\ (p < 0 <=> p = Mark(b)) /\ (p >= 0 => p \in Indices(c))
      /\ Mark(b) < 0 /\ Mark(Mark(b)) = b
  <2>1. Mark(b) < 0 /\ Mark(Mark(b)) = b
    BY <1>0 DEF Mark, Buckets
  <2>. QED
    BY <1>0, <1>1, <1>3, <2>1 DEF Indices, Mark, Buckets
<1>5. PICK d : d = evict(c)
  OBVIOUS
<1>c. Typed(d) /\ Evicted(c, d, v, n, q, p)
  <2>1. c.count > 0
    BY <1>2 DEF ListWhole
  <2>. QED
    BY <1>0, <1>5, <2>1, EvictFields
<1>6. /\ d.empty = v /\ d.count = c.count - 1
      /\ d.bucket = (IF p < 0 THEN [c.bucket EXCEPT ![Mark(p)] = q] ELSE c.bucket)
      /\ d.bucket_next = (IF p < 0 THEN c.bucket_next ELSE [c.bucket_next EXCEPT ![p] = q])
      /\ d.bucket_prev = Store(c.bucket_prev, q, p)
      /\ d.max = c.max /\ d.bucket_count = c.bucket_count /\ d.key = c.key
  BY <1>c DEF Evicted
<1>7. PICK rest, more : rest = RemoveAt(list, 1) /\ more = <<v>> \o empty
  OBVIOUS
<1>8. /\ ListWhole(d, rest) /\ EmptyWhole(d, rest, more)
      /\ Range(rest) = Range(list) \ {v}
  BY <1>0, <1>2, <1>c, <1>7, EvictRing
<1>9. PICK j \in 1 .. Len(chains[b]) : v = chains[b][j]
  <2>1. DOMAIN chains[b] = 1 .. Len(chains[b])
    BY <1>3 DEF Distinct
  <2>. QED
    BY <1>1, <2>1, Zenon DEF Range
<1>. DEFINE chains2 == [x \in Buckets(c) |-> IF x = b THEN RemoveAt(chains[b], j) ELSE chains[x]]
<1>10. ChainWhole(d, rest, RemoveAt(chains[b], j), b)
  BY <1>0, <1>2, <1>c, <1>8, <1>9, ChainRemove
<1>11. ASSUME NEW x \in Buckets(c), x # b
       PROVE  ChainWhole(d, rest, chains[x], x)
  <2>1. /\ Range(chains[x]) = ItemsOf(c, list, x) /\ Range(chains[x]) \subseteq Indices(c)
    BY <1>2, DistinctIn DEF ChainWhole
  <2>2. ItemsOf(d, rest, x) = ItemsOf(c, list, x)
    BY <1>1, <1>6, <1>8, <1>11 DEF ItemsOf, whichBucket
  <2>3. d.bucket[x] = c.bucket[x]
    BY <1>4, <1>6, <1>11 DEF Typed
  <2>4. ASSUME NEW i \in Range(chains[x])
        PROVE  d.bucket_next[i] = c.bucket_next[i] /\ d.bucket_prev[i] = c.bucket_prev[i]
    <3>1. i \notin Range(chains[b]) /\ i \in Indices(c)
      BY <1>3, <1>11, <2>1 DEF ItemsOf
    <3>2. p >= 0 => i # p
      BY <1>1, <1>4, <3>1
    <3>3. q # None => i # q
      BY <1>1, <3>1
    <3>4. d.bucket_next[i] = c.bucket_next[i]
      BY <1>4, <1>6, <3>1, <3>2 DEF Typed
    <3>5. d.bucket_prev[i] = c.bucket_prev[i]
      <4>1. c.bucket_prev \in [Indices(c) -> Int \cup {Garbage}]
        BY DEF Typed
      <4>2. CASE q = None
        BY <1>6, <4>2 DEF Store
      <4>3. CASE q # None
        <5>1. d.bucket_prev = [c.bucket_prev EXCEPT ![q] = p]
          BY <1>6, <4>3 DEF Store
        <5>. QED
          BY <3>1, <3>3, <4>1, <4>3, <5>1
      <4>. QED
        BY <4>2, <4>3
    <3>. QED
      BY <3>4, <3>5
  <2>. QED
    BY <1>2, <1>6, <2>2, <2>3, <2>4, ChainFrame
<1>12. ASSUME NEW x \in Buckets(c)
       PROVE  ChainWhole(d, rest, chains2[x], x) /\ LatestFirst(d, rest, chains2[x])
  <2>1. ChainWhole(d, rest, chains2[x], x)
    BY <1>10, <1>11
  <2>2. \A i, k : Before(rest, i, k) => Before(list, i, k)
    <3>1. PICK e \in 1 .. Len(list) : e = 1
      BY <1>2
    <3>. QED
      BY <1>2, <1>7, <3>1, BeforeRemove
  <2>3. \A i, k : Before(chains2[x], i, k) => Before(chains[x], i, k)
    <3>1. chains[b] \in Seq(Indices(c))
      BY <1>3 DEF Distinct
    <3>. QED
      BY <3>1, BeforeRemove
  <2>4. LatestFirst(c, list, chains[x])
    BY DEF Whole
  <2>. QED
    BY <1>6, <1>8, <2>1, <2>2, <2>3, <2>4 DEF LatestFirst
<1>. HIDE DEF chains2
<1>13. Whole(d, rest, more, chains2)
  <2>1. Buckets(d) = Buckets(c)
    BY <1>6 DEF Buckets
  <2>. QED
    BY <1>8, <1>12, <2>1 DEF Whole
<1>. QED
  BY <1>1, <1>5, <1>6, <1>c, <1>7, <1>8, <1>13

-----------------------------------------------------------------------------
(* What insert does when there is room.                                    *)
enter(c, k) ==
  LET new == c.empty
      filled == [c EXCEPT !.count = @ + 1, !.empty = c.list_next[new], !.key[new] = k]
  IN  chainFirst(append(filled, new), new, whichBucket(c, k))

(* The node n is filled for the key k and put first in the chain of the    *)
(* bucket b, before q.                                                     *)
Room(c, k, n, b, q) ==
  /\ k \in Keys /\ n \in Indices(c) /\ n = c.empty /\ n # c.tail
  /\ b \in Buckets(c) /\ b = whichBucket(c, k) /\ q \in Links(c) /\ q = c.bucket[b]

Entered(c, d, k, n, b, q) ==
  /\ d.head = (IF c.head = None THEN n ELSE c.head) /\ d.tail = n
  /\ d.empty = c.list_next[n] /\ d.count = c.count + 1
  /\ d.key = [c.key EXCEPT ![n] = k]
  /\ d.list_next = Store([c.list_next EXCEPT ![n] = None], c.tail, n)
  /\ d.list_prev = [c.list_prev EXCEPT ![n] = c.tail]
  /\ d.bucket = [c.bucket EXCEPT ![b] = n]
  /\ d.bucket_next = [c.bucket_next EXCEPT ![n] = q]
  /\ d.bucket_prev = [Store(c.bucket_prev, q, n) EXCEPT ![n] = Mark(b)]
  /\ d.max = c.max /\ d.bucket_count = c.bucket_count

(* enter does what Entered says, field by field.                           *)
LEMMA EnterFields ==
  ASSUME NEW c, Typed(c), NEW k, NEW n, NEW b, NEW q, Room(c, k, n, b, q)
  PROVE  Typed(enter(c, k)) /\ Entered(c, enter(c, k), k, n, b, q)
<1>0. /\ k \in Keys /\ n \in Indices(c) /\ n = c.empty /\ n # c.tail
      /\ b \in Buckets(c) /\ b = whichBucket(c, k) /\ q \in Links(c) /\ q = c.bucket[b]
  BY DEF Room
<1>. DEFINE a == [c EXCEPT !.count = @ + 1, !.empty = c.list_next[n], !.key[n] = k]
            e == append(a, n)
            d == chainFirst(e, n, b)
<1>1. enter(c, k) = d
  BY <1>0 DEF enter
<1>2. /\ DOMAIN a = Attributes /\ a.memory = "allocated"
      /\ a.head = c.head /\ a.tail = c.tail /\ a.empty = c.list_next[n] /\ a.count = c.count + 1
      /\ a.list_next = c.list_next /\ a.list_prev = c.list_prev
      /\ a.bucket = c.bucket /\ a.bucket_next = c.bucket_next /\ a.bucket_prev = c.bucket_prev
      /\ a.max = c.max /\ a.bucket_count = c.bucket_count /\ a.key = [c.key EXCEPT ![n] = k]
  BY DEF Typed, Attributes
<1>. HIDE DEF a
<1>3. e = [a EXCEPT !.list_prev = Store(@, n, c.tail),
                    !.list_next = Store(Store(@, n, None), c.tail, n),
                    !.tail = n, !.head = IF @ = None THEN n ELSE @]
  BY <1>0, <1>2 DEF append
<1>. HIDE DEF e
<1>4. n # None
  BY <1>0, IndexFacts
<1>5. /\ DOMAIN e = Attributes /\ e.memory = "allocated"
      /\ e.head = (IF c.head = None THEN n ELSE c.head) /\ e.tail = n
      /\ e.empty = c.list_next[n] /\ e.count = c.count + 1
      /\ e.list_next = Store([c.list_next EXCEPT ![n] = None], c.tail, n)
      /\ e.list_prev = [c.list_prev EXCEPT ![n] = c.tail]
      /\ e.bucket = c.bucket /\ e.bucket_next = c.bucket_next /\ e.bucket_prev = c.bucket_prev
      /\ e.max = c.max /\ e.bucket_count = c.bucket_count /\ e.key = [c.key EXCEPT ![n] = k]
  BY <1>0, <1>2, <1>3, <1>4 DEF Attributes, Store
<1>6. d = [e EXCEPT !.bucket_next = Store(@, n, q),
                    !.bucket_prev = Store(Store(@, q, n), n, Mark(b)),
                    !.bucket[b] = n]
  BY <1>0, <1>5 DEF chainFirst, Mark
<1>. HIDE DEF d
<1>7. /\ DOMAIN d = Attributes /\ d.memory = "allocated"
      /\ d.head = (IF c.head = None THEN n ELSE c.head) /\ d.tail = n
      /\ d.empty = c.list_next[n] /\ d.count = c.count + 1
      /\ d.list_next = Store([c.list_next EXCEPT ![n] = None], c.tail, n)
      /\ d.list_prev = [c.list_prev EXCEPT ![n] = c.tail]
      /\ d.bucket = [c.bucket EXCEPT ![b] = n]
      /\ d.bucket_next = [c.bucket_next EXCEPT ![n] = q]
      /\ d.bucket_prev = [Store(c.bucket_prev, q, n) EXCEPT ![n] = Mark(b)]
      /\ d.max = c.max /\ d.bucket_count = c.bucket_count /\ d.key = [c.key EXCEPT ![n] = k]
  BY <1>4, <1>5, <1>6 DEF Attributes, Store
<1>8. Indices(d) = Indices(c) /\ Links(d) = Links(c) /\ Buckets(d) = Buckets(c)
  BY <1>7 DEF Indices, Links, Buckets
<1>9. Typed(d)
  <2>1. d.list_next \in [Indices(c) -> Links(c)]
    BY <1>0, <1>7 DEF Typed, Links, Store
  <2>2. d.list_prev \in [Indices(c) -> Links(c) \cup {Garbage}]
    BY <1>0, <1>7 DEF Typed
  <2>3. d.bucket \in [Buckets(c) -> Links(c)]
    BY <1>0, <1>7 DEF Typed, Links
  <2>4. d.bucket_next \in [Indices(c) -> Links(c) \cup {Garbage}]
    BY <1>0, <1>7 DEF Typed
  <2>5. d.bucket_prev \in [Indices(c) -> Int \cup {Garbage}]
    <3>1. c.bucket_prev \in [Indices(c) -> Int \cup {Garbage}] /\ n \in Int /\ Mark(b) \in Int
      BY <1>0 DEF Typed, Indices, Mark, Buckets
    <3>2. Store(c.bucket_prev, q, n) \in [Indices(c) -> Int \cup {Garbage}]
      <4>1. [c.bucket_prev EXCEPT ![q] = n] \in [Indices(c) -> Int \cup {Garbage}]
        BY <3>1
      <4>. QED
        BY <3>1, <4>1 DEF Store
    <3>. QED
      BY <1>7, <3>1, <3>2
  <2>6. d.count \in Nat /\ d.key \in [Indices(c) -> Keys \cup {NoKey}]
    BY <1>0, <1>7 DEF Typed
  <2>7. d.head \in Links(c) /\ d.empty \in Links(c) /\ d.tail \in Links(c)
    BY <1>0, <1>7 DEF Links, Typed
  <2>. QED
    BY <1>7, <1>8, <2>1, <2>2, <2>3, <2>4, <2>5, <2>6, <2>7 DEF Typed
<1>. QED
  BY <1>1, <1>7, <1>9 DEF Entered

(* The list with the new item last, and one empty node less.               *)
LEMMA EnterRing ==
  ASSUME NEW c, Typed(c), NEW list, NEW empty, ListWhole(c, list), EmptyWhole(c, list, empty),
         empty # <<>>, NEW k, NEW n, NEW b, NEW q, Room(c, k, n, b, q),
         NEW d, Entered(c, d, k, n, b, q)
  PROVE  /\ ListWhole(d, Append(list, n)) /\ EmptyWhole(d, Append(list, n), Tail(empty))
         /\ Range(Append(list, n)) = Range(list) \cup {n} /\ n \notin Range(list)
         /\ n = empty[1]
<1>a. k \in Keys /\ n \in Indices(c) /\ n = c.empty /\ n # c.tail
  BY DEF Room
<1>b. /\ d.head = (IF c.head = None THEN n ELSE c.head) /\ d.tail = n
      /\ d.empty = c.list_next[n] /\ d.count = c.count + 1 /\ d.key = [c.key EXCEPT ![n] = k]
      /\ d.list_next = Store([c.list_next EXCEPT ![n] = None], c.tail, n)
      /\ d.list_prev = [c.list_prev EXCEPT ![n] = c.tail] /\ d.max = c.max
  BY DEF Entered
<1>1. /\ Distinct(list, Indices(c)) /\ list \in Seq(Indices(c)) /\ Len(list) \in Nat
      /\ None \notin Indices(c) /\ Range(list) \subseteq Indices(c)
      /\ IsWhole(None, list, None, Forward(c), Backward(c)) /\ c.count = Len(list)
      /\ Distinct(empty, Indices(c)) /\ empty \in Seq(Indices(c))
      /\ Range(empty) = Indices(c) \ Range(list) /\ Leads(empty, c.empty, c.list_next, None)
  BY IndexFacts, DistinctIn DEF ListWhole, EmptyWhole
<1>2. Indices(d) = Indices(c)
  BY <1>b DEF Indices
<1>3. n = empty[1] /\ n \in Range(empty) /\ n \notin Range(list)
  <2>1. n = empty[1]
    BY <1>a, <1>1, LeadsTail
  <2>. QED
    BY <1>1, <2>1 DEF Range
<1>4. PICK t : t = c.tail /\ t \in Range(list) \cup {None} /\ (t = None <=> c.head = None)
  <2>1. /\ c.head = (IF list = <<>> THEN None ELSE list[1])
        /\ c.tail = (IF list = <<>> THEN None ELSE list[Len(list)])
    BY RingFacts
  <2>2. list # <<>> => list[1] \in Range(list) /\ list[Len(list)] \in Range(list)
    BY <1>1 DEF Range
  <2>. QED
    BY <1>1, <2>1, <2>2
<1>5. /\ \A x \in Indices(c) : d.list_next[x] = IF x = t THEN n ELSE IF x = n THEN None
                                                ELSE c.list_next[x]
      /\ \A x \in Indices(c) : d.list_prev[x] = IF x = n THEN t ELSE c.list_prev[x]
  <2>1. PICK f : f = [c.list_next EXCEPT ![n] = None]
    OBVIOUS
  <2>2. \A x \in Indices(c) : f[x] = IF x = n THEN None ELSE c.list_next[x]
    BY <1>a, <2>1 DEF Typed
  <2>3. f \in [Indices(c) -> Links(c)]
    BY <2>1 DEF Typed, Links
  <2>4. d.list_next = Store(f, t, n)
    BY <1>b, <1>4, <2>1
  <2>5. \A x \in Indices(c) : d.list_next[x] = IF x = t THEN n ELSE f[x]
    BY <1>1, <1>4, <2>3, <2>4 DEF Store
  <2>6. \A x \in Indices(c) : d.list_prev[x] = IF x = n THEN t ELSE c.list_prev[x]
    BY <1>a, <1>b, <1>4 DEF Typed
  <2>. QED
    BY <2>2, <2>5, <2>6
<1>6. /\ \A x \in Indices(c) : /\ Forward(c)[x] = c.list_next[x] /\ Forward(d)[x] = d.list_next[x]
                               /\ Backward(c)[x] = c.list_prev[x] /\ Backward(d)[x] = d.list_prev[x]
      /\ Forward(c)[None] = c.head /\ Forward(d)[None] = d.head
      /\ Backward(c)[None] = c.tail /\ Backward(d)[None] = d.tail
  BY <1>1, <1>2 DEF Forward, Backward
<1>7. /\ Forward(d)[t] = n /\ Forward(d)[n] = None
      /\ \A x \in Indices(c) \cup {None} : x # t /\ x # n => Forward(d)[x] = Forward(c)[x]
  <2>1. Forward(d)[t] = n
    BY <1>b, <1>1, <1>4, <1>5, <1>6
  <2>2. n # t /\ n # None
    BY <1>a, <1>1, <1>4
  <2>3. Forward(d)[n] = None
    BY <1>a, <1>5, <1>6, <2>2
  <2>4. ASSUME NEW x \in Indices(c) \cup {None}, x # t, x # n
        PROVE  Forward(d)[x] = Forward(c)[x]
    <3>1. CASE x = None
      BY <1>b, <1>4, <1>6, <2>4, <3>1
    <3>2. CASE x \in Indices(c)
      BY <1>5, <1>6, <2>4, <3>2
    <3>. QED
      BY <2>4, <3>1, <3>2
  <2>. QED
    BY <2>1, <2>3, <2>4
<1>8. /\ Backward(d)[n] = t /\ Backward(d)[None] = n /\ Backward(c)[None] = t
      /\ \A x \in Indices(c) : x # n => Backward(d)[x] = Backward(c)[x]
  BY <1>a, <1>b, <1>4, <1>5, <1>6
<1>9. /\ Distinct(Append(list, n), Indices(c)) /\ Range(Append(list, n)) = Range(list) \cup {n}
      /\ IsWhole(None, Append(list, n), None, Forward(d), Backward(d))
  <2>1. n \in Indices(c)
    BY <1>a
  <2>. QED
    <3>1. LET p == Backward(c)[None]
          IN  /\ Forward(d)[p] = n /\ Forward(d)[n] = None
              /\ \A x \in Indices(c) \cup {None} : x # p /\ x # n => Forward(d)[x] = Forward(c)[x]
              /\ Backward(d)[n] = p /\ Backward(d)[None] = n
              /\ \A x \in Indices(c) : x # n => Backward(d)[x] = Backward(c)[x]
      BY <1>7, <1>8, Zenon
    <3>2. /\ Distinct(list, Indices(c)) /\ None \notin Indices(c) /\ n \notin Range(list)
          /\ IsWhole(None, list, None, Forward(c), Backward(c))
      BY <1>1, <1>3
    <3>. QED
      BY <2>1, <3>1, <3>2, WholeAppend
<1>10. ListWhole(d, Append(list, n))
  <2>1. d.count = Len(Append(list, n))
    BY <1>a, <1>b, <1>1
  <2>2. \A i \in Range(list) \cup {n} : d.key[i] \in Keys
    BY <1>a, <1>b, <1>1, <1>3 DEF Typed, ListWhole
  <2>. QED
    BY <1>2, <1>9, <2>1, <2>2 DEF ListWhole
<1>11. /\ Distinct(Tail(empty), Indices(c)) /\ Range(Tail(empty)) = Range(empty) \ {n}
       /\ Tail(empty) \in Seq(Indices(c))
  <2>1. Head(empty) = empty[1]
    BY <1>1
  <2>. QED
    BY <1>1, <1>3, <2>1, TailDistinct, DistinctIn
<1>12. Leads(Tail(empty), d.empty, d.list_next, None)
  <2>1. PICK f, g, rest : f = c.list_next /\ g = d.list_next /\ rest = Tail(empty)
    OBVIOUS
  <2>2. Leads(rest, d.empty, f, None)
    BY <1>a, <1>b, <1>1, <2>1, LeadsTail
  <2>3. \A x \in Range(rest) : g[x] = f[x]
    BY <1>1, <1>4, <1>5, <1>11, <2>1
  <2>4. Leads(rest, d.empty, g, None)
    BY <1>11, <2>1, <2>2, <2>3, LeadsFrame
  <2>. QED
    BY <2>1, <2>4
<1>13. EmptyWhole(d, Append(list, n), Tail(empty))
  BY <1>1, <1>2, <1>9, <1>11, <1>12 DEF EmptyWhole
<1>. QED
  BY <1>3, <1>9, <1>10, <1>13

(* The chain that the new item is put first in.                            *)
LEMMA ChainPrepend ==
  ASSUME NEW c, Typed(c), NEW list, NEW chain, NEW k, NEW n, NEW b, NEW q,
         Room(c, k, n, b, q), ChainWhole(c, list, chain, b), n \notin Range(list),
         NEW d, Entered(c, d, k, n, b, q), NEW list2, Range(list2) = Range(list) \cup {n}
  PROVE  ChainWhole(d, list2, <<n>> \o chain, b)
<1>a. /\ k \in Keys /\ n \in Indices(c) /\ b \in Buckets(c) /\ b = whichBucket(c, k)
      /\ q = c.bucket[b] /\ q \in Links(c)
  BY DEF Room
<1>b. /\ d.key = [c.key EXCEPT ![n] = k] /\ d.bucket = [c.bucket EXCEPT ![b] = n]
      /\ d.bucket_next = [c.bucket_next EXCEPT ![n] = q]
      /\ d.bucket_prev = [Store(c.bucket_prev, q, n) EXCEPT ![n] = Mark(b)]
      /\ d.max = c.max /\ d.bucket_count = c.bucket_count
  BY DEF Entered
<1>1. /\ Distinct(chain, Indices(c)) /\ Range(chain) = ItemsOf(c, list, b)
      /\ Indices(d) = Indices(c) /\ None \notin Indices(c) /\ Mark(b) \notin Indices(c)
      /\ Range(chain) \subseteq Indices(c) /\ n \notin Range(chain)
  BY <1>a, <1>b, IndexFacts, DistinctIn DEF ChainWhole, Indices, ItemsOf
<1>2. PICK last : IsWhole(Mark(b), chain, None, Down(c, b), Up(c, last))
  BY DEF ChainWhole
<1>3. Down(c, b)[Mark(b)] = q
  BY <1>a DEF Down
<1>4. q \in Range(chain) \cup {None}
  BY <1>1, <1>2, <1>3, WholeLinks
<1>5. PICK last2 : last2 = IF q = None THEN n ELSE last
  OBVIOUS
<1>6. /\ Down(d, b)[Mark(b)] = n /\ Down(d, b)[n] = q
      /\ \A x \in Indices(c) : x # n => Down(d, b)[x] = Down(c, b)[x]
  <2>1. d.bucket[b] = n /\ d.bucket_next[n] = q
        /\ \A x \in Indices(c) : x # n => d.bucket_next[x] = c.bucket_next[x]
    BY <1>a, <1>b DEF Typed
  <2>. QED
    BY <1>a, <1>1, <2>1 DEF Down
<1>7. /\ Up(d, last2)[q] = n /\ Up(d, last2)[n] = Mark(b)
      /\ \A x \in Indices(c) \cup {None} : x # q /\ x # n => Up(d, last2)[x] = Up(c, last)[x]
  <2>1. PICK f : f = Store(c.bucket_prev, q, n)
    OBVIOUS
  <2>2. /\ f \in [Indices(c) -> Int \cup {Garbage}]
        /\ q # None => f[q] = n
        /\ \A x \in Indices(c) : x # q => f[x] = c.bucket_prev[x]
    <3>1. c.bucket_prev \in [Indices(c) -> Int \cup {Garbage}] /\ n \in Int
      BY <1>a DEF Typed, Indices
    <3>2. CASE q = None
      BY <2>1, <3>1, <3>2 DEF Store
    <3>3. CASE q # None
      <4>1. f = [c.bucket_prev EXCEPT ![q] = n] /\ q \in Indices(c)
        BY <1>1, <1>4, <2>1, <3>3 DEF Store
      <4>. QED
        BY <3>1, <3>3, <4>1
    <3>. QED
      BY <3>2, <3>3
  <2>3. /\ d.bucket_prev[n] = Mark(b)
        /\ \A x \in Indices(c) : x # n => d.bucket_prev[x] = f[x]
    BY <1>a, <1>b, <2>1, <2>2
  <2>4. /\ \A x \in Indices(c) : /\ Up(d, last2)[x] = d.bucket_prev[x]
                                 /\ Up(c, last)[x] = c.bucket_prev[x]
        /\ Up(d, last2)[None] = last2 /\ Up(c, last)[None] = last
    BY <1>1 DEF Up
  <2>5. q # n /\ (q = None \/ q \in Indices(c))
    BY <1>a, <1>1, <1>4
  <2>. QED
    BY <1>a, <1>1, <1>5, <2>2, <2>3, <2>4, <2>5
<1>8. /\ Distinct(<<n>> \o chain, Indices(c)) /\ Range(<<n>> \o chain) = Range(chain) \cup {n}
      /\ IsWhole(Mark(b), <<n>> \o chain, None, Down(d, b), Up(d, last2))
  BY <1>a, <1>1, <1>2, <1>3, <1>6, <1>7, WholePrepend
<1>9. ItemsOf(d, list2, b) = ItemsOf(c, list, b) \cup {n}
  <2>1. d.key[n] = k /\ \A x \in Indices(c) : x # n => d.key[x] = c.key[x]
    BY <1>a, <1>b DEF Typed
  <2>2. \A x \in Range(list) : x # n /\ d.key[x] = c.key[x]
    BY <1>b DEF Typed
  <2>. QED
    BY <1>a, <1>b, <2>1, <2>2 DEF ItemsOf, whichBucket
<1>. QED
  BY <1>1, <1>8, <1>9 DEF ChainWhole

(* The key is in a new item, the latest of the list and the first of its   *)
(* chain.                                                                  *)
LEMMA EnterWhole ==
  ASSUME NEW c, Typed(c), c.bucket_count # 0, NEW list, NEW empty, NEW chains,
         Whole(c, list, empty, chains), empty # <<>>, NEW k \in Keys
  PROVE  /\ Typed(enter(c, k)) /\ enter(c, k).max = c.max
         /\ enter(c, k).count = c.count + 1 /\ enter(c, k).bucket_count = c.bucket_count
         /\ enter(c, k).key = [c.key EXCEPT ![empty[1]] = k]
         /\ empty[1] \in Indices(c) \ Range(list)
         /\ Range(Append(list, empty[1])) = Range(list) \cup {empty[1]}
         /\ \E chains2 : Whole(enter(c, k), Append(list, empty[1]), Tail(empty), chains2)
<1>1. /\ ListWhole(c, list) /\ EmptyWhole(c, list, empty) /\ Distinct(list, Indices(c))
      /\ list \in Seq(Indices(c)) /\ Distinct(empty, Indices(c))
      /\ Range(list) \subseteq Indices(c) /\ Len(list) \in Nat
      /\ None \notin Indices(c) /\ empty \in Seq(Indices(c))
      /\ \A x \in Buckets(c) : ChainWhole(c, list, chains[x], x)
  BY DistinctIn, IndexFacts DEF Whole, ListWhole, EmptyWhole
<1>2. PICK n : n = empty[1] /\ n = c.empty /\ n \in Indices(c) /\ n \notin Range(list)
  <2>1. Leads(empty, c.empty, c.list_next, None) /\ Range(empty) = Indices(c) \ Range(list)
    BY <1>1 DEF EmptyWhole
  <2>2. c.empty = empty[1] /\ empty[1] \in Range(empty)
    BY <1>1, <2>1 DEF Leads, Range
  <2>. QED
    BY <2>1, <2>2
<1>3. n # c.tail
  <2>1. c.tail = (IF list = <<>> THEN None ELSE list[Len(list)])
    BY <1>1, RingFacts
  <2>2. list # <<>> => list[Len(list)] \in Range(list)
    BY <1>1 DEF Range
  <2>. QED
    BY <1>1, <1>2, <2>1, <2>2
<1>4. PICK b \in Buckets(c) : b = whichBucket(c, k)
  <2>1. Hash[k] \in Nat /\ c.bucket_count \in Nat \ {0}
    BY KeyAssumption DEF Typed
  <2>. QED
    BY <2>1 DEF whichBucket, Buckets
<1>5. PICK q : q = c.bucket[b] /\ q \in Links(c)
  BY DEF Typed
<1>6. Room(c, k, n, b, q)
  BY <1>2, <1>3, <1>4, <1>5 DEF Room
<1>7. PICK d : d = enter(c, k)
  OBVIOUS
<1>8. Typed(d) /\ Entered(c, d, k, n, b, q)
  BY <1>6, <1>7, EnterFields
<1>9. /\ d.count = c.count + 1 /\ d.key = [c.key EXCEPT ![n] = k]
      /\ d.bucket = [c.bucket EXCEPT ![b] = n]
      /\ d.bucket_next = [c.bucket_next EXCEPT ![n] = q]
      /\ d.bucket_prev = [Store(c.bucket_prev, q, n) EXCEPT ![n] = Mark(b)]
      /\ d.max = c.max /\ d.bucket_count = c.bucket_count
  BY <1>8 DEF Entered
<1>10. PICK list2, rest : list2 = Append(list, n) /\ rest = Tail(empty)
  OBVIOUS
<1>11. /\ ListWhole(d, list2) /\ EmptyWhole(d, list2, rest) /\ Range(list2) = Range(list) \cup {n}
  BY <1>1, <1>6, <1>8, <1>10, EnterRing
<1>. DEFINE chains2 == [x \in Buckets(c) |-> IF x = b THEN <<n>> \o chains[b] ELSE chains[x]]
<1>12. ChainWhole(d, list2, <<n>> \o chains[b], b)
  BY <1>1, <1>2, <1>6, <1>8, <1>11, ChainPrepend
<1>13. d.key[n] = k /\ \A x \in Range(list) : d.key[x] = c.key[x] /\ x # n
  BY <1>1, <1>2, <1>9 DEF Typed
<1>14. q \in Range(chains[b]) \cup {None}
  <2>1. PICK last : IsWhole(Mark(b), chains[b], None, Down(c, b), Up(c, last))
    BY <1>1 DEF ChainWhole
  <2>2. Down(c, b)[Mark(b)] = q /\ Mark(b) \notin Indices(c) /\ Distinct(chains[b], Indices(c))
    BY <1>1, <1>5, IndexFacts DEF Down, ChainWhole
  <2>. QED
    BY <1>1, <2>1, <2>2, WholeLinks
<1>15. ASSUME NEW x \in Buckets(c), x # b
       PROVE  ChainWhole(d, list2, chains[x], x)
  <2>1. /\ Range(chains[x]) = ItemsOf(c, list, x) /\ Range(chains[x]) \subseteq Indices(c)
        /\ Range(chains[b]) = ItemsOf(c, list, b)
    BY <1>1, DistinctIn DEF ChainWhole
  <2>2. ItemsOf(d, list2, x) = ItemsOf(c, list, x)
    BY <1>4, <1>9, <1>11, <1>13, <1>15 DEF ItemsOf, whichBucket
  <2>3. d.bucket[x] = c.bucket[x]
    BY <1>9, <1>15 DEF Typed
  <2>4. ASSUME NEW i \in Range(chains[x])
        PROVE  d.bucket_next[i] = c.bucket_next[i] /\ d.bucket_prev[i] = c.bucket_prev[i]
    <3>1. i \notin Range(chains[b]) /\ i \in Indices(c) /\ i # n
      BY <1>2, <1>15, <2>1 DEF ItemsOf
    <3>2. i # q
      BY <1>1, <1>14, <3>1
    <3>3. d.bucket_next[i] = c.bucket_next[i]
      BY <1>9, <3>1 DEF Typed
    <3>4. c.bucket_prev \in [Indices(c) -> Int \cup {Garbage}] /\ n \in Int
      BY <1>2 DEF Typed, Indices
    <3>5. PICK f : f = Store(c.bucket_prev, q, n)
      OBVIOUS
    <3>6. f \in [Indices(c) -> Int \cup {Garbage}] /\ f[i] = c.bucket_prev[i]
      <4>1. CASE q = None
        BY <3>4, <3>5, <4>1 DEF Store
      <4>2. CASE q # None
        <5>1. f = [c.bucket_prev EXCEPT ![q] = n]
          BY <3>5, <4>2 DEF Store
        <5>. QED
          BY <3>1, <3>2, <3>4, <5>1
      <4>. QED
        BY <4>1, <4>2
    <3>7. d.bucket_prev[i] = f[i]
      BY <1>9, <3>1, <3>5, <3>6
    <3>. QED
      BY <3>3, <3>6, <3>7
  <2>. QED
    BY <1>1, <1>9, <2>2, <2>3, <2>4, ChainFrame
<1>16. ASSUME NEW x \in Buckets(c)
       PROVE  ChainWhole(d, list2, chains2[x], x) /\ LatestFirst(d, list2, chains2[x])
  <2>1. ChainWhole(d, list2, chains2[x], x)
    BY <1>12, <1>15
  <2>2. \A i, j : Before(list2, i, j) => Before(list, i, j) \/ j = n
    BY <1>1, <1>2, <1>10, BeforeAppend
  <2>3. chains[x] \in Seq(Indices(c)) /\ Range(chains[x]) \subseteq Range(list)
    BY <1>1 DEF ChainWhole, Distinct, ItemsOf
  <2>4. \A i, j : Before(chains2[x], i, j) => Before(chains[x], i, j) \/ (i = n /\ j \in Range(list))
    <3>1. CASE x = b
      BY <1>2, <2>3, <3>1, BeforeCons
    <3>2. CASE x # b
      BY <3>2
    <3>. QED
      BY <3>1, <3>2
  <2>5. \A i, j : Before(list, i, j) => i \in Range(list) /\ j \in Range(list)
    BY <1>1, BeforeOrders
  <2>6. \A i, j : Before(chains[x], i, j) => i \in Range(list) /\ j \in Range(list)
    BY <1>1, <2>3, BeforeOrders DEF ChainWhole
  <2>7. LatestFirst(c, list, chains[x])
    BY DEF Whole
  <2>8. ASSUME NEW i \in Range(list2), NEW j \in Range(list2), d.key[i] = d.key[j],
               Before(list2, i, j), Before(chains2[x], i, j)
        PROVE  FALSE
    <3>1. j \in Range(list)
      BY <2>4, <2>6, <2>8
    <3>2. Before(list, i, j) /\ i \in Range(list)
      BY <1>2, <2>2, <2>5, <2>8, <3>1
    <3>3. Before(chains[x], i, j)
      BY <1>2, <2>4, <2>8, <3>2
    <3>. QED
      BY <1>13, <2>7, <2>8, <3>1, <3>2, <3>3 DEF LatestFirst
  <2>. QED
    BY <2>1, <2>8 DEF LatestFirst
<1>. HIDE DEF chains2
<1>17. Whole(d, list2, rest, chains2)
  <2>1. Buckets(d) = Buckets(c)
    BY <1>9 DEF Buckets
  <2>. QED
    BY <1>11, <1>16, <2>1 DEF Whole
<1>. QED
  BY <1>2, <1>7, <1>8, <1>9, <1>10, <1>11, <1>17

-----------------------------------------------------------------------------
(* The empty nodes are those never used, from the number of items on, until*)
(* the first eviction; after it there is none between the operations.      *)
Filled(c, empty) == \A j \in 1 .. Len(empty) : empty[j] = c.count + j - 1

(* Every node is in the list or empty.                                     *)
LEMMA FillsUp ==
  ASSUME NEW c, Typed(c), NEW list, NEW empty, ListWhole(c, list), EmptyWhole(c, list, empty)
  PROVE  /\ Len(list) + Len(empty) = c.max /\ c.count <= c.max
         /\ isFull(c) <=> empty = <<>>
<1>1. /\ Distinct(list, Indices(c)) /\ Distinct(empty, Indices(c)) /\ c.count = Len(list)
      /\ Range(empty) = Indices(c) \ Range(list) /\ Range(list) \subseteq Indices(c)
      /\ Len(list) \in Nat /\ Len(empty) \in Nat /\ c.max \in Nat /\ empty \in Seq(Indices(c))
  BY DistinctIn DEF ListWhole, EmptyWhole, Typed
<1>2. IsFiniteSet(Indices(c)) /\ Cardinality(Indices(c)) = c.max
  BY IndexFacts
<1>3. Cardinality(Range(list)) = Len(list) /\ Cardinality(Range(empty)) = Len(empty)
  BY <1>1, DistinctCounts
<1>4. Cardinality(Indices(c) \ Range(list))
        = Cardinality(Indices(c)) - Cardinality(Indices(c) \cap Range(list))
  BY <1>2, FS_Difference
<1>5. Indices(c) \cap Range(list) = Range(list)
  BY <1>1
<1>6. Len(empty) = c.max - Len(list)
  BY <1>1, <1>2, <1>3, <1>4, <1>5
<1>7. empty = <<>> <=> Len(empty) = 0
  BY <1>1, EmptySeq
<1>. QED
  BY <1>1, <1>6, <1>7 DEF isFull

(* What coherent finds when it walks along the links is the lists.         *)
LEMMA WholeTells ==
  ASSUME NEW c, Typed(c), NEW list, NEW empty, NEW chains, Whole(c, list, empty, chains)
  PROVE  /\ LruOrder(c) = list /\ Walk(c, c.empty, c.list_next) = empty
         /\ Walk(c, c.tail, c.list_prev) = Reverse(list)
         /\ \A b \in Buckets(c) :
              /\ Chain(c, b) = chains[b]
              /\ \A j \in 1 .. Len(chains[b]) :
                   c.bucket_prev[chains[b][j]] = IF j = 1 THEN -b - 1 ELSE chains[b][j - 1]
<1>1. /\ ListWhole(c, list) /\ EmptyWhole(c, list, empty) /\ Distinct(list, Indices(c))
      /\ list \in Seq(Indices(c)) /\ Range(list) \subseteq Indices(c)
      /\ IsWhole(None, list, None, Forward(c), Backward(c))
      /\ Distinct(empty, Indices(c)) /\ Leads(empty, c.empty, c.list_next, None)
  BY DistinctIn DEF Whole, ListWhole, EmptyWhole
<1>2. /\ IsFiniteSet(Indices(c)) /\ Cardinality(Indices(c)) <= c.max + 1 + 1
      /\ None \notin Indices(c) /\ c.max + 1 \in Nat
  BY IndexFacts DEF Typed
<1>3. PICK more : more = c.max + 1
  OBVIOUS
<1>4. PICK f : f = c.list_next
  OBVIOUS
<1>5. LruOrder(c) = list
  <2>1. Leads(list, Forward(c)[None], Forward(c), None)
    BY <1>1, WholeLeads
  <2>2. /\ Forward(c)[None] = c.head
        /\ \A x \in Range(list) : f[x] = Forward(c)[x]
    BY <1>1, <1>2, <1>4 DEF Forward
  <2>3. Leads(list, c.head, f, None)
    BY <1>1, <2>1, <2>2, LeadsFrame
  <2>4. Follow(c.head, f, Indices(c), more) = list
    BY <1>1, <1>2, <1>3, <2>3, EndsIs
  <2>. QED
    BY <1>3, <1>4, <2>4 DEF LruOrder, Walk
<1>6. Walk(c, c.empty, c.list_next) = empty
  <2>1. Follow(c.empty, f, Indices(c), more) = empty
    BY <1>1, <1>2, <1>3, <1>4, EndsIs
  <2>. QED
    BY <1>3, <1>4, <2>1 DEF Walk
<1>7. Walk(c, c.tail, c.list_prev) = Reverse(list)
  <2>1. PICK back : back = Reverse(list) /\ Distinct(back, Indices(c))
                    /\ Leads(back, Backward(c)[None], Backward(c), None)
    BY <1>1, WholeBack
  <2>2. back \in Seq(Indices(c)) /\ Range(back) \subseteq Indices(c)
    BY <2>1, DistinctIn
  <2>3. PICK g : g = c.list_prev
    OBVIOUS
  <2>4. /\ Backward(c)[None] = c.tail
        /\ \A x \in Range(back) : g[x] = Backward(c)[x]
    BY <1>2, <2>2, <2>3 DEF Backward
  <2>5. Leads(back, c.tail, g, None)
    BY <2>1, <2>2, <2>4, LeadsFrame
  <2>6. Follow(c.tail, g, Indices(c), more) = back
    BY <1>2, <1>3, <2>1, <2>5, EndsIs
  <2>. QED
    BY <1>3, <2>1, <2>3, <2>6 DEF Walk
<1>8. ASSUME NEW b \in Buckets(c)
      PROVE  /\ Chain(c, b) = chains[b]
             /\ \A j \in 1 .. Len(chains[b]) :
                  c.bucket_prev[chains[b][j]] = IF j = 1 THEN -b - 1 ELSE chains[b][j - 1]
  <2>1. PICK chain : chain = chains[b]
    OBVIOUS
  <2>2. ChainWhole(c, list, chain, b)
    BY <2>1 DEF Whole
  <2>3. PICK last : IsWhole(Mark(b), chain, None, Down(c, b), Up(c, last))
    BY <2>2 DEF ChainWhole
  <2>4. /\ Distinct(chain, Indices(c)) /\ chain \in Seq(Indices(c)) /\ Len(chain) \in Nat
        /\ Range(chain) \subseteq Indices(c) /\ \A j \in 1 .. Len(chain) : chain[j] \in Range(chain)
        /\ Mark(b) \notin Indices(c)
    BY <2>2, DistinctIn, IndexFacts DEF ChainWhole
  <2>5. Leads(chain, Down(c, b)[Mark(b)], Down(c, b), None)
    BY <2>3, <2>4, WholeLeads
  <2>6. PICK g : g = c.bucket_next
    OBVIOUS
  <2>7. /\ Down(c, b)[Mark(b)] = c.bucket[b]
        /\ \A x \in Range(chain) : g[x] = Down(c, b)[x]
    BY <2>4, <2>6 DEF Down
  <2>8. Leads(chain, c.bucket[b], g, None)
    BY <2>4, <2>5, <2>7, LeadsFrame
  <2>9. Follow(c.bucket[b], g, Indices(c), more) = chain
    BY <1>2, <1>3, <2>4, <2>8, EndsIs
  <2>10. Chain(c, b) = chain
    BY <1>3, <2>6, <2>9 DEF Chain, Walk
  <2>11. ASSUME NEW j \in 1 .. Len(chain)
         PROVE  c.bucket_prev[chain[j]] = IF j = 1 THEN -b - 1 ELSE chain[j - 1]
    <3>1. PICK i \in 0 .. Len(chain) : i = j - 1 /\ i + 1 = j
      BY <2>4
    <3>2. Up(c, last)[Spot(Mark(b), chain, None, i + 1)] = Spot(Mark(b), chain, None, i)
      BY <2>3 DEF IsWhole
    <3>3. Spot(Mark(b), chain, None, i + 1) = chain[j]
      BY <2>4, <3>1 DEF Spot
    <3>4. Spot(Mark(b), chain, None, i) = IF j = 1 THEN Mark(b) ELSE chain[j - 1]
      BY <2>4, <3>1 DEF Spot
    <3>5. Up(c, last)[chain[j]] = c.bucket_prev[chain[j]]
      BY <1>2, <2>4 DEF Up
    <3>. QED
      BY <3>2, <3>3, <3>4, <3>5 DEF Mark
  <2>. QED
    BY <2>1, <2>10, <2>11
<1>. QED
  BY <1>5, <1>6, <1>7, <1>8

(* In whole chains all that coherent can find fault with is that an item   *)
(* has the number that it takes for an empty one.                          *)
LEMMA CoherentTells ==
  ASSUME NEW c, Typed(c), c.bucket_count # 0, NEW list, NEW empty, NEW chains,
         Whole(c, list, empty, chains)
  PROVE  coherent(c) <=> c.count \notin Range(list)
<1>1. /\ ListWhole(c, list) /\ EmptyWhole(c, list, empty)
      /\ Distinct(list, Indices(c)) /\ Distinct(empty, Indices(c))
      /\ list \in Seq(Indices(c)) /\ Len(list) \in Nat /\ Len(empty) \in Nat
      /\ Range(list) \subseteq Indices(c) /\ c.max \in Nat
      /\ \A i \in Range(list) : c.key[i] \in Keys
      /\ \A b \in Buckets(c) : Distinct(chains[b], Indices(c))
      /\ \A b \in Buckets(c) : Range(chains[b]) = ItemsOf(c, list, b)
  BY DistinctIn DEF Whole, ListWhole, EmptyWhole, ChainWhole, Typed
<1>2. /\ IsFiniteSet(Indices(c)) /\ Cardinality(Indices(c)) = c.max /\ None \notin Indices(c)
  BY IndexFacts
<1>3. /\ LruOrder(c) = list /\ Walk(c, c.empty, c.list_next) = empty
      /\ Walk(c, c.tail, c.list_prev) = Reverse(list)
      /\ \A b \in Buckets(c) :
           /\ Chain(c, b) = chains[b]
           /\ \A j \in 1 .. Len(chains[b]) :
                c.bucket_prev[chains[b][j]] = IF j = 1 THEN -b - 1 ELSE chains[b][j - 1]
  BY WholeTells
<1>4. \A x : Distinct(x, Indices(c)) => Len(x) <= c.max + 1
  <2>1. SUFFICES ASSUME NEW x, Distinct(x, Indices(c)) PROVE Len(x) <= c.max + 1
    OBVIOUS
  <2>2. Len(x) <= c.max /\ Len(x) \in Nat
    BY <1>2, <2>1, DistinctFits, DistinctIn
  <2>. QED
    BY <1>1, <2>2
<1>5. Len(Reverse(list)) = Len(list)
  BY <1>1 DEF Reverse
<1>6. ASSUME NEW i \in Range(list)
      PROVE  whichBucket(c, c.key[i]) \in Buckets(c) /\ i \in Range(chains[whichBucket(c, c.key[i])])
  <2>1. Hash[c.key[i]] \in Nat /\ c.bucket_count \in Nat \ {0}
    BY <1>1, KeyAssumption DEF Typed
  <2>2. whichBucket(c, c.key[i]) \in Buckets(c)
    BY <2>1 DEF whichBucket, Buckets
  <2>. QED
    BY <1>1, <2>2 DEF ItemsOf
<1>7. ASSUME NEW i \in Range(list), c.bucket_prev[i] < 0
      PROVE  whichBucket(c, c.key[i]) = -c.bucket_prev[i] - 1
  <2>1. PICK b \in Buckets(c) : b = whichBucket(c, c.key[i]) /\ i \in Range(chains[b])
    BY <1>6
  <2>2. PICK chain : chain = chains[b] /\ Distinct(chain, Indices(c))
    BY <1>1
  <2>3. PICK j \in 1 .. Len(chain) : i = chain[j]
    BY <2>1, <2>2, DistinctIn DEF Range
  <2>4. c.bucket_prev[i] = IF j = 1 THEN -b - 1 ELSE chain[j - 1]
    BY <1>3, <2>2, <2>3
  <2>5. j # 1 => chain[j - 1] \in Indices(c)
    BY <2>2, DistinctIn
  <2>6. j = 1
    BY <1>7, <2>4, <2>5 DEF Indices
  <2>7. c.bucket_prev[i] = -b - 1 /\ b \in Int
    BY <2>4, <2>6 DEF Buckets
  <2>. QED
    BY <2>1, <2>7
<1>8. ASSUME NEW b \in Buckets(c), NEW i \in Range(chains[b])
      PROVE  /\ i \in Range(list) /\ whichBucket(c, c.key[i]) = b
             /\ ~(c.bucket_prev[i] >= 0 /\ c.bucket_next[i] = c.bucket_prev[i])
  <2>1. i \in Range(list) /\ whichBucket(c, c.key[i]) = b
    BY <1>1, <1>8 DEF ItemsOf
  <2>2. PICK chain : chain = chains[b] /\ Distinct(chain, Indices(c)) /\ ChainWhole(c, list, chain, b)
    BY <1>1 DEF Whole
  <2>3. Range(chain) \subseteq Indices(c) /\ chain \in Seq(Indices(c)) /\ Len(chain) \in Nat
        /\ \A j, k \in 1 .. Len(chain) : chain[j] = chain[k] => j = k
    BY <2>2, DistinctIn DEF Distinct, IsInjective
  <2>4. PICK j \in 1 .. Len(chain) : i = chain[j]
    BY <1>8, <2>2, DistinctIn DEF Range
  <2>5. PICK last : IsWhole(Mark(b), chain, None, Down(c, b), Up(c, last))
    BY <2>2 DEF ChainWhole
  <2>6. Down(c, b)[Spot(Mark(b), chain, None, j)] = Spot(Mark(b), chain, None, j + 1)
    BY <2>3, <2>5 DEF IsWhole
  <2>7. Spot(Mark(b), chain, None, j) = i
    BY <2>3, <2>4 DEF Spot
  <2>8. Spot(Mark(b), chain, None, j + 1) = IF j = Len(chain) THEN None ELSE chain[j + 1]
    BY <2>3 DEF Spot
  <2>9. i # Mark(b) /\ i \in Indices(c)
    BY <1>8, <2>2, <2>3, IndexFacts
  <2>10. c.bucket_next[i] = IF j = Len(chain) THEN None ELSE chain[j + 1]
    BY <2>6, <2>7, <2>8, <2>9 DEF Down
  <2>11. c.bucket_prev[i] = IF j = 1 THEN -b - 1 ELSE chain[j - 1]
    BY <1>3, <2>2, <2>4
  <2>12. CASE j = 1
    <3>1. c.bucket_prev[i] < 0
      BY <2>11, <2>12 DEF Buckets
    <3>2. c.bucket_prev[i] = -b - 1 /\ b \in 0 .. c.bucket_count - 1
      BY <2>11, <2>12 DEF Buckets
    <3>. QED
      BY <2>1, <3>1, <3>2
  <2>13. CASE j # 1
    <3>1. c.bucket_prev[i] = chain[j - 1] /\ j - 1 \in 1 .. Len(chain)
      BY <2>3, <2>11, <2>13
    <3>2. CASE j = Len(chain)
      BY <1>2, <2>1, <2>3, <2>10, <3>1, <3>2
    <3>3. CASE j # Len(chain)
      <4>1. j + 1 \in 1 .. Len(chain) /\ j + 1 # j - 1
        BY <2>3, <3>3
      <4>2. chain[j + 1] # chain[j - 1]
        BY <2>3, <3>1, <4>1
      <4>. QED
        BY <2>1, <2>10, <3>1, <3>3, <4>2
    <3>. QED
      BY <3>2, <3>3
  <2>. QED
    BY <2>12, <2>13
<1>9. ASSUME c.count \notin Range(list)
      PROVE  coherent(c)
  <2>1. /\ Len(empty) <= c.max + 1 /\ Len(list) <= c.max + 1
        /\ \A b \in Buckets(c) : Len(chains[b]) <= c.max + 1
    BY <1>1, <1>4
  <2>2. \A b \in Buckets(c) : \A i \in Range(chains[b]) : i # c.count
    BY <1>8, <1>9
  <2>3. \A b \in Buckets(c) : Len(Chain(c, b)) <= c.max + 1
    BY <1>3, <2>1
  <2>4. \A b \in Buckets(c) : \A i \in Range(Chain(c, b)) :
          /\ i # c.count /\ whichBucket(c, c.key[i]) = b
          /\ ~(c.bucket_prev[i] >= 0 /\ c.bucket_next[i] = c.bucket_prev[i])
    BY <1>3, <1>8, <2>2
  <2>. QED
    BY <1>3, <1>5, <1>7, <2>1, <2>3, <2>4 DEF coherent
<1>10. ASSUME coherent(c)
       PROVE  c.count \notin Range(list)
  <2>1. \A b \in Buckets(c) : \A i \in Range(chains[b]) : i # c.count
    BY <1>3, <1>10 DEF coherent
  <2>. QED
    BY <1>6, <2>1
<1>. QED
  BY <1>9, <1>10

-----------------------------------------------------------------------------
(* find finds the latest used of the items with the key, and that one is   *)
(* the first of them in its chain.                                         *)
LEMMA SearchFinds ==
  ASSUME NEW c, Typed(c), c.bucket_count # 0, NEW list, NEW empty, NEW chains,
         Whole(c, list, empty, chains), NEW k \in Keys
  PROVE  /\ Search(c, k) = None => \A i \in Range(list) : c.key[i] # k
         /\ Search(c, k) # None =>
              \E j \in 1 .. Len(list) :
                /\ Search(c, k) = list[j] /\ c.key[list[j]] = k
                /\ \A m \in j + 1 .. Len(list) : c.key[list[m]] # k
                /\ \A b \in Buckets(c) : \A i \in Range(list) :
                     c.key[i] = c.key[list[j]] => ~Before(chains[b], i, list[j])
<1>1. /\ ListWhole(c, list) /\ Distinct(list, Indices(c)) /\ list \in Seq(Indices(c))
      /\ Range(list) \subseteq Indices(c) /\ Len(list) \in Nat /\ None \notin Indices(c)
      /\ \A b \in Buckets(c) : /\ Distinct(chains[b], Indices(c))
                               /\ Range(chains[b]) = ItemsOf(c, list, b)
                               /\ LatestFirst(c, list, chains[b])
  BY DistinctIn, IndexFacts DEF Whole, ListWhole, ChainWhole
<1>2. PICK b0 \in Buckets(c) : b0 = whichBucket(c, k)
  <2>1. Hash[k] \in Nat /\ c.bucket_count \in Nat \ {0}
    BY KeyAssumption DEF Typed
  <2>. QED
    BY <2>1 DEF whichBucket, Buckets
<1>3. PICK chain : chain = chains[b0] /\ Chain(c, b0) = chain
  BY WholeTells
<1>4. /\ Distinct(chain, Indices(c)) /\ chain \in Seq(Indices(c)) /\ Len(chain) \in Nat
      /\ Range(chain) = ItemsOf(c, list, b0) /\ DOMAIN chain = 1 .. Len(chain)
      /\ \A p, q \in 1 .. Len(chain) : chain[p] = chain[q] => p = q
  BY <1>1, <1>3, DistinctIn DEF Distinct, IsInjective
<1>5. PICK hits : hits = {j \in 1 .. Len(chain) : c.key[chain[j]] = k}
  OBVIOUS
<1>6. Search(c, k) = IF hits = {} THEN None ELSE chain[Min(hits)]
  BY <1>2, <1>3, <1>4, <1>5 DEF Search
<1>7. \A x \in Range(list) : c.key[x] = k => x \in Range(chain)
  BY <1>2, <1>4 DEF ItemsOf
<1>8. ASSUME hits = {}
      PROVE  Search(c, k) = None /\ \A i \in Range(list) : c.key[i] # k
  BY <1>4, <1>5, <1>6, <1>7, <1>8 DEF Range
<1>9. ASSUME hits # {}
      PROVE  \E j \in 1 .. Len(list) :
               /\ Search(c, k) = list[j] /\ Search(c, k) # None /\ c.key[list[j]] = k
               /\ \A m \in j + 1 .. Len(list) : c.key[list[m]] # k
               /\ \A b \in Buckets(c) : \A i \in Range(list) :
                    c.key[i] = c.key[list[j]] => ~Before(chains[b], i, list[j])
  <2>1. PICK m \in hits : m = Min(hits) /\ \A n \in hits : m <= n
    <3>1. hits \subseteq Nat
      BY <1>5
    <3>. QED
      BY <1>9, <3>1, MinIs
  <2>2. m \in 1 .. Len(chain) /\ c.key[chain[m]] = k
    BY <1>5, <2>1
  <2>3. PICK i : i = chain[m] /\ i \in Range(chain) /\ i \in Range(list) /\ i \in Indices(c)
    BY <1>1, <1>4, <2>2, DistinctIn DEF ItemsOf
  <2>4. PICK j \in 1 .. Len(list) : list[j] = i
    BY <1>1, <2>3 DEF Range
  <2>5. Search(c, k) = i /\ i # None /\ c.key[i] = k
    BY <1>1, <1>6, <1>9, <2>1, <2>2, <2>3
  <2>6. ASSUME NEW x \in Range(list), c.key[x] = k
        PROVE  ~Before(chain, x, i)
    <3>1. SUFFICES ASSUME Before(chain, x, i) PROVE FALSE
      OBVIOUS
    <3>2. PICK p, q \in 1 .. Len(chain) : p < q /\ chain[p] = x /\ chain[q] = i
      BY <3>1 DEF Before
    <3>3. q = m
      BY <1>4, <2>2, <2>3, <3>2
    <3>4. p \in hits
      BY <1>5, <2>6, <3>2
    <3>. QED
      BY <2>1, <2>2, <3>2, <3>3, <3>4
  <2>7. ASSUME NEW n \in j + 1 .. Len(list)
        PROVE  c.key[list[n]] # k
    <3>1. SUFFICES ASSUME c.key[list[n]] = k PROVE FALSE
      OBVIOUS
    <3>2. PICK x : x = list[n]
      OBVIOUS
    <3>3. n \in 1 .. Len(list) /\ j < n
      BY <1>1, <2>7
    <3>4. Before(list, i, x) /\ x \in Range(list)
      BY <1>1, <2>4, <3>2, <3>3, DistinctIn DEF Before
    <3>5. x # i
      BY <1>1, <3>4, BeforeOrders
    <3>6. Before(chain, i, x) \/ Before(chain, x, i)
      BY <1>4, <1>7, <2>3, <3>1, <3>2, <3>4, <3>5, BeforeOrders
    <3>7. LatestFirst(c, list, chain)
      BY <1>1, <1>3
    <3>. QED
      BY <2>3, <2>5, <2>6, <3>1, <3>2, <3>4, <3>6, <3>7 DEF LatestFirst
  <2>8. ASSUME NEW b \in Buckets(c), NEW x \in Range(list), c.key[x] = c.key[i]
        PROVE  ~Before(chains[b], x, i)
    <3>1. CASE b = b0
      BY <1>3, <2>5, <2>6, <2>8, <3>1
    <3>2. CASE b # b0
      <4>1. i \notin Range(chains[b])
        BY <1>1, <1>2, <2>5, <3>2 DEF ItemsOf
      <4>. QED
        BY <1>1, <4>1, BeforeOrders
    <3>. QED
      BY <3>1, <3>2
  <2>. QED
    BY <2>4, <2>5, <2>7, <2>8
<1>. QED
  BY <1>8, <1>9

-----------------------------------------------------------------------------
(* A cache as its memory is allocated and as the operations leave it.      *)
Sound(c, list) ==
  /\ Typed(c) /\ (c.bucket_count = 0 => list = <<>>)
  /\ \E empty, chains : Whole(c, list, empty, chains) /\ Filled(c, empty)

(* Fresh memory: all nodes are empty, in their order.                      *)
LEMMA AllocatedSound ==
  ASSUME NEW max \in Nat \ {0}, NEW load_factor \in Nat \ {0}
  PROVE  LET c == Allocated(max, load_factor)
         IN  /\ Sound(c, <<>>) /\ c.max = max /\ c.count = 0
             /\ c.bucket_count = max \div load_factor
<1>. DEFINE unwritten == [i \in 0 .. max - 1 |-> Garbage]
<1>1. PICK c : c = Allocated(max, load_factor)
  OBVIOUS
<1>2. /\ DOMAIN c = Attributes /\ c.memory = "allocated" /\ c.max = max /\ c.count = 0
      /\ c.bucket_count = max \div load_factor
      /\ c.head = None /\ c.tail = None /\ c.empty = 0
      /\ c.key = [i \in 0 .. max - 1 |-> NoKey]
      /\ c.bucket = [b \in 0 .. max \div load_factor - 1 |-> None]
      /\ c.list_next = [i \in 0 .. max - 1 |-> IF i = max - 1 THEN None ELSE i + 1]
      /\ c.list_prev = unwritten /\ c.bucket_next = unwritten /\ c.bucket_prev = unwritten
  BY <1>1 DEF Allocated, Attributes
<1>3. /\ Indices(c) = 0 .. max - 1 /\ Links(c) = (0 .. max - 1) \cup {None}
      /\ Buckets(c) = 0 .. max \div load_factor - 1
  BY <1>2 DEF Indices, Links, Buckets
<1>4. max \div load_factor \in 0 .. max
  <2>1. PICK q \in Nat : q = max \div load_factor
    OBVIOUS
  <2>2. q * load_factor <= max
    BY <2>1
  <2>3. q <= q * load_factor
    BY <2>1
  <2>. QED
    BY <2>1, <2>2, <2>3
<1>5. Typed(c)
  <2>1. c.head \in Links(c) /\ c.tail \in Links(c) /\ c.empty \in Links(c)
    BY <1>2, <1>3
  <2>2. c.key \in [Indices(c) -> Keys \cup {NoKey}] /\ c.bucket \in [Buckets(c) -> Links(c)]
    BY <1>2, <1>3
  <2>3. c.list_next \in [Indices(c) -> Links(c)]
    <3>1. \A i \in 0 .. max - 1 : (IF i = max - 1 THEN None ELSE i + 1) \in Links(c)
      BY <1>3
    <3>. QED
      BY <1>2, <1>3, <3>1
  <2>4. /\ c.list_prev \in [Indices(c) -> Links(c) \cup {Garbage}]
        /\ c.bucket_next \in [Indices(c) -> Links(c) \cup {Garbage}]
        /\ c.bucket_prev \in [Indices(c) -> Int \cup {Garbage}]
    BY <1>2, <1>3
  <2>. QED
    BY <1>2, <1>4, <2>1, <2>2, <2>3, <2>4 DEF Typed
<1>6. ListWhole(c, <<>>)
  <2>1. Distinct(<<>>, Indices(c)) /\ Range(<<>>) = {} /\ Len(<<>>) = 0
    BY DEF Distinct, IsInjective, Range
  <2>2. IsWhole(None, <<>>, None, Forward(c), Backward(c))
    <3>1. Forward(c)[None] = None /\ Backward(c)[None] = None
      BY <1>2 DEF Forward, Backward
    <3>2. \A i \in {0, 1} : Spot(None, <<>>, None, i) = None
      BY <2>1 DEF Spot
    <3>. QED
      BY <2>1, <3>1, <3>2 DEF IsWhole
  <2>. QED
    BY <1>2, <2>1, <2>2 DEF ListWhole
<1>7. PICK empty : empty = [j \in 1 .. max |-> j - 1]
  OBVIOUS
<1>8. /\ empty \in Seq(Indices(c)) /\ Len(empty) = max /\ \A j \in 1 .. max : empty[j] = j - 1
      /\ DOMAIN empty = 1 .. max
  BY <1>3, <1>7
<1>9. EmptyWhole(c, <<>>, empty)
  <2>1. Distinct(empty, Indices(c))
    BY <1>8 DEF Distinct, IsInjective
  <2>2. Leads(empty, c.empty, c.list_next, None)
    <3>1. \A i \in Indices(c) : c.list_next[i] = IF i = max - 1 THEN None ELSE i + 1
      BY <1>2, <1>3
    <3>2. empty[1] = 0 /\ empty[max] = max - 1 /\ max - 1 \in Indices(c)
      BY <1>3, <1>8
    <3>3. \A j \in 1 .. max - 1 : /\ empty[j] = j - 1 /\ empty[j + 1] = j
                                  /\ j - 1 \in Indices(c) /\ j - 1 # max - 1
      BY <1>3, <1>8
    <3>4. \A j \in 1 .. max - 1 : c.list_next[empty[j]] = empty[j + 1]
      BY <3>1, <3>3
    <3>. QED
      BY <1>2, <1>8, <3>1, <3>2, <3>4 DEF Leads
  <2>3. Range(empty) = Indices(c)
    <3>1. ASSUME NEW i \in Indices(c) PROVE i \in Range(empty)
      <4>1. i + 1 \in 1 .. max /\ empty[i + 1] = i
        BY <1>3, <1>8
      <4>. QED
        BY <1>8, <4>1 DEF Range
    <3>2. Range(empty) \subseteq Indices(c)
      BY <2>1, DistinctIn
    <3>. QED
      BY <3>1, <3>2
  <2>4. Range(<<>>) = {}
    BY DEF Range
  <2>. QED
    BY <2>1, <2>2, <2>3, <2>4 DEF EmptyWhole
<1>10. Filled(c, empty)
  BY <1>2, <1>8 DEF Filled
<1>. DEFINE chains == [b \in Buckets(c) |-> <<>>]
<1>11. ASSUME NEW b \in Buckets(c)
       PROVE  ChainWhole(c, <<>>, <<>>, b) /\ LatestFirst(c, <<>>, <<>>)
  <2>1. /\ Distinct(<<>>, Indices(c)) /\ Range(<<>>) = {} /\ Len(<<>>) = 0
        /\ ItemsOf(c, <<>>, b) = {}
    BY DEF Distinct, IsInjective, Range, ItemsOf
  <2>2. IsWhole(Mark(b), <<>>, None, Down(c, b), Up(c, Mark(b)))
    <3>1. Down(c, b)[Mark(b)] = None /\ Up(c, Mark(b))[None] = Mark(b)
      BY <1>2, <1>3 DEF Down, Up
    <3>2. Spot(Mark(b), <<>>, None, 0) = Mark(b) /\ Spot(Mark(b), <<>>, None, 1) = None
      BY <2>1 DEF Spot
    <3>. QED
      BY <2>1, <3>1, <3>2 DEF IsWhole
  <2>. QED
    BY <2>1, <2>2 DEF ChainWhole, LatestFirst
<1>12. Whole(c, <<>>, empty, chains)
  BY <1>6, <1>9, <1>11 DEF Whole
<1>. QED
  BY <1>1, <1>2, <1>5, <1>10, <1>12 DEF Sound

-----------------------------------------------------------------------------
(* The list that an insert finds when it has made room.                    *)
Kept(c, list) == IF isFull(c) THEN RemoveAt(list, 1) ELSE list

(* insert: a full cache loses its first item, and the key is in a new item,*)
(* the latest.                                                             *)
LEMMA InsertSound ==
  ASSUME NEW c, c.bucket_count # 0, NEW list, Sound(c, list), NEW k \in Keys, ~insertFaults(c)
  PROVE  \E n \in Indices(c) :
           /\ n \notin Range(Kept(c, list)) /\ Range(Kept(c, list)) \subseteq Range(list)
           /\ Sound(insert(c, k), Append(Kept(c, list), n))
           /\ insert(c, k).key = [c.key EXCEPT ![n] = k]
           /\ insert(c, k).max = c.max /\ insert(c, k).bucket_count = c.bucket_count
           /\ isFull(c) => Len(list) > 1
<1>1. PICK empty, chains : Whole(c, list, empty, chains) /\ Filled(c, empty)
  BY DEF Sound
<1>2. /\ Typed(c) /\ ListWhole(c, list) /\ EmptyWhole(c, list, empty) /\ c.count \in Nat
      /\ Distinct(list, Indices(c)) /\ Len(list) \in Nat /\ list \in Seq(Indices(c))
      /\ Distinct(empty, Indices(c)) /\ empty \in Seq(Indices(c)) /\ c.count = Len(list)
  BY <1>1, DistinctIn DEF Sound, Whole, ListWhole, EmptyWhole, Typed
<1>3. isFull(c) <=> empty = <<>>
  BY <1>2, FillsUp
<1>4. CASE ~isFull(c)
  <2>1. insert(c, k) = enter(c, k) /\ Kept(c, list) = list
    BY <1>4 DEF insert, enter, Kept
  <2>2. PICK d, n, rest : d = enter(c, k) /\ n = empty[1] /\ rest = Tail(empty)
    OBVIOUS
  <2>3. /\ Typed(d) /\ d.max = c.max /\ d.count = c.count + 1 /\ d.bucket_count = c.bucket_count
        /\ d.key = [c.key EXCEPT ![n] = k] /\ n \in Indices(c) \ Range(list)
        /\ \E chains2 : Whole(d, Append(list, n), rest, chains2)
    BY <1>1, <1>2, <1>3, <1>4, <2>2, EnterWhole
  <2>4. Filled(d, rest)
    <3>1. /\ Len(rest) = Len(empty) - 1
          /\ \A j \in 1 .. Len(rest) : rest[j] = empty[j + 1] /\ j + 1 \in 1 .. Len(empty)
      BY <1>2, <1>3, <1>4, <2>2
    <3>2. \A j \in 1 .. Len(empty) : empty[j] = c.count + j - 1
      BY <1>1 DEF Filled
    <3>3. \A j \in 1 .. Len(rest) : rest[j] = d.count + j - 1
      BY <1>2, <2>3, <3>1, <3>2
    <3>. QED
      BY <3>3 DEF Filled
  <2>. QED
    <3>1. \E chains2 : Whole(d, Append(list, n), rest, chains2) /\ Filled(d, rest)
      BY <2>3, <2>4
    <3>2. Sound(d, Append(list, n))
      BY <2>3, <3>1 DEF Sound
    <3>. QED
      BY <1>4, <2>1, <2>2, <2>3, <3>2
<1>5. CASE isFull(c)
  <2>1. Len(list) > 1
    <3>1. c.head # None /\ c.list_next[c.head] # None
      BY <1>5 DEF insertFaults, evictFaults
    <3>2. /\ c.head = (IF list = <<>> THEN None ELSE list[1])
          /\ c.tail = (IF list = <<>> THEN None ELSE list[Len(list)])
          /\ \A i \in Range(list) : c.list_next[i] = None <=> i = c.tail
      BY <1>2, RingFacts
    <3>3. list # <<>> /\ Len(list) # 0 /\ list[1] \in Range(list)
      BY <1>2, <3>1, <3>2, EmptySeq DEF Range
    <3>4. Len(list) # 1
      BY <3>1, <3>2, <3>3
    <3>5. Len(list) \in Nat /\ Len(list) # 0
      BY <1>2, <3>3
    <3>. QED
      BY <3>4, <3>5
  <2>2. PICK e, v, more, base : /\ e = evict(c) /\ v = list[1] /\ more = <<v>> \o empty
                                /\ base = RemoveAt(list, 1)
    OBVIOUS
  <2>3. /\ Typed(e) /\ e.max = c.max /\ e.count = c.count - 1
        /\ e.bucket_count = c.bucket_count /\ e.key = c.key
        /\ Range(base) = Range(list) \ {v}
        /\ \E chains2 : Whole(e, base, more, chains2)
    BY <1>1, <1>2, <2>1, <2>2, EvictWhole
  <2>4. v \in Indices(c) /\ more = <<v>>
    <3>1. empty = <<>>
      BY <1>3, <1>5
    <3>. QED
      BY <1>2, <2>1, <2>2, <3>1, DistinctIn
  <2>5. PICK chains2 : Whole(e, base, more, chains2)
    BY <2>3
  <2>6. more # <<>> /\ more[1] = v /\ Tail(more) = <<>>
    BY <2>4
  <2>7. insert(c, k) = enter(e, k) /\ Kept(c, list) = base
    BY <1>5, <2>2, <2>3 DEF insert, enter, Kept, whichBucket
  <2>8. PICK d : d = enter(e, k)
    OBVIOUS
  <2>9. /\ Typed(d) /\ d.max = c.max /\ d.bucket_count = c.bucket_count
        /\ d.key = [c.key EXCEPT ![v] = k]
        /\ \E chains3 : Whole(d, Append(base, v), <<>>, chains3)
    <3>1. e.bucket_count # 0
      BY <2>3
    <3>2. /\ Typed(d) /\ d.max = e.max /\ d.bucket_count = e.bucket_count
          /\ d.key = [e.key EXCEPT ![more[1]] = k]
          /\ \E chains3 : Whole(d, Append(base, more[1]), Tail(more), chains3)
      BY <2>3, <2>5, <2>6, <2>8, <3>1, EnterWhole
    <3>. QED
      BY <2>3, <2>6, <3>2
  <2>10. Filled(d, <<>>)
    BY DEF Filled
  <2>. QED
    BY <2>1, <2>3, <2>4, <2>7, <2>8, <2>9, <2>10 DEF Sound
<1>. QED
  BY <1>4, <1>5

(* A hit: the item found is the last of the list from then on.             *)
LEMMA MoveSound ==
  ASSUME NEW c, c.bucket_count # 0, NEW list, Sound(c, list), NEW k \in Keys, Search(c, k) # None
  PROVE  \E j \in 1 .. Len(list) :
           /\ Search(c, k) = list[j] /\ c.key[list[j]] = k
           /\ \A m \in j + 1 .. Len(list) : c.key[list[m]] # k
           /\ LET d == moveToTail(c, Search(c, k))
              IN  /\ Sound(d, Append(RemoveAt(list, j), list[j]))
                  /\ d.max = c.max /\ d.key = c.key /\ d.bucket_count = c.bucket_count
<1>1. PICK empty, chains : Typed(c) /\ Whole(c, list, empty, chains) /\ Filled(c, empty)
  BY DEF Sound
<1>2. PICK j \in 1 .. Len(list) :
        /\ Search(c, k) = list[j] /\ c.key[list[j]] = k
        /\ \A m \in j + 1 .. Len(list) : c.key[list[m]] # k
        /\ \A b \in Buckets(c) : \A i \in Range(list) :
             c.key[i] = c.key[list[j]] => ~Before(chains[b], i, list[j])
  BY <1>1, SearchFinds
<1>3. PICK d, list2 : d = moveToTail(c, list[j]) /\ list2 = Append(RemoveAt(list, j), list[j])
  OBVIOUS
<1>4. /\ Typed(d) /\ Whole(d, list2, empty, chains)
      /\ d.max = c.max /\ d.key = c.key /\ d.bucket_count = c.bucket_count /\ d.count = c.count
  BY <1>1, <1>2, <1>3, MoveWhole
<1>5. Sound(d, list2)
  BY <1>1, <1>4 DEF Sound, Filled
<1>. QED
  BY <1>2, <1>3, <1>4, <1>5

-----------------------------------------------------------------------------
(* A cache is coherent in the sense of the code but after an eviction.     *)
LEMMA SoundIsCoherent ==
  ASSUME NEW c, c.bucket_count # 0, NEW list, Sound(c, list)
  PROVE  /\ coherent(c)
         /\ isFull(c) /\ ~evictFaults(c) => (coherent(evict(c)) <=> c.head = c.max - 1)
<1>1. PICK empty, chains : Whole(c, list, empty, chains) /\ Filled(c, empty)
  BY DEF Sound
<1>2. /\ Typed(c) /\ ListWhole(c, list) /\ EmptyWhole(c, list, empty) /\ c.count \in Nat
      /\ Distinct(list, Indices(c)) /\ Len(list) \in Nat /\ list \in Seq(Indices(c))
      /\ Distinct(empty, Indices(c)) /\ empty \in Seq(Indices(c)) /\ Len(empty) \in Nat
      /\ Range(empty) = Indices(c) \ Range(list) /\ Range(list) \subseteq Indices(c)
      /\ c.count = Len(list) /\ c.max \in Nat \ {0}
  BY <1>1, DistinctIn DEF Sound, Whole, ListWhole, EmptyWhole, Typed
<1>3. Len(list) + Len(empty) = c.max /\ (isFull(c) <=> empty = <<>>) /\ c.count <= c.max
  BY <1>2, FillsUp
<1>4. c.count \notin Range(list)
  <2>1. CASE isFull(c)
    <3>1. c.count = c.max
      BY <1>2, <1>3, <2>1 DEF isFull
    <3>. QED
      BY <1>2, <3>1 DEF Indices
  <2>2. CASE ~isFull(c)
    <3>1. empty # <<>>
      BY <1>3, <2>2
    <3>2. empty[1] = c.count + 1 - 1 /\ empty[1] \in Range(empty)
      BY <1>1, <1>2, <3>1, DistinctIn DEF Filled
    <3>. QED
      BY <1>2, <3>2
  <2>. QED
    BY <2>1, <2>2
<1>5. ASSUME isFull(c), ~evictFaults(c)
      PROVE  coherent(evict(c)) <=> c.head = c.max - 1
  <2>1. /\ c.head = (IF list = <<>> THEN None ELSE list[1])
        /\ c.tail = (IF list = <<>> THEN None ELSE list[Len(list)])
        /\ \A i \in Range(list) : c.list_next[i] = None <=> i = c.tail
    BY <1>2, RingFacts
  <2>2. c.head # None /\ c.list_next[c.head] # None
    BY <1>5 DEF evictFaults
  <2>3. list # <<>> /\ Len(list) # 0 /\ list[1] \in Range(list) /\ c.head = list[1]
    BY <1>2, <2>1, <2>2, EmptySeq DEF Range
  <2>4. Len(list) # 1
    BY <2>1, <2>2, <2>3
  <2>5. Len(list) > 1
    <3>1. PICK m \in Nat : m = Len(list)
      BY <1>2
    <3>2. m # 0 /\ m # 1
      BY <2>3, <2>4, <3>1
    <3>3. m > 1
      BY <3>2
    <3>. QED
      BY <3>1, <3>3
  <2>6. PICK e, base, more : e = evict(c) /\ base = RemoveAt(list, 1) /\ more = <<list[1]>> \o empty
    OBVIOUS
  <2>7. /\ Typed(e) /\ e.count = c.count - 1 /\ e.bucket_count = c.bucket_count
        /\ Range(base) = Range(list) \ {list[1]} /\ \E chains2 : Whole(e, base, more, chains2)
    BY <1>1, <1>2, <2>5, <2>6, EvictWhole
  <2>8. PICK chains2 : Whole(e, base, more, chains2)
    BY <2>7
  <2>9. coherent(e) <=> e.count \notin Range(base)
    BY <2>7, <2>8, CoherentTells
  <2>10. empty = <<>> /\ Range(empty) = {}
    BY <1>3, <1>5 DEF Range
  <2>11. c.max - 1 \in Range(list)
    <3>1. c.max - 1 \in Indices(c)
      BY <1>2 DEF Indices
    <3>2. Indices(c) \ Range(list) = {}
      BY <1>2, <2>10
    <3>. QED
      BY <3>1, <3>2
  <2>12. c.count = c.max
    BY <1>2, <1>3, <1>5 DEF isFull
  <2>. QED
    BY <2>3, <2>6, <2>7, <2>9, <2>11, <2>12
<1>. QED
  BY <1>1, <1>2, <1>4, <1>5, CoherentTells
=============================================================================
