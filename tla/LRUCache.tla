------------------------------- MODULE LRUCache -------------------------------
(***************************************************************************)
(* The cache of src/benchmark/src/containers/lru.h as functions on its     *)
(* attributes: every operation runs under lock_ from its first to its last *)
(* line, so that it is one step for all threads.  Nodes are indices into   *)
(* storage_, linked through arrays; None is the index -1.  A value is      *)
(* abstracted to its key.                                                  *)
(*                                                                         *)
(* Where the code would divide by zero or use an index or a pointer that is*)
(* none, an operator named ...Faults is true and the operation itself      *)
(* stands for nothing.                                                     *)
(***************************************************************************)
EXTENDS Integers, Sequences, FiniteSets, SequencesExt, LinkedLists

CONSTANTS
  Keys,
  Hash,                 (* h_ and the shift, a function on Keys            *)
  ElementSize,          (* bytes of an element with its share of bucket_   *)
  NoKey,
  Garbage               (* what memory holds before it is written          *)

ASSUME KeyAssumption == Hash \in [Keys -> Nat] /\ NoKey \notin Keys
ASSUME ElementAssumption == ElementSize \in Nat \ {0}
ASSUME GarbageAssumption == Garbage \notin Int

None == -1
Indices(c) == 0 .. c.max - 1
Buckets(c) == 0 .. c.bucket_count - 1
whichBucket(c, k) == Hash[k] % c.bucket_count

\* f[i] = x, left out if there is no i.
Store(f, i, x) == IF i = None THEN f ELSE [f EXCEPT ![i] = x]

-----------------------------------------------------------------------------
(* The constructor, with capacity 0, leaves the pointers uninitialized.     *)
Unallocated ==
  [memory |-> "none", max |-> 0, count |-> 0, bucket_count |-> 0,
   head |-> None, tail |-> None, empty |-> None, key |-> <<>>, bucket |-> <<>>,
   list_next |-> <<>>, list_prev |-> <<>>, bucket_next |-> <<>>, bucket_prev |-> <<>>]

maxElementCount(capacity, is_item_capacity) ==
  IF is_item_capacity THEN capacity ELSE capacity \div ElementSize

Allocated(max, load_factor) ==
  LET unwritten == [i \in 0 .. max - 1 |-> Garbage]
  IN  [memory |-> "allocated", max |-> max, count |-> 0,
       bucket_count |-> max \div load_factor,
       head |-> None, tail |-> None, empty |-> 0,
       key |-> [i \in 0 .. max - 1 |-> NoKey],
       bucket |-> [b \in 0 .. max \div load_factor - 1 |-> None],
       list_next |-> [i \in 0 .. max - 1 |-> IF i = max - 1 THEN None ELSE i + 1],
       list_prev |-> unwritten, bucket_next |-> unwritten, bucket_prev |-> unwritten]

\* Without room for an element the bound of the loop, max - 1, is 2^64 - 1.
allocateFaults(capacity, is_item_capacity) ==
  capacity # 0 /\ maxElementCount(capacity, is_item_capacity) = 0

\* With capacity 0 only the counts are set.
allocateMemory(c, capacity, is_item_capacity, load_factor) ==
  IF capacity = 0 THEN [c EXCEPT !.max = 0, !.count = 0]
  ELSE Allocated(maxElementCount(capacity, is_item_capacity), load_factor)

releaseFaults(c) == c.memory = "none"
releaseMemory(c) ==
  IF c.memory # "allocated" THEN c
  ELSE [c EXCEPT !.memory = "released", !.key = <<>>, !.bucket = <<>>,
                 !.list_next = <<>>, !.list_prev = <<>>,
                 !.bucket_next = <<>>, !.bucket_prev = <<>>]

-----------------------------------------------------------------------------
(* find                                                                    *)

findFaults(c) == c.memory # "allocated" \/ c.bucket_count = 0

\* The indices from i on by a link, cut off behind the coherent() limit.
Walk(c, i, link) == Follow(i, link, Indices(c), c.max + 1)

Chain(c, b) == Walk(c, c.bucket[b], c.bucket_next)
LruOrder(c) == Walk(c, c.head, c.list_next)

\* The index of the first node of the chain that has the key, or None.
Search(c, k) ==
  LET chain == Chain(c, whichBucket(c, k))
      hits == {j \in DOMAIN chain : c.key[chain[j]] = k}
  IN  IF hits = {} THEN None ELSE chain[Min(hits)]

\* Mutant of moveToTail: the head of the list stays where it is.
moveToTailOnly(c, i) ==
  LET prev == c.list_prev[i]
      next == c.list_next[i]
  IN  IF i = c.tail THEN c
      ELSE [c EXCEPT !.list_next = Store(Store(Store(@, prev, next), i, None), c.tail, i),
                     !.list_prev = Store(Store(@, next, prev), i, c.tail),
                     !.tail = i]

moveToTail(c, i) ==
  LET prev == c.list_prev[i]
      next == c.list_next[i]
  IN  IF i = c.tail THEN c
      ELSE [c EXCEPT !.head = IF prev = None THEN next ELSE @,
                     !.list_next = Store(Store(Store(@, prev, next), i, None), c.tail, i),
                     !.list_prev = Store(Store(@, next, prev), i, c.tail),
                     !.tail = i]

-----------------------------------------------------------------------------
(* insert                                                                  *)

evictFaults(c) == c.head = None \/ c.list_next[c.head] = None

\* Mutant of unchain: what follows in the chain still points to the victim.
unchainForward(c, victim) ==
  LET next == c.bucket_next[victim]
      prev == c.bucket_prev[victim]
  IN  [c EXCEPT !.bucket = IF prev < 0 THEN Store(@, -prev - 1, next) ELSE @,
                !.bucket_next = IF prev < 0 THEN @ ELSE Store(@, prev, next)]

\* What is before the victim in its chain, if only the bucket, and what is
\* behind it are linked to each other.
unchain(c, victim) ==
  LET next == c.bucket_next[victim]
      prev == c.bucket_prev[victim]
  IN  [c EXCEPT !.bucket = IF prev < 0 THEN Store(@, -prev - 1, next) ELSE @,
                !.bucket_next = IF prev < 0 THEN @ ELSE Store(@, prev, next),
                !.bucket_prev = Store(@, next, prev)]

\* The first of the list becomes the first of the empty nodes.
evict(c) ==
  LET next == c.list_next[c.head]
  IN  unchain([c EXCEPT !.head = next,
                        !.list_prev = Store(@, next, None),
                        !.list_next = Store(@, c.head, c.empty),
                        !.empty = c.head,
                        !.count = @ - 1], c.head)

isFull(c) == c.count >= c.max
insertFaults(c) == isFull(c) /\ evictFaults(c)

append(c, new) ==
  [c EXCEPT !.list_prev = Store(@, new, c.tail),
            !.list_next = Store(Store(@, new, None), c.tail, new),
            !.tail = new,
            !.head = IF @ = None THEN new ELSE @]

\* Mutant of chainFirst: the new node does not get its backward link.
chainFirstForward(c, new, b) ==
  [c EXCEPT !.bucket_next = Store(@, new, c.bucket[b]),
            !.bucket_prev = Store(@, c.bucket[b], new),
            !.bucket[b] = new]

chainFirst(c, new, b) ==
  [c EXCEPT !.bucket_next = Store(@, new, c.bucket[b]),
            !.bucket_prev = Store(Store(@, c.bucket[b], new), new, -b - 1),
            !.bucket[b] = new]

\* One eviction ends the loop, as count is never above max.
insert(c, k) ==
  LET room == IF isFull(c) THEN evict(c) ELSE c
      new == room.empty
      filled == [room EXCEPT !.count = @ + 1, !.empty = room.list_next[new],
                             !.key[new] = k]
  IN  chainFirst(append(filled, new), new, whichBucket(c, k))

-----------------------------------------------------------------------------
(* coherent, which the operations assert when enable_debug is set.          *)

coherent(c) ==
  LET noLoop(walk) == Len(walk) <= c.max + 1
      back == Walk(c, c.tail, c.list_prev)
  IN  /\ noLoop(Walk(c, c.empty, c.list_next))
      /\ noLoop(LruOrder(c)) /\ noLoop(back) /\ Len(LruOrder(c)) = Len(back)
      /\ \A i \in Range(LruOrder(c)) :
           c.bucket_prev[i] < 0 => whichBucket(c, c.key[i]) = -c.bucket_prev[i] - 1
      /\ \A b \in Buckets(c) :
           /\ noLoop(Chain(c, b))
           /\ \A i \in Range(Chain(c, b)) :
                /\ i # c.count
                /\ whichBucket(c, c.key[i]) = b
                /\ ~(c.bucket_prev[i] >= 0 /\ c.bucket_next[i] = c.bucket_prev[i])
=============================================================================
