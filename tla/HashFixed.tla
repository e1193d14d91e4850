------------------------------ MODULE HashFixed ------------------------------
(***************************************************************************)
(* The lock-free table of src/benchmark/src/containers/hash_fixed.h.  It   *)
(* only grows: a counter hands out the slots of an array, and a filled     *)
(* slot is pushed onto the chain of its bucket by compare_exchange.  When  *)
(* the counter passes the capacity, the thread that took too much gives it *)
(* back, and its item is not stored.                                       *)
(*                                                                         *)
(* An action is one access to memory other threads use, with the accesses  *)
(* to private memory around it.  A value is abstracted to its key.         *)
(***************************************************************************)
EXTENDS Integers, FiniteSets, SequencesExt, LinkedLists

CONSTANTS
  Threads,
  Keys,
  Hash,         (* hasher_, a function on Keys                              *)
  Capacity,     (* max_element_count_                                       *)
  LoadFactor,   (* load_factor                                              *)
  Garbage       (* what memory holds before it is first written             *)

BucketCount == Capacity \div LoadFactor
Buckets == 0 .. BucketCount - 1
Slots == 0 .. Capacity - 1
None == -1

ASSUME HashFixedAssumption ==
  /\ Capacity \in Nat /\ LoadFactor \in Nat \ {0}
  /\ BucketCount \in Nat \ {0}
  /\ Hash \in [Keys -> Nat]
  /\ IsFiniteSet(Threads)
  /\ Garbage \notin Int

whichBucket(k) == Hash[k] % BucketCount

VARIABLES
  current_element_count,
  bucket,             (* bucket_: the first slot of every chain             *)
  key, bucket_next,   (* of every element of storage_                       *)
  allocated,
  pc, arg,            (* of every thread; arg is the key of its call        *)
  current,            (* the slot find looks at                             *)
  newelem, next       (* insert's slot, and the chain to push it onto       *)

storage == <<key, bucket_next>>
vars == <<current_element_count, bucket, storage, allocated, pc, arg, current,
          newelem, next>>

Fresh == [n \in Slots |-> Garbage]

Init ==
  /\ current_element_count = 0
  /\ bucket = [b \in Buckets |-> None]
  /\ key = Fresh /\ bucket_next = Fresh
  /\ allocated = TRUE
  /\ pc = [t \in Threads |-> "idle"]
  /\ arg = [t \in Threads |-> Garbage]
  /\ current = [t \in Threads |-> None]
  /\ newelem = [t \in Threads |-> None]
  /\ next = [t \in Threads |-> None]

AllIdle == \A t \in Threads : pc[t] = "idle"

\* What onDelete is called for.
Deleted == {n \in Slots : n < current_element_count}

releaseMemory ==
  /\ allocated /\ AllIdle
  /\ allocated' = FALSE
  /\ UNCHANGED <<current_element_count, bucket, storage, pc, arg, current, newelem,
                 next>>

allocateMemory ==
  /\ ~allocated
  /\ allocated' = TRUE
  /\ current_element_count' = 0
  /\ bucket' = [b \in Buckets |-> None]
  /\ key' = Fresh /\ bucket_next' = Fresh
  /\ UNCHANGED <<pc, arg, current, newelem, next>>

-----------------------------------------------------------------------------
Goto(t, from, to) == pc[t] = from /\ pc' = [pc EXCEPT ![t] = to]

Return(t) ==
  /\ pc' = [pc EXCEPT ![t] = "idle"]
  /\ arg' = [arg EXCEPT ![t] = Garbage]
  /\ current' = [current EXCEPT ![t] = None]
  /\ newelem' = [newelem EXCEPT ![t] = None]
  /\ next' = [next EXCEPT ![t] = None]

(* consumeCachedOrCompute calls find, and insert if find returns nullptr.  *)

Start(t, k) ==
  /\ allocated
  /\ Goto(t, "idle", "visit")
  /\ arg' = [arg EXCEPT ![t] = k]
  /\ current' = [current EXCEPT ![t] = bucket[whichBucket(k)]]
  /\ UNCHANGED <<current_element_count, bucket, storage, allocated, newelem, next>>

VisitHit(t) ==
  /\ pc[t] = "visit" /\ current[t] # None
  /\ key[current[t]] = arg[t]
  /\ Return(t)
  /\ UNCHANGED <<current_element_count, bucket, storage, allocated>>

VisitNext(t) ==
  /\ pc[t] = "visit" /\ current[t] # None
  /\ key[current[t]] # arg[t]
  /\ current' = [current EXCEPT ![t] = bucket_next[current[t]]]
  /\ UNCHANGED <<current_element_count, bucket, storage, allocated, pc, arg,
                 newelem, next>>

\* The key is not there, and neither is room for it.
InsertFull(t) ==
  /\ pc[t] = "visit" /\ current[t] = None
  /\ current_element_count >= Capacity
  /\ Return(t)
  /\ UNCHANGED <<current_element_count, bucket, storage, allocated>>

InsertRoom(t) ==
  /\ Goto(t, "visit", "take") /\ current[t] = None
  /\ current_element_count < Capacity
  /\ UNCHANGED <<current_element_count, bucket, storage, allocated, arg, current,
                 newelem, next>>

\* Mutant of Take: does not look at the index it was given.
TakeUnchecked(t) ==
  /\ Goto(t, "take", "fill")
  /\ newelem' = [newelem EXCEPT ![t] = current_element_count]
  /\ current_element_count' = current_element_count + 1
  /\ UNCHANGED <<bucket, storage, allocated, arg, current, next>>

Take(t) ==
  /\ Goto(t, "take", "fill")
  /\ current_element_count < Capacity
  /\ newelem' = [newelem EXCEPT ![t] = current_element_count]
  /\ current_element_count' = current_element_count + 1
  /\ UNCHANGED <<bucket, storage, allocated, arg, current, next>>

TakeTooMuch(t) ==
  /\ Goto(t, "take", "give_back")
  /\ current_element_count >= Capacity
  /\ current_element_count' = current_element_count + 1
  /\ UNCHANGED <<bucket, storage, allocated, arg, current, newelem, next>>

\* Mutant of GiveBack: sets the counter to the last index.
GiveBackLastIndex(t) ==
  /\ pc[t] = "give_back"
  /\ current_element_count' = Capacity - 1
  /\ Return(t)
  /\ UNCHANGED <<bucket, storage, allocated>>

GiveBack(t) ==
  /\ pc[t] = "give_back"
  /\ current_element_count' = current_element_count - 1
  /\ Return(t)
  /\ UNCHANGED <<bucket, storage, allocated>>

\* Mutant of ReadHead: the chain is read once only, before the loop.
ReadHeadOnce(t) ==
  LET head == IF pc[t] = "fill" THEN bucket[whichBucket(arg[t])] ELSE next[t]
  IN  /\ next' = [next EXCEPT ![t] = head]
      /\ bucket_next' = [bucket_next EXCEPT ![newelem[t]] = head]

\* A turn of the loop up to its compare_exchange.
ReadHead(t) ==
  /\ next' = [next EXCEPT ![t] = bucket[whichBucket(arg[t])]]
  /\ bucket_next' = [bucket_next EXCEPT ![newelem[t]] = bucket[whichBucket(arg[t])]]

Fill(t) ==
  /\ Goto(t, "fill", "push")
  /\ key' = [key EXCEPT ![newelem[t]] = arg[t]]
  /\ ReadHead(t)
  /\ UNCHANGED <<current_element_count, bucket, allocated, arg, current, newelem>>

\* Mutant of Push: a plain store instead of the compare_exchange.
PushStore(t) ==
  /\ pc[t] = "push"
  /\ bucket' = [bucket EXCEPT ![whichBucket(arg[t])] = newelem[t]]
  /\ Return(t)
  /\ UNCHANGED <<current_element_count, storage, allocated>>

Push(t) ==
  /\ pc[t] = "push"
  /\ bucket[whichBucket(arg[t])] = next[t]
  /\ bucket' = [bucket EXCEPT ![whichBucket(arg[t])] = newelem[t]]
  /\ Return(t)
  /\ UNCHANGED <<current_element_count, storage, allocated>>

PushFails(t) ==
  /\ Goto(t, "push", "push")
  /\ bucket[whichBucket(arg[t])] # next[t]
  /\ ReadHead(t)
  /\ UNCHANGED <<current_element_count, bucket, key, allocated, arg, current,
                 newelem>>

Step(t) ==
  \/ VisitHit(t) \/ VisitNext(t) \/ InsertFull(t) \/ InsertRoom(t)
  \/ Take(t) \/ TakeTooMuch(t) \/ GiveBack(t)
  \/ Fill(t) \/ Push(t) \/ PushFails(t)

Next ==
  \/ \E t \in Threads : Step(t) \/ \E k \in Keys : Start(t, k)
  \/ releaseMemory
  \/ allocateMemory

Spec == Init /\ [][Next]_vars

PCs == {"idle", "visit", "take", "give_back", "fill", "push"}
Over == {t \in Threads : pc[t] = "give_back"}
Owning == {t \in Threads : pc[t] \in {"fill", "push"}}

-----------------------------------------------------------------------------
(* Every variable has its type; every link a thread holds is a slot or the *)
(* end of a chain, and a slot in a chain has been written.                 *)
TypeOK ==
  /\ current_element_count \in Nat
  /\ bucket \in [Buckets -> Slots \cup {None}]
  /\ key \in [Slots -> Keys \cup {Garbage}]
  /\ bucket_next \in [Slots -> Slots \cup {None, Garbage}]
  /\ allocated \in BOOLEAN
  /\ pc \in [Threads -> PCs]
  /\ arg \in [Threads -> Keys \cup {Garbage}]
  /\ current \in [Threads -> Slots \cup {None}]
  /\ newelem \in [Threads -> Slots \cup {None}]
  /\ next \in [Threads -> Slots \cup {None}]
  /\ \A t \in Threads : pc[t] # "idle" => arg[t] \in Keys
  /\ \A t \in Owning : newelem[t] \in Slots

(* However many threads take slots at once and give the excess back, the   *)
(* counter is the number of slots handed out, or, when all are, exceeds    *)
(* the capacity by the threads that have yet to give back (insert 171-176);*)
(* so size() is at most capacity() when no call is in progress.            *)
CounterTells ==
  \/ current_element_count < Capacity /\ Over = {}
  \/ current_element_count = Capacity + Cardinality(Over)

(* A slot is handed out once: no two threads fill one, and none that is    *)
(* being filled can be reached by a lookup (insert 171-187).               *)
NoSlotTwice ==
  \A t \in Owning :
    /\ newelem[t] < current_element_count
    /\ \A u \in Owning : newelem[u] = newelem[t] => u = t
    /\ \A b \in Buckets : bucket[b] # newelem[t]
    /\ \A n \in Slots : bucket_next[n] # newelem[t]
    /\ \A u \in Threads : current[u] # newelem[t] /\ next[u] # newelem[t]

-----------------------------------------------------------------------------
(* The slots of a chain, in order, cut off after one more than there are.  *)
Chain(start) == Follow(start, bucket_next, Slots, Capacity)

Stored == UNION {Range(Chain(bucket[b])) : b \in Buckets}

(* When no call is in progress the slots below the counter, those          *)
(* releaseMemory hands to onDelete (122-124), are exactly those stored in  *)
(* some chain: no item is forgotten and none is deleted that never was.    *)
DeletesWhatIsStored == allocated /\ AllIdle => Deleted = Stored

(* An item stays in its chain, in its place, with its key: a chain only    *)
(* grows at its head.  Find needs it, since it looks at a chain without a  *)
(* lock, and what insert promises ("never invalidate iterators").          *)
ChainsGrowAtHead ==
  [][\A b \in Buckets : allocated =>
       /\ IsSuffix(Chain(bucket[b]), Chain(bucket[b])')
       /\ \A n \in Range(Chain(bucket[b])) : key'[n] = key[n]]_<<bucket, storage>>

(* Every call returns: the compare_exchange of insert can fail only as     *)
(* often as other threads push, and the table has only so many slots.      *)
CallsReturn == \A t \in Threads : pc[t] # "idle" ~> pc[t] = "idle"
=============================================================================
