--------------------------- MODULE HashFixedProofs ---------------------------
(* Proofs about HashFixed for all values of its constants: the counter     *)
(* tells how many slots are handed out, and so none is handed out twice.   *)
EXTENDS MCHashFixed, LinkedListProofs

(* A link is the end of a chain or a slot that has been handed out and     *)
(* written.                                                                *)
LinkOK(p) ==
  p = None \/ (p < current_element_count /\ bucket_next[p] # Garbage)

LinksOK ==
  /\ \A b \in Buckets : LinkOK(bucket[b])
  /\ \A n \in Slots : bucket_next[n] = Garbage \/ LinkOK(bucket_next[n])
  /\ \A t \in Threads : LinkOK(current[t]) /\ LinkOK(next[t])
  /\ \A t \in Threads : pc[t] = "push" => bucket_next[newelem[t]] # Garbage

AtRest ==
  /\ ~allocated => AllIdle
  /\ \A t \in Threads : pc[t] = "idle" => current[t] = None /\ next[t] = None

(* The inductive invariant.  NoSlotTwice needs that the next slot to be    *)
(* handed out is linked nowhere, which LinksOK says, and that giving back  *)
(* never frees a slot, which CounterTells says.                            *)
IInv == TypeOK /\ CounterTells /\ NoSlotTwice /\ LinksOK /\ AtRest

(* A key's bucket exists.                                                  *)
LEMMA BucketInRange ==
  ASSUME NEW k \in Keys
  PROVE  whichBucket(k) \in Buckets
<1>1. Hash[k] \in Nat /\ BucketCount \in Nat \ {0}
  BY HashFixedAssumption
<1>. QED
  BY <1>1 DEF whichBucket, Buckets

(* Garbage is no link.                                                     *)
LEMMA GarbageIsNoLink == Garbage \notin Slots \cup {None}
<1>1. Slots \cup {None} \subseteq Int
  BY HashFixedAssumption DEF Slots, None
<1>. QED
  BY <1>1, HashFixedAssumption

(* While a thread has yet to give back, the counter is above the capacity. *)
LEMMA OverCounts ==
  ASSUME TypeOK, CounterTells
  PROVE  /\ IsFiniteSet(Over) /\ Cardinality(Over) \in Nat
         /\ Over # {} => current_element_count > Capacity
<1>1. IsFiniteSet(Over)
  BY FS_Subset, HashFixedAssumption DEF Over
<1>2. Cardinality(Over) \in Nat /\ (Cardinality(Over) = 0 <=> Over = {})
  BY <1>1, FS_CardinalityType, FS_EmptySet
<1>. QED
  BY <1>1, <1>2, HashFixedAssumption DEF CounterTells

(* A fresh table satisfies the invariant.                                  *)
LEMMA InitIInv == Init => IInv
<1>. SUFFICES ASSUME Init PROVE IInv
  OBVIOUS
<1>. USE DEF Init, Fresh
<1>1. TypeOK
  BY DEF TypeOK, PCs, Owning
<1>2. Over = {} /\ Owning = {}
  BY DEF Over, Owning
<1>3. CounterTells
  <2>1. Capacity # 0
    BY HashFixedAssumption DEF BucketCount
  <2>. QED
    BY <1>2, <2>1, HashFixedAssumption DEF CounterTells
<1>4. NoSlotTwice
  BY <1>2 DEF NoSlotTwice
<1>5. LinksOK /\ AtRest
  BY DEF LinksOK, LinkOK, AtRest, AllIdle
<1>. QED
  BY <1>1, <1>3, <1>4, <1>5 DEF IInv

(* A step of a call that leaves the counter and the storage as they are.   *)
LEMMA QuietStep ==
  ASSUME NEW t \in Threads, IInv,
         VisitHit(t) \/ VisitNext(t) \/ InsertFull(t) \/ InsertRoom(t)
  PROVE  IInv'
<1>. USE DEF IInv, Return, Goto
<1>1. /\ pc[t] = "visit"
      /\ pc' \in [Threads -> PCs] /\ pc'[t] \in {"idle", "visit", "take"}
      /\ \A u \in Threads : u # t => pc'[u] = pc[u]
      /\ UNCHANGED <<current_element_count, bucket, key, bucket_next, allocated>>
  BY DEF VisitHit, VisitNext, InsertFull, InsertRoom, storage, TypeOK, PCs
<1>2. Owning' = Owning /\ Over' = Over /\ t \notin Owning
  BY <1>1 DEF Owning, Over
<1>3. /\ \A u \in Threads : newelem'[u] = newelem[u] \/ (u = t /\ newelem'[u] = None)
      /\ \A u \in Threads : next'[u] = next[u] \/ next'[u] = None
      /\ \A u \in Threads : \/ current'[u] = current[u] \/ current'[u] = None
                           \/ /\ current[u] \in Slots
                              /\ current'[u] = bucket_next[current[u]]
      /\ \A u \in Threads : pc'[u] = "idle" => \/ pc[u] = "idle" /\ current'[u] = current[u] /\ next'[u] = next[u]
                                               \/ current'[u] = None /\ next'[u] = None
  BY DEF VisitHit, VisitNext, InsertFull, InsertRoom, TypeOK
<1>4. TypeOK'
  <2>1. \A u \in Threads : current[u] = None \/ bucket_next[current[u]] # Garbage
    BY DEF LinksOK, LinkOK
  <2>2. CASE VisitNext(t)
    BY <1>1, <1>2, <2>1, <2>2, GarbageIsNoLink DEF TypeOK, VisitNext
  <2>3. CASE ~VisitNext(t)
    BY <1>1, <1>2, <2>3 DEF TypeOK, VisitHit, InsertFull, InsertRoom, storage, Owning
  <2>. QED
    BY <2>2, <2>3
<1>5. CounterTells'
  BY <1>1, <1>2 DEF CounterTells
<1>6. NoSlotTwice'
  <2>1. \A v \in Owning : newelem'[v] = newelem[v] /\ newelem[v] \in Slots /\ newelem[v] # None
    BY <1>2, <1>3, HashFixedAssumption DEF TypeOK, Slots, None, Owning
  <2>2. \A u \in Threads, v \in Owning : current'[u] # newelem[v] /\ next'[u] # newelem[v]
    BY <1>3, <2>1 DEF NoSlotTwice
  <2>3. \A v \in Owning : /\ newelem[v] < current_element_count
                          /\ \A u \in Owning : newelem[u] = newelem[v] => u = v
                          /\ \A b \in Buckets : bucket[b] # newelem[v]
                          /\ \A n \in Slots : bucket_next[n] # newelem[v]
    BY DEF NoSlotTwice
  <2>. QED
    BY <1>1, <1>2, <2>1, <2>2, <2>3 DEF NoSlotTwice
<1>7. LinksOK'
  <2>1. \A p : LinkOK(p)' <=> LinkOK(p)
    BY <1>1 DEF LinkOK
  <2>2. \A n \in Slots : LinkOK(n) => LinkOK(bucket_next[n])
    BY HashFixedAssumption DEF LinksOK, LinkOK, Slots, None
  <2>3. \A u \in Threads : LinkOK(current'[u]) /\ LinkOK(next'[u])
    BY <1>3, <2>2 DEF LinksOK, LinkOK
  <2>4. \A u \in Threads : pc'[u] = "push" => u # t /\ pc[u] = "push" /\ newelem'[u] = newelem[u]
    BY <1>1, <1>3
  <2>. QED
    BY <1>1, <2>1, <2>3, <2>4 DEF LinksOK
<1>8. AtRest'
  BY <1>1, <1>3 DEF AtRest, AllIdle
<1>. QED
  BY <1>4, <1>5, <1>6, <1>7, <1>8

(* insert takes a slot: the counter's value, which is linked nowhere yet.  *)
LEMMA TakeStep ==
  ASSUME NEW t \in Threads, IInv, Take(t)
  PROVE  IInv'
<1>. USE DEF IInv, Goto
<1>1. /\ pc[t] = "take" /\ pc' = [pc EXCEPT ![t] = "fill"]
      /\ current_element_count < Capacity
      /\ newelem' = [newelem EXCEPT ![t] = current_element_count]
      /\ current_element_count' = current_element_count + 1
      /\ UNCHANGED <<bucket, key, bucket_next, allocated, arg, current, next>>
  BY DEF Take, storage
<1>2. current_element_count \in Slots /\ current_element_count # None
  BY <1>1, HashFixedAssumption DEF TypeOK, Slots, None
<1>3. Owning' = Owning \cup {t} /\ t \notin Owning /\ Over' = Over
  BY <1>1 DEF Owning, Over, TypeOK
<1>4. TypeOK'
  BY <1>1, <1>2, <1>3 DEF TypeOK, PCs
<1>5. Over = {}
  BY <1>1, OverCounts, HashFixedAssumption DEF TypeOK
<1>6. CounterTells'
  BY <1>1, <1>3, <1>5, FS_EmptySet, HashFixedAssumption DEF CounterTells, TypeOK
<1>7. \A n \in Slots \cup {None} : n < current_element_count => n < current_element_count'
  BY <1>1, HashFixedAssumption DEF TypeOK, Slots, None
<1>8. LinksOK'
  BY <1>1, <1>3, <1>7 DEF LinksOK, LinkOK, TypeOK, Owning
<1>9. NoSlotTwice'
  <2>1. \A p \in Slots \cup {None} : LinkOK(p) => p # current_element_count
    BY <1>2, HashFixedAssumption DEF LinkOK, Slots
  <2>2. /\ \A b \in Buckets : bucket[b] # current_element_count
        /\ \A n \in Slots : bucket_next[n] # current_element_count
        /\ \A u \in Threads : current[u] # current_element_count /\ next[u] # current_element_count
    BY <1>2, <2>1, GarbageIsNoLink DEF LinksOK, TypeOK
  <2>3. \A u \in Owning : /\ newelem'[u] = newelem[u] /\ newelem[u] # current_element_count
                          /\ newelem[u] < current_element_count'
    BY <1>1, <1>3, <1>7, HashFixedAssumption DEF NoSlotTwice, TypeOK, Slots, Owning
  <2>4. newelem'[t] = current_element_count /\ current_element_count < current_element_count'
    BY <1>1 DEF TypeOK
  <2>. QED
    BY <1>1, <1>3, <2>2, <2>3, <2>4 DEF NoSlotTwice
<1>10. AtRest'
  BY <1>1 DEF AtRest, AllIdle, TypeOK
<1>. QED
  BY <1>4, <1>6, <1>8, <1>9, <1>10

(* A thread takes too much, and gives it back: the counter never goes      *)
(* below the slots that are handed out.                                    *)
LEMMA OverStep ==
  ASSUME NEW t \in Threads, IInv, TakeTooMuch(t) \/ GiveBack(t)
  PROVE  IInv'
<1>. USE DEF IInv, Goto, Return
<1>1. /\ pc' \in [Threads -> PCs]
      /\ pc[t] \in {"take", "give_back"} /\ pc'[t] \in {"give_back", "idle"}
      /\ \A u \in Threads : u # t => /\ pc'[u] = pc[u] /\ arg'[u] = arg[u]
                                    /\ newelem'[u] = newelem[u]
                                    /\ current'[u] = current[u] /\ next'[u] = next[u]
      /\ current'[t] \in {current[t], None} /\ next'[t] \in {next[t], None}
      /\ pc'[t] = "idle" => current'[t] = None /\ next'[t] = None
      /\ UNCHANGED <<bucket, key, bucket_next, allocated>>
  BY DEF TakeTooMuch, GiveBack, storage, TypeOK, PCs
<1>2. Owning' = Owning /\ t \notin Owning
  BY <1>1 DEF Owning
<1>3. /\ current_element_count' >= Capacity /\ current_element_count' \in Nat
      /\ current_element_count' = Capacity + Cardinality(Over')
  <2>1. CASE TakeTooMuch(t)
    <3>1. Over' = Over \cup {t} /\ t \notin Over
      BY <2>1 DEF TakeTooMuch, Over, TypeOK
    <3>2. Cardinality(Over') = Cardinality(Over) + 1
      BY <3>1, OverCounts, FS_AddElement
    <3>. QED
      BY <2>1, <3>2, OverCounts, HashFixedAssumption DEF TakeTooMuch, CounterTells, TypeOK
  <2>2. CASE GiveBack(t)
    <3>1. Over' = Over \ {t} /\ t \in Over
      BY <2>2 DEF GiveBack, Over, TypeOK
    <3>2. Cardinality(Over') = Cardinality(Over) - 1
      BY <3>1, OverCounts, FS_RemoveElement
    <3>. QED
      BY <2>2, <3>1, <3>2, OverCounts, HashFixedAssumption
         DEF GiveBack, CounterTells, TypeOK
  <2>. QED
    BY <2>1, <2>2
<1>4. \A n \in Slots \cup {None} : n < current_element_count'
  BY <1>3, HashFixedAssumption DEF Slots, None
<1>5. TypeOK'
  <2>1. CASE TakeTooMuch(t)
    BY <1>1, <1>2, <1>3, <2>1 DEF TypeOK, TakeTooMuch
  <2>2. CASE GiveBack(t)
    BY <1>1, <1>2, <1>3, <2>2 DEF TypeOK, GiveBack, Owning
  <2>. QED
    BY <2>1, <2>2
<1>6. CounterTells'
  BY <1>3 DEF CounterTells
<1>7. NoSlotTwice'
  <2>1. \A v \in Owning : /\ v \in Threads /\ v # t /\ newelem'[v] = newelem[v]
                          /\ newelem[v] \in Slots /\ newelem[v] # None
    BY <1>1, <1>2, HashFixedAssumption DEF TypeOK, Slots, None, Owning
  <2>2. \A u \in Threads, v \in Owning : current'[u] # newelem[v] /\ next'[u] # newelem[v]
    BY <1>1, <2>1 DEF NoSlotTwice
  <2>. QED
    BY <1>1, <1>2, <1>4, <2>1, <2>2 DEF NoSlotTwice
<1>8. LinksOK'
  BY <1>1, <1>4 DEF LinksOK, LinkOK, TypeOK
<1>9. AtRest'
  BY <1>1 DEF AtRest, AllIdle
<1>. QED
  BY <1>5, <1>6, <1>7, <1>8, <1>9

(* insert writes its slot, or tries again to push it: the slot is its own. *)
LEMMA WriteStep ==
  ASSUME NEW t \in Threads, IInv, Fill(t) \/ PushFails(t)
  PROVE  IInv'
<1>. USE DEF IInv, Goto
<1>. DEFINE head == bucket[whichBucket(arg[t])]
            mine == newelem[t]
<1>1. /\ pc[t] \in {"fill", "push"} /\ pc' = [pc EXCEPT ![t] = "push"]
      /\ next' = [next EXCEPT ![t] = head]
      /\ bucket_next' = [bucket_next EXCEPT ![mine] = head]
      /\ key' = [key EXCEPT ![mine] = arg[t]] \/ key' = key
      /\ UNCHANGED <<current_element_count, bucket, allocated, arg, current, newelem>>
  BY DEF Fill, PushFails, ReadHead
<1>2. Owning' = Owning /\ Over' = Over /\ t \in Owning
  BY <1>1 DEF Owning, Over, TypeOK
<1>3. arg[t] \in Keys /\ whichBucket(arg[t]) \in Buckets /\ mine \in Slots
  BY <1>1, <1>2, BucketInRange DEF TypeOK
<1>4. head \in Slots \cup {None} /\ head # Garbage /\ LinkOK(head)
  BY <1>3, GarbageIsNoLink DEF TypeOK, LinksOK
<1>5. TypeOK'
  BY <1>1, <1>2, <1>3, <1>4 DEF TypeOK, PCs
<1>6. CounterTells'
  BY <1>1, <1>2 DEF CounterTells
<1>7. \A p : LinkOK(p) => LinkOK(p)'
  BY <1>1, <1>3, <1>4 DEF LinkOK, TypeOK
<1>8. LinksOK'
  <2>1. \A u \in Threads : pc'[u] = "push" => bucket_next'[newelem'[u]] # Garbage
    BY <1>1, <1>3, <1>4 DEF LinksOK, TypeOK
  <2>2. \A n \in Slots : bucket_next'[n] = Garbage \/ LinkOK(bucket_next'[n])
    BY <1>1, <1>3, <1>4 DEF LinksOK, TypeOK
  <2>3. \A u \in Threads : LinkOK(current'[u]) /\ LinkOK(next'[u])
    BY <1>1, <1>4 DEF LinksOK, TypeOK
  <2>. QED
    BY <1>1, <1>7, <2>1, <2>2, <2>3 DEF LinksOK
<1>9. NoSlotTwice'
  <2>1. \A v \in Owning : head # newelem[v]
    BY <1>3 DEF NoSlotTwice
  <2>2. \A v \in Owning, n \in Slots : bucket_next'[n] # newelem[v]
    BY <1>1, <1>3, <2>1 DEF NoSlotTwice, TypeOK
  <2>3. \A v \in Owning, u \in Threads : next'[u] # newelem[v]
    BY <1>1, <2>1 DEF NoSlotTwice, TypeOK
  <2>. QED
    BY <1>1, <1>2, <2>2, <2>3 DEF NoSlotTwice
<1>10. AtRest'
  BY <1>1 DEF AtRest, AllIdle, TypeOK
<1>. QED
  BY <1>5, <1>6, <1>8, <1>9, <1>10

(* insert pushes its slot, which from then on is a link.                   *)
LEMMA PushStep ==
  ASSUME NEW t \in Threads, IInv, Push(t)
  PROVE  IInv'
<1>. USE DEF IInv, Return
<1>. DEFINE b == whichBucket(arg[t])
            mine == newelem[t]
<1>1. /\ pc[t] = "push" /\ pc' = [pc EXCEPT ![t] = "idle"]
      /\ bucket' = [bucket EXCEPT ![b] = mine]
      /\ arg' = [arg EXCEPT ![t] = Garbage]
      /\ current' = [current EXCEPT ![t] = None]
      /\ newelem' = [newelem EXCEPT ![t] = None]
      /\ next' = [next EXCEPT ![t] = None]
      /\ UNCHANGED <<current_element_count, key, bucket_next, allocated>>
  BY DEF Push, storage
<1>2. Owning' = Owning \ {t} /\ Over' = Over /\ t \in Owning
  BY <1>1 DEF Owning, Over, TypeOK
<1>3. b \in Buckets /\ mine \in Slots /\ mine < current_element_count
  BY <1>1, <1>2, BucketInRange DEF TypeOK, NoSlotTwice
<1>4. LinkOK(mine) /\ LinkOK(None)
  BY <1>1, <1>3 DEF LinksOK, LinkOK
<1>5. TypeOK'
  BY <1>1, <1>2, <1>3 DEF TypeOK, PCs
<1>6. CounterTells'
  BY <1>1, <1>2 DEF CounterTells
<1>7. LinksOK'
  <2>1. \A p : LinkOK(p)' <=> LinkOK(p)
    BY <1>1 DEF LinkOK
  <2>2. \A u \in Threads : LinkOK(current'[u]) /\ LinkOK(next'[u])
    BY <1>1, <1>4 DEF LinksOK, TypeOK
  <2>3. \A c \in Buckets : LinkOK(bucket'[c])
    BY <1>1, <1>3, <1>4 DEF LinksOK, TypeOK
  <2>4. \A u \in Threads : pc'[u] = "push" => u # t /\ pc[u] = "push" /\ newelem'[u] = newelem[u]
    BY <1>1 DEF TypeOK
  <2>. QED
    BY <1>1, <2>1, <2>2, <2>3, <2>4 DEF LinksOK
<1>8. NoSlotTwice'
  <2>1. \A v \in Owning' : /\ v \in Owning /\ v \in Threads /\ newelem'[v] = newelem[v]
                           /\ newelem[v] \in Slots /\ newelem[v] # None /\ newelem[v] # mine
    BY <1>1, <1>2, HashFixedAssumption DEF NoSlotTwice, TypeOK, Owning, Slots, None
  <2>2. \A v \in Owning', u \in Threads : current'[u] # newelem[v] /\ next'[u] # newelem[v]
    BY <1>1, <2>1 DEF NoSlotTwice, TypeOK
  <2>3. \A v \in Owning', c \in Buckets : bucket'[c] # newelem[v]
    BY <1>1, <1>3, <2>1 DEF NoSlotTwice, TypeOK
  <2>. QED
    BY <1>1, <2>1, <2>2, <2>3 DEF NoSlotTwice
<1>9. AtRest'
  BY <1>1 DEF AtRest, AllIdle, TypeOK
<1>. QED
  BY <1>5, <1>6, <1>7, <1>8, <1>9
(* A call begins: its lookup looks at the head of the chain first.         *)
LEMMA StartStep ==
  ASSUME NEW t \in Threads, NEW k \in Keys, IInv, Start(t, k)
  PROVE  IInv'
<1>. USE DEF IInv, Goto
<1>1. /\ pc[t] = "idle" /\ pc' = [pc EXCEPT ![t] = "visit"]
      /\ allocated
      /\ arg' = [arg EXCEPT ![t] = k]
      /\ current' = [current EXCEPT ![t] = bucket[whichBucket(k)]]
      /\ UNCHANGED <<current_element_count, bucket, key, bucket_next, allocated,
                     newelem, next>>
  BY DEF Start, storage
<1>2. Owning' = Owning /\ Over' = Over
  BY <1>1 DEF Owning, Over, TypeOK
<1>3. whichBucket(k) \in Buckets
  BY BucketInRange
<1>4. TypeOK'
  BY <1>1, <1>2, <1>3 DEF TypeOK, PCs
<1>5. CounterTells'
  BY <1>1, <1>2 DEF CounterTells
<1>6. NoSlotTwice'
  <2>1. \A u \in Threads, v \in Owning : current'[u] # newelem[v]
    BY <1>1, <1>3 DEF NoSlotTwice, TypeOK
  <2>. QED
    BY <1>1, <1>2, <2>1 DEF NoSlotTwice
<1>7. LinksOK'
  BY <1>1, <1>3 DEF LinksOK, LinkOK, TypeOK
<1>8. AtRest'
  BY <1>1 DEF AtRest, AllIdle, TypeOK
<1>. QED
  BY <1>4, <1>5, <1>6, <1>7, <1>8

(* The memory is released, and allocated anew: no thread is in a call.     *)
LEMMA MemoryStep ==
  ASSUME IInv, releaseMemory \/ allocateMemory
  PROVE  IInv'
<1>. USE DEF IInv
<1>1. AllIdle /\ Owning = {} /\ Over = {}
  BY DEF releaseMemory, AtRest, AllIdle, allocateMemory, Owning, Over
<1>2. UNCHANGED <<pc, arg, current, newelem, next>> /\ Owning' = Owning /\ Over' = Over
  BY DEF releaseMemory, allocateMemory, Owning, Over
<1>3. NoSlotTwice'
  BY <1>1, <1>2 DEF NoSlotTwice
<1>4. CASE releaseMemory
  <2>1. UNCHANGED <<current_element_count, bucket, key, bucket_next>> /\ allocated' = FALSE
    BY <1>4 DEF releaseMemory, storage
  <2>2. TypeOK' /\ CounterTells'
    BY <1>2, <2>1 DEF TypeOK, CounterTells
  <2>3. LinksOK' /\ AtRest'
    BY <1>1, <1>2, <2>1 DEF LinksOK, LinkOK, AtRest, AllIdle
  <2>. QED
    BY <1>3, <2>2, <2>3
<1>5. CASE allocateMemory
  <2>1. /\ current_element_count' = 0 /\ allocated' = TRUE
        /\ bucket' = [b \in Buckets |-> None] /\ key' = Fresh /\ bucket_next' = Fresh
    BY <1>5 DEF allocateMemory
  <2>2. TypeOK'
    BY <1>2, <2>1 DEF TypeOK, Fresh
  <2>3. CounterTells'
    <3>1. Capacity # 0
      BY HashFixedAssumption DEF BucketCount
    <3>. QED
      BY <1>1, <1>2, <2>1, <3>1, HashFixedAssumption DEF CounterTells
  <2>4. LinksOK' /\ AtRest'
    BY <1>1, <1>2, <2>1 DEF LinksOK, LinkOK, AtRest, AllIdle, Fresh
  <2>. QED
    BY <1>3, <2>2, <2>3, <2>4
<1>. QED
  BY <1>4, <1>5

(* Every step of the table keeps it.                                       *)
LEMMA NextIInv == IInv /\ [Next]_vars => IInv'
<1>. SUFFICES ASSUME IInv, [Next]_vars PROVE IInv'
  OBVIOUS
<1>1. CASE \E t \in Threads : Step(t)
  BY <1>1, QuietStep, TakeStep, OverStep, WriteStep, PushStep DEF Step
<1>2. CASE \E t \in Threads, k \in Keys : Start(t, k)
  BY <1>2, StartStep
<1>3. CASE releaseMemory \/ allocateMemory
  BY <1>3, MemoryStep
<1>4. CASE UNCHANGED vars
  BY <1>4 DEF vars, storage, IInv, TypeOK, CounterTells, NoSlotTwice, LinksOK, LinkOK,
              AtRest, AllIdle, Owning, Over
<1>. QED
  BY <1>1, <1>2, <1>3, <1>4 DEF Next

(* So it always holds.                                                     *)
LEMMA SpecIInv == Spec => []IInv
<1>. QED
  BY InitIInv, NextIInv, PTL DEF Spec

(* Every variable keeps its type: a link a lookup or an insert follows is  *)
(* always a slot of the array or the end of a chain, never what memory     *)
(* held before (find 195-205, insert 184-187).                             *)
THEOREM SpecTypeOK == Spec => []TypeOK
<1>1. IInv => TypeOK
  BY DEF IInv
<1>. QED
  BY <1>1, SpecIInv, PTL

(* Whatever the threads that overshoot do, the counter tells how many      *)
(* slots are handed out (insert 164-176).                                  *)
THEOREM SpecCounterTells == Spec => []CounterTells
<1>1. IInv => CounterTells
  BY DEF IInv
<1>. QED
  BY <1>1, SpecIInv, PTL

(* No slot is handed out twice, and no lookup reaches one that is being    *)
(* filled (insert 171-187).                                                *)
THEOREM SpecNoSlotTwice == Spec => []NoSlotTwice
<1>1. IInv => NoSlotTwice
  BY DEF IInv
<1>. QED
  BY <1>1, SpecIInv, PTL

-----------------------------------------------------------------------------
(* The chains: every one ends, has no slot twice, and only slots of its    *)
(* bucket, and so has what is left of it for a lookup to look at.  What    *)
(* has been handed out is in a chain, or owned by a thread.                *)
EndsAt(p) == Arrives(p, bucket_next, None, Slots, Capacity)

Owned == {newelem[t] : t \in Owning}

ChainsOK ==
  /\ \A b \in Buckets : EndsAt(bucket[b])
  /\ \A b \in Buckets : \A n \in Range(Chain(bucket[b])) :
       key[n] \in Keys /\ whichBucket(key[n]) = b

ThreadsOK ==
  /\ \A t \in Threads : EndsAt(current[t])
  /\ \A t \in Threads : pc[t] = "push" => /\ bucket_next[newelem[t]] = next[t]
                                          /\ key[newelem[t]] = arg[t]

AllAccounted == Deleted = Stored \cup Owned

ChainInv == IInv /\ ChainsOK /\ ThreadsOK /\ AllAccounted

(* What the lemmas on lists need to know of the slots.                     *)
LEMMA SlotFacts ==
  /\ IsFiniteSet(Slots) /\ Capacity \in Nat /\ Cardinality(Slots) <= Capacity + 1
  /\ None \notin Slots
<1>1. Capacity \in Nat
  BY HashFixedAssumption
<1>2. IsFiniteSet(Slots) /\ Cardinality(Slots) = IF 0 > Capacity - 1 THEN 0 ELSE Capacity - 1 - 0 + 1
  BY <1>1, FS_Interval DEF Slots
<1>. QED
  BY <1>1, <1>2 DEF Slots, None

(* An owned slot is in no chain, nor in what is left of one for a lookup.  *)
LEMMA OwnedIsApart ==
  ASSUME TypeOK, NoSlotTwice, NEW p, EndsAt(p),
         (\E b \in Buckets : p = bucket[b]) \/ (\E t \in Threads : p = current[t])
  PROVE  /\ Range(Chain(p)) \subseteq Slots
         /\ \A t \in Owning : newelem[t] \notin Range(Chain(p))
<1>1. \A n \in Range(Chain(p)) : n \in Slots /\ (n = p \/ \E m \in Slots : bucket_next[m] = n)
  <2>. SUFFICES ASSUME NEW n \in Range(Chain(p))
                PROVE  n \in Slots /\ (n = p \/ \E m \in Slots : bucket_next[m] = n)
    OBVIOUS
  <2>1. n \in Slots /\ (n = p \/ \E m \in Range(Chain(p)) : bucket_next[m] = n)
    BY EndsReached DEF EndsAt, Chain
  <2>2. \A m \in Range(Chain(p)) : m \in Slots
    BY EndsReached DEF EndsAt, Chain
  <2>. QED
    BY <2>1, <2>2
<1>. QED
  BY <1>1 DEF NoSlotTwice

(* A chain that ends is a sequence of slots.                                *)
LEMMA ChainIsSeq ==
  ASSUME NEW p, EndsAt(p)
  PROVE  Chain(p) \in Seq(Slots)
BY DEF EndsAt, Arrives, Distinct, Chain

(* Chains that no link changes of are the same.                            *)
LEMMA ChainStays ==
  ASSUME NEW p, EndsAt(p), \A n \in Range(Chain(p)) : bucket_next'[n] = bucket_next[n]
  PROVE  /\ Follow(p, bucket_next', Slots, Capacity) = Chain(p)
         /\ Arrives(p, bucket_next', None, Slots, Capacity)
BY SlotFacts, EndsFrame DEF EndsAt, Chain

(* Steps that change no link and no bucket.                                *)
LEMMA SameChains ==
  ASSUME UNCHANGED <<bucket, bucket_next>>
  PROVE  /\ \A b \in Buckets : Chain(bucket[b])' = Chain(bucket[b])
         /\ Stored' = Stored
         /\ \A p : Chain(p)' = Chain(p) /\ (EndsAt(p)' <=> EndsAt(p))
BY DEF Chain, Stored, EndsAt

(* A table that was just allocated has only empty chains.                  *)
LEMMA InitChainInv == Init => ChainInv
<1>. SUFFICES ASSUME Init PROVE ChainInv
  OBVIOUS
<1>1. IInv
  BY InitIInv
<1>2. Chain(None) = <<>> /\ EndsAt(None) /\ Range(<<>>) = {}
  BY SlotFacts, EndsAtOnce DEF Chain, EndsAt, Range
<1>3. (\A b \in Buckets : bucket[b] = None) /\ \A t \in Threads : current[t] = None
  BY DEF Init
<1>4. ChainsOK /\ ThreadsOK
  BY <1>2, <1>3 DEF ChainsOK, ThreadsOK, Init
<1>5. Stored = {}
  BY <1>2, <1>3 DEF Stored
<1>6. Owned = {} /\ Deleted = {}
  BY DEF Owned, Owning, Deleted, Init, Slots
<1>. QED
  BY <1>1, <1>4, <1>5, <1>6 DEF ChainInv, AllAccounted

(* A step of a lookup, or one that takes or gives back a slot.             *)
LEMMA ReadStepChains ==
  ASSUME NEW t \in Threads, ChainInv,
         \/ VisitHit(t) \/ VisitNext(t) \/ InsertFull(t) \/ InsertRoom(t)
         \/ Take(t) \/ TakeTooMuch(t) \/ GiveBack(t)
  PROVE  ChainsOK' /\ ThreadsOK' /\ AllAccounted'
<1>. USE DEF Return, Goto
<1>a. TypeOK /\ CounterTells /\ LinksOK
  BY DEF ChainInv, IInv
<1>1. /\ UNCHANGED <<bucket, key, bucket_next>>
      /\ pc[t] \in {"visit", "take", "give_back"} /\ pc'[t] \notin {"push"}
      /\ \A u \in Threads : u # t => /\ pc'[u] = pc[u] /\ arg'[u] = arg[u] /\ next'[u] = next[u]
                                    /\ newelem'[u] = newelem[u] /\ current'[u] = current[u]
  BY <1>a DEF VisitHit, VisitNext, InsertFull, InsertRoom, Take, TakeTooMuch, GiveBack,
     storage,
              TypeOK, PCs
<1>2. ChainsOK'
  BY <1>1, SameChains DEF ChainsOK, ChainInv
<1>3. ThreadsOK'
  <2>1. EndsAt(current[t])
    BY DEF ChainInv, ThreadsOK
  <2>2. \/ current'[t] = None \/ current'[t] = current[t]
        \/ current[t] \in Slots /\ current'[t] = bucket_next[current[t]]
    BY <1>a DEF VisitHit, VisitNext, InsertFull, InsertRoom, Take, TakeTooMuch, GiveBack,
       TypeOK
  <2>3. EndsAt(None)
    BY SlotFacts, EndsAtOnce DEF EndsAt
  <2>4. current[t] \in Slots => EndsAt(bucket_next[current[t]])
    BY <2>1, SlotFacts, EndsRest DEF EndsAt
  <2>5. EndsAt(current'[t])
    BY <2>1, <2>2, <2>3, <2>4
  <2>6. \A u \in Threads : EndsAt(current'[u])
    BY <1>1, <2>5 DEF ChainInv, ThreadsOK
  <2>7. \A u \in Threads : EndsAt(current[u])'
    BY <1>1, <2>6 DEF EndsAt
  <2>. QED
    BY <1>1, <2>7 DEF ChainInv, ThreadsOK
<1>4. AllAccounted'
  <2>1. Stored' = Stored
    BY <1>1, SameChains
  <2>2. CASE Take(t)
    <3>1. /\ current_element_count < Capacity
          /\ pc[t] = "take" /\ pc'[t] = "fill" /\ newelem'[t] = current_element_count
          /\ current_element_count' = current_element_count + 1
      BY <1>a, <2>2 DEF Take, TypeOK
    <3>2. current_element_count \in Slots
      BY <1>a, <3>1, HashFixedAssumption DEF TypeOK, Slots
    <3>3. Deleted' = Deleted \cup {current_element_count}
      BY <1>a, <3>1, <3>2, HashFixedAssumption DEF Deleted, Slots, TypeOK
    <3>4. Owned' = Owned \cup {current_element_count}
      BY <1>1, <3>1 DEF Owned, Owning
    <3>. QED
      BY <2>1, <3>3, <3>4 DEF ChainInv, AllAccounted
  <2>3. CASE ~Take(t)
    <3>1. pc'[t] \notin {"fill", "push"} /\ pc[t] \notin {"fill", "push"}
      BY <1>a, <1>1, <2>3 DEF VisitHit, VisitNext, InsertFull, InsertRoom, TakeTooMuch,
         GiveBack,
                              TypeOK
    <3>2. Owned' = Owned
      BY <1>1, <3>1 DEF Owned, Owning
    <3>3. Deleted' = Deleted
      <4>1. CASE TakeTooMuch(t) \/ GiveBack(t)
        <5>1. GiveBack(t) => t \in Over
          BY <4>1 DEF GiveBack, Over
        <5>2. current_element_count >= Capacity /\ current_element_count' >= Capacity
          BY <1>a, <4>1, <5>1, OverCounts, HashFixedAssumption
             DEF TakeTooMuch, GiveBack, TypeOK
        <5>. QED
          BY <1>a, <4>1, <5>2, HashFixedAssumption
             DEF Deleted, Slots, TypeOK, TakeTooMuch, GiveBack
      <4>2. CASE ~(TakeTooMuch(t) \/ GiveBack(t))
        BY <2>3, <4>2 DEF Deleted, VisitHit, VisitNext, InsertFull, InsertRoom
      <4>. QED
        BY <4>1, <4>2
    <3>. QED
      BY <2>1, <3>2, <3>3 DEF ChainInv, AllAccounted
  <2>. QED
    BY <2>2, <2>3
<1>. QED
  BY <1>2, <1>3, <1>4

(* A thread writes the slot it owns, which is in no chain.                 *)
LEMMA WriteStepChains ==
  ASSUME NEW t \in Threads, ChainInv, Fill(t) \/ PushFails(t)
  PROVE  /\ ChainsOK' /\ ThreadsOK' /\ AllAccounted'
         /\ \A b \in Buckets : /\ Chain(bucket[b])' = Chain(bucket[b])
                               /\ \A n \in Range(Chain(bucket[b])) : key'[n] = key[n]
         /\ \A u \in Threads : /\ Chain(current[u])' = Chain(current[u])
                               /\ \A n \in Range(Chain(current[u])) : key'[n] = key[n]
<1>. DEFINE mine == newelem[t]
<1>a. TypeOK /\ NoSlotTwice
  BY DEF ChainInv, IInv
<1>1. /\ pc[t] \in {"fill", "push"} /\ pc' = [pc EXCEPT ![t] = "push"]
      /\ next' = [next EXCEPT ![t] = bucket[whichBucket(arg[t])]]
      /\ bucket_next' = [bucket_next EXCEPT ![mine] = bucket[whichBucket(arg[t])]]
      /\ key' = [key EXCEPT ![mine] = arg[t]] \/ (key' = key /\ pc[t] = "push")
      /\ UNCHANGED <<current_element_count, bucket, allocated, arg, current, newelem>>
  BY DEF Fill, PushFails, ReadHead, Goto
<1>2. t \in Owning /\ Owning' = Owning /\ mine \in Slots
  BY <1>a, <1>1 DEF Owning, TypeOK
<1>3. \A n \in Slots : n # mine => bucket_next'[n] = bucket_next[n] /\ key'[n] = key[n]
  BY <1>a, <1>1, <1>2 DEF TypeOK
<1>4. ASSUME NEW p, EndsAt(p),
             (\E b \in Buckets : p = bucket[b]) \/ (\E u \in Threads : p = current[u])
      PROVE  /\ Follow(p, bucket_next', Slots, Capacity) = Chain(p)
             /\ Arrives(p, bucket_next', None, Slots, Capacity)
             /\ \A n \in Range(Chain(p)) : key'[n] = key[n]
  <2>1. Range(Chain(p)) \subseteq Slots /\ mine \notin Range(Chain(p))
    BY <1>a, <1>2, <1>4, OwnedIsApart
  <2>. QED
    BY <1>3, <1>4, <2>1, ChainStays
<1>5. \A b \in Buckets : /\ Chain(bucket[b])' = Chain(bucket[b]) /\ EndsAt(bucket[b])'
                         /\ \A n \in Range(Chain(bucket[b])) : key'[n] = key[n]
  <2>. SUFFICES ASSUME NEW b \in Buckets
                PROVE  /\ Chain(bucket[b])' = Chain(bucket[b]) /\ EndsAt(bucket[b])'
                       /\ \A n \in Range(Chain(bucket[b])) : key'[n] = key[n]
    OBVIOUS
  <2>1. EndsAt(bucket[b]) /\ bucket'[b] = bucket[b]
    BY <1>1 DEF ChainInv, ChainsOK
  <2>2. /\ Follow(bucket[b], bucket_next', Slots, Capacity) = Chain(bucket[b])
        /\ Arrives(bucket[b], bucket_next', None, Slots, Capacity)
        /\ \A n \in Range(Chain(bucket[b])) : key'[n] = key[n]
    BY <1>4, <2>1
  <2>. QED
    BY <2>1, <2>2 DEF Chain, EndsAt
<1>6. \A u \in Threads : /\ Chain(current[u])' = Chain(current[u]) /\ EndsAt(current[u])'
                         /\ \A n \in Range(Chain(current[u])) : key'[n] = key[n]
  <2>. SUFFICES ASSUME NEW u \in Threads
                PROVE  /\ Chain(current[u])' = Chain(current[u]) /\ EndsAt(current[u])'
                       /\ \A n \in Range(Chain(current[u])) : key'[n] = key[n]
    OBVIOUS
  <2>1. EndsAt(current[u]) /\ current'[u] = current[u]
    BY <1>1 DEF ChainInv, ThreadsOK
  <2>2. /\ Follow(current[u], bucket_next', Slots, Capacity) = Chain(current[u])
        /\ Arrives(current[u], bucket_next', None, Slots, Capacity)
        /\ \A n \in Range(Chain(current[u])) : key'[n] = key[n]
    BY <1>4, <2>1
  <2>. QED
    BY <2>1, <2>2 DEF Chain, EndsAt
<1>7. ChainsOK'
  BY <1>5 DEF ChainsOK, ChainInv
<1>8. ThreadsOK'
  <2>1. ASSUME NEW u \in Threads, pc'[u] = "push"
        PROVE  bucket_next'[newelem'[u]] = next'[u] /\ key'[newelem'[u]] = arg'[u]
    <3>1. CASE u = t
      BY <1>a, <1>1, <1>2, <3>1 DEF ChainInv, ThreadsOK, TypeOK
    <3>2. CASE u # t
      <4>1. pc[u] = "push" /\ u \in Owning /\ next'[u] = next[u]
        BY <1>a, <1>1, <2>1, <3>2 DEF TypeOK, Owning
      <4>2. newelem[u] \in Slots /\ newelem[u] # mine
        BY <1>a, <1>2, <3>2, <4>1 DEF NoSlotTwice, TypeOK
      <4>. QED
        BY <1>1, <1>3, <4>1, <4>2 DEF ChainInv, ThreadsOK
    <3>. QED
      BY <3>1, <3>2
  <2>. QED
    BY <1>6, <2>1 DEF ThreadsOK
<1>9. AllAccounted'
  <2>1. Stored' = Stored
    BY <1>5 DEF Stored
  <2>2. Owned' = Owned /\ Deleted' = Deleted
    BY <1>1, <1>2 DEF Owned, Deleted
  <2>. QED
    BY <2>1, <2>2 DEF ChainInv, AllAccounted
<1>. QED
  BY <1>5, <1>6, <1>7, <1>8, <1>9

(* A thread pushes its slot onto the chain that it leads to.               *)
LEMMA PushStepChains ==
  ASSUME NEW t \in Threads, ChainInv, Push(t)
  PROVE  /\ ChainsOK' /\ ThreadsOK' /\ AllAccounted'
         /\ \A b \in Buckets : \/ Chain(bucket[b])' = Chain(bucket[b])
                               \/ /\ newelem[t] \in Slots
                                  /\ Chain(bucket[b])' = <<newelem[t]>> \o Chain(bucket[b])
<1>a. TypeOK /\ NoSlotTwice
  BY DEF ChainInv, IInv
<1>b. /\ pc[t] = "push" /\ t \in Owning /\ newelem[t] \in Slots
      /\ arg[t] \in Keys /\ whichBucket(arg[t]) \in Buckets
  BY <1>a, BucketInRange DEF Push, Owning, TypeOK
<1>c. PICK b \in Buckets, mine \in Slots : b = whichBucket(arg[t]) /\ mine = newelem[t]
  BY <1>b
<1>1. /\ pc[t] = "push" /\ pc' = [pc EXCEPT ![t] = "idle"] /\ bucket[b] = next[t]
      /\ bucket' = [bucket EXCEPT ![b] = mine]
      /\ current' = [current EXCEPT ![t] = None]
      /\ newelem' = [newelem EXCEPT ![t] = None]
      /\ \A u \in Threads : u # t => next'[u] = next[u] /\ arg'[u] = arg[u]
      /\ UNCHANGED <<current_element_count, key, bucket_next, allocated>>
  BY <1>c DEF Push, Return, storage
<1>2. t \in Owning /\ Owning' = Owning \ {t} /\ arg[t] \in Keys
  BY <1>a, <1>b, <1>1 DEF Owning, TypeOK
<1>3. /\ bucket_next[mine] = bucket[b] /\ key[mine] = arg[t] /\ mine = newelem[t]
      /\ b = whichBucket(arg[t])
  BY <1>c, <1>1 DEF ChainInv, ThreadsOK
<1>4. EndsAt(bucket[b]) /\ mine \notin Range(Chain(bucket[b]))
  BY <1>a, <1>2, <1>3, OwnedIsApart DEF ChainInv, ChainsOK
<1>5. /\ Chain(mine) = <<mine>> \o Chain(bucket[b]) /\ EndsAt(mine)
      /\ Range(Chain(mine)) = Range(Chain(bucket[b])) \cup {mine}
  BY <1>2, <1>3, <1>4, SlotFacts, EndsCons DEF EndsAt, Chain
<1>6. \A p : Chain(p)' = Follow(p', bucket_next, Slots, Capacity)
  BY <1>1 DEF Chain
<1>7. /\ bucket'[b] = mine /\ \A c \in Buckets : c # b => bucket'[c] = bucket[c]
  BY <1>a, <1>1, <1>2 DEF TypeOK
<1>8. /\ Chain(bucket[b])' = Chain(mine) /\ EndsAt(bucket[b])'
      /\ \A c \in Buckets : c # b => /\ Chain(bucket[c])' = Chain(bucket[c])
                                     /\ EndsAt(bucket[c])'
  BY <1>1, <1>5, <1>7 DEF Chain, EndsAt, ChainInv, ChainsOK
<1>9. ChainsOK'
  <2>1. \A c \in Buckets : EndsAt(bucket[c])'
    BY <1>8
  <2>2. ASSUME NEW c \in Buckets, NEW n \in Range(Chain(bucket[c])')
        PROVE  key'[n] \in Keys /\ whichBucket(key'[n]) = c
    <3>1. key' = key
      BY <1>1
    <3>2. \/ n \in Range(Chain(bucket[c]))
          \/ c = b /\ n = mine
      <4>1. CASE c = b
        <5>1. Chain(bucket[c])' = Chain(mine)
          BY <1>8, <4>1
        <5>. QED
          BY <1>5, <2>2, <4>1, <5>1
      <4>2. CASE c # b
        BY <1>8, <2>2, <4>2
      <4>. QED
        BY <4>1, <4>2
    <3>3. CASE n \in Range(Chain(bucket[c]))
      BY <3>1, <3>3 DEF ChainInv, ChainsOK
    <3>4. CASE c = b /\ n = mine
      BY <1>2, <1>3, <3>1, <3>4
    <3>. QED
      BY <3>2, <3>3, <3>4
  <2>. QED
    BY <2>1, <2>2 DEF ChainsOK
<1>10. ThreadsOK'
  <2>1. EndsAt(None)
    BY SlotFacts, EndsAtOnce DEF EndsAt
  <2>2. \A u \in Threads : EndsAt(current'[u])
    BY <1>a, <1>1, <2>1 DEF ChainInv, ThreadsOK, TypeOK
  <2>3. \A u \in Threads : EndsAt(current[u])'
    BY <1>1, <2>2 DEF EndsAt
  <2>4. \A u \in Threads : pc'[u] = "push" =>
          u # t /\ pc[u] = "push" /\ newelem'[u] = newelem[u] /\ next'[u] = next[u] /\ arg'[u] = arg[u]
    BY <1>a, <1>1 DEF TypeOK
  <2>. QED
    BY <1>1, <2>3, <2>4 DEF ChainInv, ThreadsOK
<1>11. AllAccounted'
  <2>1. Stored' = Stored \cup {mine}
    BY <1>5, <1>8 DEF Stored
  <2>2. Owned' = Owned \ {mine} /\ mine \in Owned
    BY <1>a, <1>1, <1>2, <1>3 DEF Owned, NoSlotTwice, TypeOK, Owning
  <2>3. Deleted' = Deleted
    BY <1>1 DEF Deleted
  <2>. QED
    BY <2>1, <2>2, <2>3 DEF ChainInv, AllAccounted
<1>12. \A c \in Buckets : \/ Chain(bucket[c])' = Chain(bucket[c])
                          \/ Chain(bucket[c])' = <<mine>> \o Chain(bucket[c])
  BY <1>5, <1>8
<1>. QED
  BY <1>b, <1>c, <1>9, <1>10, <1>11, <1>12

(* A lookup begins at the head of a chain.                                 *)
LEMMA StartStepChains ==
  ASSUME NEW t \in Threads, NEW k \in Keys, ChainInv, Start(t, k)
  PROVE  ChainsOK' /\ ThreadsOK' /\ AllAccounted'
<1>a. TypeOK
  BY DEF ChainInv, IInv
<1>1. /\ pc[t] = "idle" /\ pc' = [pc EXCEPT ![t] = "visit"]
      /\ current' = [current EXCEPT ![t] = bucket[whichBucket(k)]]
      /\ \A u \in Threads : u # t => arg'[u] = arg[u]
      /\ UNCHANGED <<current_element_count, bucket, key, bucket_next, newelem, next>>
  BY DEF Start, Goto, storage
<1>2. ChainsOK'
  BY <1>1, SameChains DEF ChainsOK, ChainInv
<1>3. ThreadsOK'
  <2>1. \A u \in Threads : EndsAt(current'[u])
    BY <1>a, <1>1, BucketInRange DEF ChainInv, ThreadsOK, ChainsOK, TypeOK
  <2>2. \A u \in Threads : EndsAt(current[u])'
    BY <1>1, <2>1 DEF EndsAt
  <2>3. \A u \in Threads : pc'[u] = "push" => pc[u] = "push" /\ arg'[u] = arg[u]
    BY <1>a, <1>1 DEF TypeOK
  <2>. QED
    BY <1>1, <2>2, <2>3 DEF ThreadsOK, ChainInv
<1>4. AllAccounted'
  <2>1. Stored' = Stored /\ Owning' = Owning
    BY <1>a, <1>1, SameChains DEF Owning, TypeOK
  <2>. QED
    BY <1>1, <2>1 DEF ChainInv, AllAccounted, Owned, Deleted
<1>. QED
  BY <1>2, <1>3, <1>4

(* Freeing the memory or allocating it again, when no call is in progress. *)
LEMMA MemoryStepChains ==
  ASSUME ChainInv, releaseMemory \/ allocateMemory
  PROVE  ChainsOK' /\ ThreadsOK' /\ AllAccounted'
<1>a. TypeOK /\ AtRest
  BY DEF ChainInv, IInv
<1>1. /\ AllIdle /\ Owning = {} /\ UNCHANGED <<pc, arg, current, newelem, next>>
      /\ Owning' = Owning
  BY <1>a DEF releaseMemory, AtRest, AllIdle, allocateMemory, Owning
<1>2. CASE releaseMemory
  <2>1. UNCHANGED <<current_element_count, bucket, key, bucket_next>>
    BY <1>2 DEF releaseMemory, storage
  <2>. QED
    BY <1>1, <2>1, SameChains
       DEF ChainInv, ChainsOK, ThreadsOK, EndsAt, AllAccounted, Owned, Deleted
<1>3. CASE allocateMemory
  <2>1. current_element_count' = 0 /\ \A b \in Buckets : bucket'[b] = None
    BY <1>3 DEF allocateMemory
  <2>2. \A t \in Threads : current'[t] = None /\ pc'[t] = "idle"
    BY <1>a, <1>1 DEF AtRest, AllIdle
  <2>3. /\ Follow(None, bucket_next', Slots, Capacity) = <<>> /\ Range(<<>>) = {}
        /\ Arrives(None, bucket_next', None, Slots, Capacity)
    BY SlotFacts, EndsAtOnce DEF Range
  <2>4. \A b \in Buckets : Chain(bucket[b])' = <<>> /\ EndsAt(bucket[b])'
    BY <2>1, <2>3 DEF Chain, EndsAt
  <2>5. ChainsOK' /\ ThreadsOK'
    BY <2>2, <2>3, <2>4 DEF ChainsOK, ThreadsOK, EndsAt
  <2>6. AllAccounted'
    <3>1. Stored' = {}
      BY <2>3, <2>4 DEF Stored
    <3>2. Owned' = {} /\ Deleted' = {}
      BY <1>1, <2>1 DEF Owned, Deleted, Slots
    <3>. QED
      BY <3>1, <3>2 DEF AllAccounted
  <2>. QED
    BY <2>5, <2>6
<1>. QED
  BY <1>2, <1>3

(* ChainInv is inductive, and so holds always.                             *)
LEMMA NextChainInv == ChainInv /\ [Next]_vars => ChainInv'
<1>. SUFFICES ASSUME ChainInv, [Next]_vars PROVE ChainInv'
  OBVIOUS
<1>1. IInv'
  BY NextIInv DEF ChainInv
<1>2. CASE \E t \in Threads : Step(t)
  BY <1>1, <1>2, ReadStepChains, WriteStepChains, PushStepChains DEF Step, ChainInv
<1>3. CASE \E t \in Threads, k \in Keys : Start(t, k)
  BY <1>1, <1>3, StartStepChains DEF ChainInv
<1>4. CASE releaseMemory \/ allocateMemory
  BY <1>1, <1>4, MemoryStepChains DEF ChainInv
<1>5. CASE UNCHANGED vars
  <2>1. UNCHANGED <<current_element_count, bucket, key, bucket_next, pc, arg, current, newelem, next>>
    BY <1>5 DEF vars, storage
  <2>. QED
    BY <1>1, <2>1, SameChains
       DEF ChainInv, ChainsOK, ThreadsOK, EndsAt, AllAccounted, Owned, Owning, Deleted
<1>. QED
  BY <1>2, <1>3, <1>4, <1>5 DEF Next

(* The invariant of the chains always holds.                               *)
LEMMA SpecChainInv == Spec => []ChainInv
BY InitChainInv, NextChainInv, PTL DEF Spec

(* At rest, what the table stores is what it has handed out: releaseMemory *)
(* calls onDelete for every stored item and for no slot without one.       *)
THEOREM SpecDeletesWhatIsStored == Spec => []DeletesWhatIsStored
<1>1. ChainInv => DeletesWhatIsStored
  <2>1. AllIdle => Owned = {}
    BY DEF AllIdle, Owned, Owning
  <2>. QED
    BY <2>1 DEF ChainInv, AllAccounted, DeletesWhatIsStored
<1>. QED
  BY <1>1, SpecChainInv, PTL

(* A step of a thread leaves the chains as they are, or adds a slot before *)
(* the head of one; it changes no key in a chain.                          *)
LEMMA StepGrows ==
  ASSUME ChainInv, [Next]_vars, allocated, NEW b \in Buckets
  PROVE  /\ IsSuffix(Chain(bucket[b]), Chain(bucket[b])')
         /\ \A n \in Range(Chain(bucket[b])) : key'[n] = key[n]
<1>a. Chain(bucket[b]) \in Seq(Slots)
  BY ChainIsSeq DEF ChainInv, ChainsOK
<1>1. CASE UNCHANGED <<bucket, key, bucket_next>>
  <2>1. Chain(bucket[b])' = Chain(bucket[b])
    BY <1>1, SameChains
  <2>. QED
    BY <1>1, <2>1, <1>a, SuffixOfSame
<1>2. CASE \E t \in Threads : Fill(t) \/ PushFails(t)
  <2>1. /\ Chain(bucket[b])' = Chain(bucket[b])
        /\ \A n \in Range(Chain(bucket[b])) : key'[n] = key[n]
    BY <1>2, WriteStepChains
  <2>. QED
    BY <2>1, <1>a, SuffixOfSame
<1>3. CASE \E t \in Threads : Push(t)
  <2>1. PICK t \in Threads : Push(t)
    BY <1>3
  <2>2. \/ Chain(bucket[b])' = Chain(bucket[b])
        \/ /\ newelem[t] \in Slots
           /\ Chain(bucket[b])' = <<newelem[t]>> \o Chain(bucket[b])
    BY <2>1, PushStepChains
  <2>3. key' = key
    BY <2>1 DEF Push, storage
  <2>. QED
    BY <2>2, <2>3, <1>a, SuffixOfSame, SuffixOfCons
<1>4. CASE \E t \in Threads : \/ VisitHit(t) \/ VisitNext(t) \/ InsertFull(t) \/ InsertRoom(t)
                              \/ Take(t) \/ TakeTooMuch(t) \/ GiveBack(t)
                              \/ \E k \in Keys : Start(t, k)
  BY <1>1, <1>4 DEF VisitHit, VisitNext, InsertFull, InsertRoom, Take, TakeTooMuch,
     GiveBack,
                    Start, storage
<1>5. CASE releaseMemory
  BY <1>1, <1>5 DEF releaseMemory, storage
<1>6. CASE allocateMemory
  BY <1>6 DEF allocateMemory
<1>7. CASE UNCHANGED vars
  BY <1>1, <1>7 DEF vars, storage
<1>. QED
  BY <1>2, <1>3, <1>4, <1>5, <1>6, <1>7 DEF Next, Step

(* Nothing a bucket holds is lost or moves: a chain only grows at its      *)
(* head, whatever the threads do between a read of the head and the        *)
(* compare_exchange (insert 184-187).                                      *)
THEOREM SpecChainsGrowAtHead == Spec => ChainsGrowAtHead
<1>1. ChainInv /\ [Next]_vars =>
        [\A b \in Buckets : allocated =>
           /\ IsSuffix(Chain(bucket[b]), Chain(bucket[b])')
           /\ \A n \in Range(Chain(bucket[b])) : key'[n] = key[n]]_<<bucket, storage>>
  BY StepGrows
<1>. QED
  BY <1>1, SpecChainInv, PTL DEF Spec, ChainsGrowAtHead

-----------------------------------------------------------------------------
(* The lookups that have to find their key (MCHashFixed).                  *)
FoundInv == ChainInv /\ promised \subseteq Threads /\ StoredIsFound

(* What a lookup has yet to look at, and the keys in it, stay as they are  *)
(* when other threads move.                                                *)
LEMMA AheadStays ==
  ASSUME ChainInv, NEW t \in Threads, pc[t] = "visit",
         NEW u \in Threads \ {t}, Step(u) \/ \E k \in Keys : Start(u, k)
  PROVE  /\ pc'[t] = pc[t] /\ arg'[t] = arg[t] /\ current'[t] = current[t]
         /\ Chain(current[t])' = Chain(current[t])
         /\ \A n \in Range(Chain(current[t])) : key'[n] = key[n]
<1>. USE DEF Goto, Return
<1>a. TypeOK
  BY DEF ChainInv, IInv
<1>1. pc'[t] = pc[t] /\ arg'[t] = arg[t] /\ current'[t] = current[t]
  BY <1>a DEF TypeOK, Step, VisitHit, VisitNext, InsertFull, InsertRoom, Take, TakeTooMuch,
              GiveBack, Fill, Push, PushFails, Start
<1>2. CASE Fill(u) \/ PushFails(u)
  BY <1>1, <1>2, WriteStepChains
<1>3. CASE ~(Fill(u) \/ PushFails(u))
  <2>1. UNCHANGED <<key, bucket_next>>
    BY <1>3 DEF Step, VisitHit, VisitNext, InsertFull, InsertRoom, Take, TakeTooMuch,
                GiveBack, Push, Start, storage
  <2>. QED
    BY <1>1, <2>1 DEF Chain
<1>. QED
  BY <1>2, <1>3

(* A lookup goes past a slot with another key.                             *)
LEMMA LookupGoesOn ==
  ASSUME ChainInv, NEW t \in Threads, Step(t), pc'[t] # "idle", pc[t] = "visit",
         NEW n \in Range(Chain(current[t])), key[n] = arg[t]
  PROVE  pc'[t] = "visit" /\ n \in Range(Chain(current[t]))' /\ key'[n] = arg'[t]
<1>a. TypeOK /\ EndsAt(current[t])
  BY DEF ChainInv, IInv, ThreadsOK
<1>1. current[t] \in Slots
  <2>1. CASE current[t] = None
    <3>1. Chain(None) = <<>> /\ Range(<<>>) = {}
      BY SlotFacts, EndsAtOnce DEF Chain, Range
    <3>. QED
      BY <2>1, <3>1
  <2>. QED
    BY <1>a, <2>1 DEF TypeOK
<1>2. VisitNext(t)
  BY <1>a, <1>1, SlotFacts DEF Step, VisitHit, InsertFull, InsertRoom, Take, TakeTooMuch,
                    GiveBack, Fill, Push, PushFails, Goto, Return, TypeOK
<1>3. /\ key[current[t]] # arg[t] /\ current'[t] = bucket_next[current[t]]
      /\ UNCHANGED <<key, bucket_next, pc, arg>>
  BY <1>a, <1>2 DEF VisitNext, TypeOK, storage
<1>4. Range(Chain(bucket_next[current[t]])) = Range(Chain(current[t])) \ {current[t]}
  <2>1. PICK m \in Slots : m = current[t]
    BY <1>1
  <2>2. Arrives(m, bucket_next, None, Slots, Capacity)
    BY <1>a, <2>1 DEF EndsAt
  <2>3. /\ Arrives(bucket_next[m], bucket_next, None, Slots, Capacity)
        /\ Follow(m, bucket_next, Slots, Capacity)
             = <<m>> \o Follow(bucket_next[m], bucket_next, Slots, Capacity)
        /\ Range(Follow(bucket_next[m], bucket_next, Slots, Capacity))
             = Range(Follow(m, bucket_next, Slots, Capacity)) \ {m}
        /\ m \in Range(Follow(m, bucket_next, Slots, Capacity))
    BY <2>2, SlotFacts, EndsRest, Zenon
  <2>. QED
    BY <2>1, <2>3 DEF Chain
<1>5. Range(Chain(current[t]))' = Range(Chain(bucket_next[current[t]]))
  BY <1>3 DEF Chain
<1>. QED
  BY <1>3, <1>4, <1>5

(* A lookup that begins has everything stored under its key ahead.         *)
LEMMA LookupBegins ==
  ASSUME ChainInv, NEW t \in Threads, NEW k \in Keys, Start(t, k),
         NEW n \in Stored, key[n] = arg'[t]
  PROVE  pc'[t] = "visit" /\ n \in Range(Chain(current[t]))' /\ key'[n] = arg'[t]
<1>a. TypeOK
  BY DEF ChainInv, IInv
<1>1. /\ pc'[t] = "visit" /\ arg'[t] = k /\ current'[t] = bucket[whichBucket(k)]
      /\ UNCHANGED <<key, bucket_next>>
  BY <1>a DEF Start, Goto, TypeOK, storage
<1>2. PICK b \in Buckets : n \in Range(Chain(bucket[b]))
  BY DEF Stored
<1>3. b = whichBucket(k)
  BY <1>1, <1>2 DEF ChainInv, ChainsOK
<1>. QED
  BY <1>1, <1>2, <1>3 DEF Chain

(* A lookup keeps what it has to find ahead, whoever moves.                *)
LEMMA NextFoundInv == FoundInv /\ [HistoryNext]_<<vars, promised>> => FoundInv'
<1>. SUFFICES ASSUME FoundInv, [HistoryNext]_<<vars, promised>> PROVE FoundInv'
  OBVIOUS
<1>a. ChainInv /\ TypeOK /\ AtRest
  BY DEF FoundInv, ChainInv, IInv
<1>1. ChainInv'
  BY NextChainInv DEF FoundInv, HistoryNext
<1>2. CASE HistoryNext
  <2>1. ASSUME NEW t \in promised', t \in promised
        PROVE  pc'[t] = "visit" /\ \E n \in Range(Chain(current[t]))' : key'[n] = arg'[t]
    <3>1. /\ t \in Threads /\ pc[t] = "visit" /\ pc'[t] # "idle"
      BY <1>2, <2>1 DEF FoundInv, HistoryNext, StoredIsFound
    <3>2. PICK n \in Range(Chain(current[t])) : key[n] = arg[t]
      BY <2>1 DEF FoundInv, StoredIsFound
    <3>3. CASE \E u \in Threads \ {t} : Step(u) \/ \E k \in Keys : Start(u, k)
      <4>1. /\ pc'[t] = pc[t] /\ arg'[t] = arg[t]
            /\ Chain(current[t])' = Chain(current[t]) /\ key'[n] = key[n]
        BY <1>a, <3>1, <3>3, AheadStays
      <4>2. n \in Range(Chain(current[t]))'
        BY <4>1
      <4>. QED
        BY <3>1, <3>2, <4>1, <4>2
    <3>4. CASE Step(t)
      BY <1>a, <3>1, <3>2, <3>4, LookupGoesOn
    <3>5. CASE \E k \in Keys : Start(t, k)
      BY <3>1, <3>5 DEF Start, Goto
    <3>6. CASE releaseMemory \/ allocateMemory
      BY <1>a, <3>1, <3>6 DEF releaseMemory, allocateMemory, AtRest, AllIdle
    <3>. QED
      BY <1>2, <3>1, <3>3, <3>4, <3>5, <3>6 DEF HistoryNext, Next
  <2>2. ASSUME NEW t \in promised', t \notin promised
        PROVE  pc'[t] = "visit" /\ \E n \in Range(Chain(current[t]))' : key'[n] = arg'[t]
    <3>1. t \in Threads /\ pc[t] = "idle" /\ pc'[t] # "idle"
      BY <1>2, <2>2 DEF HistoryNext
    <3>2. PICK n \in Stored : key[n] = arg'[t]
      BY <1>2, <2>2 DEF HistoryNext
    <3>3. \E k \in Keys : Start(t, k)
      <4>1. ASSUME NEW u \in Threads, Step(u) \/ \E k \in Keys : Start(u, k), u # t
            PROVE  pc'[t] = pc[t]
        BY <1>a, <4>1, <3>1 DEF TypeOK, Step, VisitHit, VisitNext, InsertFull,
           InsertRoom, Take,
              TakeTooMuch, GiveBack, Fill, Push, PushFails, Start, Goto, Return
      <4>2. ~Step(t)
        BY <3>1 DEF Step, VisitHit, VisitNext, InsertFull, InsertRoom, Take,
              TakeTooMuch, GiveBack, Fill, Push, PushFails, Goto
      <4>3. ~(releaseMemory \/ allocateMemory)
        BY <3>1 DEF releaseMemory, allocateMemory
      <4>. QED
        BY <1>2, <3>1, <4>1, <4>2, <4>3 DEF HistoryNext, Next
    <3>. QED
      BY <1>a, <3>1, <3>2, <3>3, LookupBegins
  <2>3. promised' \subseteq Threads
    BY <1>2 DEF HistoryNext, FoundInv
  <2>. QED
    BY <1>1, <2>1, <2>2, <2>3 DEF FoundInv, StoredIsFound
<1>3. CASE UNCHANGED <<vars, promised>>
  <2>1. UNCHANGED <<key, bucket_next, pc, arg, current, promised>>
    BY <1>3 DEF vars, storage
  <2>2. \A t : Chain(current[t])' = Chain(current[t])
    BY <2>1 DEF Chain
  <2>. QED
    BY <1>1, <2>1, <2>2 DEF FoundInv, StoredIsFound
<1>. QED
  BY <1>2, <1>3

(* A lookup that begins after its key was stored finds it, whatever other  *)
(* threads push meanwhile, so one key is not stored again and again        *)
(* (consumeCachedOrCompute 141-151, find 190-207).                         *)
THEOREM SpecStoredIsFound == HistorySpec => []StoredIsFound
<1>1. HistoryInit => FoundInv
  BY InitChainInv DEF HistoryInit, FoundInv, StoredIsFound
<1>2. FoundInv => StoredIsFound
  BY DEF FoundInv
<1>. QED
  BY <1>1, <1>2, NextFoundInv, PTL DEF HistorySpec
=============================================================================
