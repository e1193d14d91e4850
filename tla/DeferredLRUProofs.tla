-------------------------- MODULE DeferredLRUProofs --------------------------
(***************************************************************************)
(* Proofs about DeferredLRU for all values of its constants.               *)
(*                                                                         *)
(* ControlTypeOK /\ LockDiscipline is inductive: who holds a lock can be   *)
(* told from the program counters.  From it follows that one thread        *)
(* consolidates at a time, and that a bucket does not lose a node that a   *)
(* lookup holds: every step that changes a bucket waits for the bucket's   *)
(* lock.  Then: what every step leaves as it is, and that the steps on the *)
(* buckets, the pool and the Recent list keep DeferredLRUInvariant.        *)
(*                                                                         *)
(* A lemma about a step assumes that the invariant holds before it.        *)
(***************************************************************************)
EXTENDS DeferredLRUInvariant

-----------------------------------------------------------------------------
(* A key's bucket exists.                                                  *)
LEMMA BucketNrInRange ==
  ASSUME NEW k \in Keys
  PROVE  keyToBucketNr(k) \in Buckets
<1>1. BucketCount \in Nat \ {0}
  BY SizeAssumption DEF BucketCount
<1>2. Hash[k] \in Nat
  BY KeyAssumption
<1>. QED
  BY <1>1, <1>2 DEF keyToBucketNr, Buckets

(* A bucket's lock exists, also when buckets share locks.                 *)
LEMMA LockInRange ==
  ASSUME NEW b \in Buckets
  PROVE  LockOf(b) \in Locks
<1>1. BucketCount \in Nat /\ b \in Nat /\ b < BucketCount
  BY SizeAssumption DEF BucketCount, Buckets
<1>2. b % MaxBucketLockSize \in 0 .. MaxBucketLockSize - 1
  BY <1>1, SizeAssumption
<1>3. b < MaxBucketLockSize => b % MaxBucketLockSize = b
  BY <1>1, SizeAssumption
<1>. QED
  BY <1>1, <1>2, <1>3, SizeAssumption DEF LockOf, Locks

-----------------------------------------------------------------------------
(* A fresh cache: no call in progress, no lock held.                       *)
LEMMA InitControl == Init => ControlTypeOK /\ LockDiscipline
<1>. SUFFICES ASSUME Init PROVE ControlTypeOK /\ LockDiscipline
  OBVIOUS
<1>. USE ApiAssumption DEF Init, Fresh
<1>1. ControlTypeOK
  BY DEF ControlTypeOK, PCs, FindLocked
<1>2. LockDiscipline
  BY DEF LockDiscipline, Consolidating, Purging, Pulling, FindLocked
<1>. QED
  BY <1>1, <1>2

(* A step of a call keeps the types and the locks: most move from one     *)
(* point to another of one region; FindHit, TryLock, UnlockLru and the     *)
(* steps that unlock a bucket take or give back the region's lock.         *)
LEMMA StepControl ==
  ASSUME NEW t \in Threads, ControlTypeOK, LockDiscipline, Step(t)
  PROVE  ControlTypeOK' /\ LockDiscipline'
<1>. USE ApiAssumption, BucketNrInRange, LockInRange
     DEF ControlTypeOK, LockDiscipline, Goto, Return, AllIdle, Unlocked, unlockBucket,
         PCs, FindLocked, Allocating, Filling, Adding, Purging, Pulling, Consolidating,
         vars, items, links, table, recent, requests, call, locals
<1>1. CASE Find(t)
  <2>1. CASE FindMiss(t)
    BY <2>1 DEF FindMiss
  <2>2. CASE FindHit(t)
    BY <2>2 DEF FindHit
  <2>3. CASE FindCopyMarked(t)
    BY <2>3 DEF FindCopyMarked
  <2>4. CASE FindCopyUnmarked(t)
    BY <2>4 DEF FindCopyUnmarked
  <2>5. CASE MarkCas(t)
    BY <2>5 DEF MarkCas
  <2>6. CASE MarkCasFails(t)
    BY <2>6 DEF MarkCasFails
  <2>7. CASE MarkCount(t)
    BY <2>7 DEF MarkCount
  <2>8. CASE BelowThreshold(t)
    BY <2>8 DEF BelowThreshold
  <2>9. CASE RecentThresholdHit(t)
    BY <2>9 DEF RecentThresholdHit
  <2>10. CASE requestPull(t)
    BY <2>10 DEF requestPull
  <2>. QED
        BY <1>1, <2>1, <2>2, <2>3, <2>4, <2>5, <2>6, <2>7, <2>8, <2>9, <2>10 DEF Find
<1>2. CASE Allocate(t)
  <2>1. CASE InsertBegins(t)
    BY <2>1 DEF InsertBegins
  <2>2. CASE AllocLoad(t)
    BY <2>2 DEF AllocLoad
  <2>3. CASE requestPurge(t)
    BY <2>3 DEF requestPurge
  <2>4. CASE AllocNext(t)
    BY <2>4 DEF AllocNext
  <2>5. CASE AllocCas(t)
    BY <2>5 DEF AllocCas
  <2>6. CASE AllocCasFails(t)
    BY <2>6 DEF AllocCasFails
  <2>. QED
        BY <1>2, <2>1, <2>2, <2>3, <2>4, <2>5, <2>6 DEF Allocate
<1>3. CASE Fill(t)
  <2>1. CASE FillNode(t)
    BY <2>1 DEF FillNode
  <2>2. CASE addNodeToBucket(t)
    BY <2>2 DEF addNodeToBucket
  <2>3. CASE InsertReturns(t)
    BY <2>3 DEF InsertReturns
  <2>. QED
        BY <1>3, <2>1, <2>2, <2>3 DEF Fill
<1>4. CASE AddSublist(t)
  <2>1. CASE AddFirst(t)
    BY <2>1 DEF AddFirst
  <2>2. CASE AddCas(t)
    BY <2>2 DEF AddCas
  <2>3. CASE AddCasFails(t)
    BY <2>3 DEF AddCasFails
  <2>4. CASE AddBack(t)
    BY <2>4 DEF AddBack
  <2>. QED
        BY <1>4, <2>1, <2>2, <2>3, <2>4 DEF AddSublist
<1>5. CASE Purge(t)
  <2>1. CASE PurgeBegins(t)
    BY <2>1 DEF PurgeBegins
  <2>2. CASE NoPurge(t)
    BY <2>2 DEF NoPurge
  <2>3. CASE PurgeSkip(t)
    BY <2>3 DEF PurgeSkip
  <2>4. CASE PurgeChoose(t)
    BY <2>4 DEF PurgeChoose
  <2>5. CASE removeNodeFromBucket(t)
    BY <2>5 DEF removeNodeFromBucket
  <2>6. CASE KeepInBucket(t)
    BY <2>6 DEF KeepInBucket
  <2>7. CASE PurgeUnlink(t)
    BY <2>7 DEF PurgeUnlink
  <2>8. CASE DisposeCas(t)
    BY <2>8 DEF DisposeCas
  <2>9. CASE DisposeCasFails(t)
    BY <2>9 DEF DisposeCasFails
  <2>10. CASE PurgeEnds(t)
    BY <2>10 DEF PurgeEnds
  <2>11. CASE PurgeLowersFlag(t)
    BY <2>11 DEF PurgeLowersFlag
  <2>. QED
        BY <1>5, <2>1, <2>2, <2>3, <2>4, <2>5, <2>6, <2>7, <2>8, <2>9, <2>10,
       <2>11 DEF Purge
<1>6. CASE Pull(t)
  <2>1. CASE PullBegins(t)
    BY <2>1 DEF PullBegins
  <2>2. CASE NoPull(t)
    BY <2>2 DEF NoPull
  <2>3. CASE PullReset(t)
    BY <2>3 DEF PullReset
  <2>4. CASE PullSkip(t)
    BY <2>4 DEF PullSkip
  <2>5. CASE PullUnlink(t)
    BY <2>5 DEF PullUnlink
  <2>6. CASE PullClear(t)
    BY <2>6 DEF PullClear
  <2>7. CASE PullFoundNone(t)
    BY <2>7 DEF PullFoundNone
  <2>8. CASE PullAdds(t)
    BY <2>8 DEF PullAdds
  <2>9. CASE PullLowersFlag(t)
    BY <2>9 DEF PullLowersFlag
  <2>10. CASE PullSkipClear(t)
    BY <2>10 DEF PullSkipClear
  <2>. QED
        BY <1>6, <2>1, <2>2, <2>3, <2>4, <2>5, <2>6, <2>7, <2>8, <2>9, <2>10 DEF Pull
<1>7. CASE TryLock(t)
  BY <1>7 DEF TryLock
<1>8. CASE TryLockFails(t)
  BY <1>8 DEF TryLockFails
<1>9. CASE UnlockLru(t)
  BY <1>9 DEF UnlockLru
<1>. QED
  BY <1>1, <1>2, <1>3, <1>4, <1>5, <1>6, <1>7, <1>8, <1>9 DEF Step

(* So does every step of the cache.                                        *)
LEMMA NextControl ==
  ASSUME ControlTypeOK, LockDiscipline, [Next]_vars
  PROVE  ControlTypeOK' /\ LockDiscipline'
<1>. USE ApiAssumption
     DEF ControlTypeOK, LockDiscipline, AllIdle, PCs, FindLocked, Allocating, Filling,
         Adding, Purging, Pulling, Consolidating, vars, items, links, table, recent,
         requests, call, locals
<1>1. ASSUME NEW t \in Threads, StartAny(t)
      PROVE  ControlTypeOK' /\ LockDiscipline'
  BY <1>1 DEF StartAny, Start, Goto, Calls
<1>2. ASSUME NEW t \in Threads, Step(t)
      PROVE  ControlTypeOK' /\ LockDiscipline'
  BY <1>2, StepControl
<1>3. CASE releaseMemory
  BY <1>3 DEF releaseMemory
<1>4. CASE allocateMemory
  BY <1>4 DEF allocateMemory, Fresh
<1>5. CASE UNCHANGED vars
  BY <1>5
<1>. QED
  BY <1>1, <1>2, <1>3, <1>4, <1>5 DEF Next

(* The invariant in every behaviour.                                       *)
LEMMA SpecControl == Spec => [](ControlTypeOK /\ LockDiscipline)
<1>1. ControlTypeOK /\ LockDiscipline /\ [Next]_vars
        => (ControlTypeOK /\ LockDiscipline)'
  BY NextControl
<1>. QED
  BY InitControl, <1>1, PTL DEF Spec

(* Type correctness of the control state: wherever a thread is, it has the *)
(* key and the return point that the code there uses; a lock belongs to a  *)
(* thread or to none; no call is in progress on a released cache.          *)
THEOREM SpecControlTypeOK == Spec => []ControlTypeOK
  BY SpecControl, PTL

(* lru_lock_ and the bucket locks are held by the threads inside the code  *)
(* they guard (consolidateCache, find), and lru_lock_ by no other.         *)
THEOREM SpecLockDiscipline == Spec => []LockDiscipline
  BY SpecControl, PTL

-----------------------------------------------------------------------------
(* addNodeToBucket and removeNodeFromBucket, the steps of a call that      *)
(* change a bucket, wait until no lookup is in it.                         *)
LEMMA StepHit ==
  ASSUME NEW t \in Threads, HitInv, Step(t)
  PROVE  FunctionsOK' /\ FoundInBucket'
<1>. USE ApiAssumption, BucketNrInRange
     DEF HitInv, ControlTypeOK, LockDiscipline, FunctionsOK, FoundInBucket, Goto,
         Return, Unlocked, unlockBucket, LinkToRecentHead, LinkToLruHead,
         TakeNextRecent, FindLocked, PCs, Allocating, Filling, Adding, Purging,
         Pulling, Consolidating, items, links, table, recent, requests, call, locals
<1>1. CASE Find(t)
  <2>1. CASE FindMiss(t)
    BY <2>1 DEF FindMiss
  <2>2. CASE FindHit(t)
    <3>1. /\ pc[t] = "find_lock" /\ pc' = [pc EXCEPT ![t] = "find_copy"]
          /\ bucket' = bucket /\ arg' = arg
      BY <2>2 DEF FindHit
    <3>2. PICK i \in Hits(arg[t]) :
            node' = [node EXCEPT ![t] = bucket[keyToBucketNr(arg[t])][i]]
      BY <2>2 DEF FindHit
    <3>3. bucket[keyToBucketNr(arg[t])][i] \in Range(bucket[keyToBucketNr(arg[t])])
      BY <3>2 DEF Range, Hits
    <3>4. ASSUME NEW u \in Threads, pc'[u] \in FindLocked
          PROVE  node'[u] \in Range(bucket'[keyToBucketNr(arg'[u])])
      <4>1. CASE u = t
        BY <3>1, <3>2, <3>3, <4>1
      <4>2. CASE u # t
        BY <3>1, <3>2, <3>4, <4>2
      <4>. QED
        BY <4>1, <4>2
    <3>. QED
      BY <3>1, <3>2, <3>4
  <2>3. CASE FindCopyMarked(t)
    BY <2>3 DEF FindCopyMarked
  <2>4. CASE FindCopyUnmarked(t)
    BY <2>4 DEF FindCopyUnmarked
  <2>5. CASE MarkCas(t)
    BY <2>5 DEF MarkCas
  <2>6. CASE MarkCasFails(t)
    BY <2>6 DEF MarkCasFails
  <2>7. CASE MarkCount(t)
    BY <2>7 DEF MarkCount
  <2>8. CASE BelowThreshold(t)
    BY <2>8 DEF BelowThreshold
  <2>9. CASE RecentThresholdHit(t)
    BY <2>9 DEF RecentThresholdHit
  <2>10. CASE requestPull(t)
    BY <2>10 DEF requestPull
  <2>. QED
    BY <1>1, <2>1, <2>2, <2>3, <2>4, <2>5, <2>6, <2>7, <2>8, <2>9, <2>10 DEF Find
<1>2. CASE Allocate(t)
  <2>1. CASE InsertBegins(t)
    BY <2>1 DEF InsertBegins
  <2>2. CASE AllocLoad(t)
    BY <2>2 DEF AllocLoad
  <2>3. CASE requestPurge(t)
    BY <2>3 DEF requestPurge
  <2>4. CASE AllocNext(t)
    BY <2>4 DEF AllocNext
  <2>5. CASE AllocCas(t)
    BY <2>5 DEF AllocCas
  <2>6. CASE AllocCasFails(t)
    BY <2>6 DEF AllocCasFails
  <2>. QED
    BY <1>2, <2>1, <2>2, <2>3, <2>4, <2>5, <2>6 DEF Allocate
<1>3. CASE Fill(t)
  <2>1. CASE FillNode(t)
    BY <2>1 DEF FillNode
  <2>2. CASE addNodeToBucket(t)
    <3>. DEFINE b == keyToBucketNr(key[node[t]])
    <3>1. /\ pc[t] = "add_to_bucket" /\ pc' = [pc EXCEPT ![t] = "add_first"]
          /\ bucket_lock[LockOf(b)] = NULL
          /\ bucket' = [bucket EXCEPT ![b] = <<node[t]>> \o bucket[b]]
          /\ node' = node /\ arg' = arg
      BY <2>2 DEF addNodeToBucket
    <3>2. FunctionsOK'
      BY <3>1
    <3>3. ASSUME NEW u \in Threads, pc'[u] \in FindLocked
          PROVE  node'[u] \in Range(bucket'[keyToBucketNr(arg'[u])])
      <4>1. pc[u] \in FindLocked
        BY <3>1, <3>3
      <4>2. keyToBucketNr(arg[u]) \in Buckets /\ keyToBucketNr(arg[u]) # b
        BY <3>1, <4>1
      <4>3. bucket'[keyToBucketNr(arg[u])] = bucket[keyToBucketNr(arg[u])]
        BY <3>1, <4>2
      <4>. QED
        BY <3>1, <4>1, <4>3
    <3>. QED
      BY <3>2, <3>3
  <2>3. CASE InsertReturns(t)
    BY <2>3 DEF InsertReturns
  <2>. QED
    BY <1>3, <2>1, <2>2, <2>3 DEF Fill
<1>4. CASE AddSublist(t)
  <2>1. CASE AddFirst(t)
    BY <2>1 DEF AddFirst
  <2>2. CASE AddCas(t)
    BY <2>2 DEF AddCas
  <2>3. CASE AddCasFails(t)
    BY <2>3 DEF AddCasFails
  <2>4. CASE AddBack(t)
    BY <2>4 DEF AddBack
  <2>. QED
    BY <1>4, <2>1, <2>2, <2>3, <2>4 DEF AddSublist
<1>5. CASE Purge(t)
  <2>1. CASE PurgeBegins(t)
    BY <2>1 DEF PurgeBegins
  <2>2. CASE NoPurge(t)
    BY <2>2 DEF NoPurge
  <2>3. CASE PurgeSkip(t)
    BY <2>3 DEF PurgeSkip
  <2>4. CASE PurgeChoose(t)
    BY <2>4 DEF PurgeChoose
  <2>5. CASE removeNodeFromBucket(t)
    BY <2>5 DEF removeNodeFromBucket
  <2>6. CASE KeepInBucket(t)
    BY <2>6 DEF KeepInBucket
  <2>7. CASE PurgeUnlink(t)
    BY <2>7 DEF PurgeUnlink
  <2>8. CASE DisposeCas(t)
    BY <2>8 DEF DisposeCas
  <2>9. CASE DisposeCasFails(t)
    BY <2>9 DEF DisposeCasFails
  <2>10. CASE PurgeEnds(t)
    BY <2>10 DEF PurgeEnds
  <2>11. CASE PurgeLowersFlag(t)
    BY <2>11 DEF PurgeLowersFlag
  <2>. QED
    BY <1>5, <2>1, <2>2, <2>3, <2>4, <2>5, <2>6, <2>7, <2>8, <2>9, <2>10, <2>11 DEF Purge
<1>6. CASE Pull(t)
  <2>1. CASE PullBegins(t)
    BY <2>1 DEF PullBegins
  <2>2. CASE NoPull(t)
    BY <2>2 DEF NoPull
  <2>3. CASE PullReset(t)
    BY <2>3 DEF PullReset
  <2>4. CASE PullSkip(t)
    BY <2>4 DEF PullSkip
  <2>5. CASE PullUnlink(t)
    BY <2>5 DEF PullUnlink
  <2>6. CASE PullClear(t)
    BY <2>6 DEF PullClear
  <2>7. CASE PullFoundNone(t)
    BY <2>7 DEF PullFoundNone
  <2>8. CASE PullAdds(t)
    BY <2>8 DEF PullAdds
  <2>9. CASE PullLowersFlag(t)
    BY <2>9 DEF PullLowersFlag
  <2>10. CASE PullSkipClear(t)
    BY <2>10 DEF PullSkipClear
  <2>. QED
    BY <1>6, <2>1, <2>2, <2>3, <2>4, <2>5, <2>6, <2>7, <2>8, <2>9, <2>10 DEF Pull
<1>7. CASE TryLock(t)
  BY <1>7 DEF TryLock
<1>8. CASE TryLockFails(t)
  BY <1>8 DEF TryLockFails
<1>9. CASE UnlockLru(t)
  BY <1>9 DEF UnlockLru
<1>. QED
  BY <1>1, <1>2, <1>3, <1>4, <1>5, <1>6, <1>7, <1>8, <1>9 DEF Step

(* Neither does releaseMemory, which waits until no call is in progress.   *)
LEMMA NextHit == HitInv /\ [Next]_vars => FunctionsOK' /\ FoundInBucket'
<1>. SUFFICES ASSUME HitInv, [Next]_vars
              PROVE  FunctionsOK' /\ FoundInBucket'
  OBVIOUS
<1>. USE DEF HitInv, ControlTypeOK, FunctionsOK, FoundInBucket, FindLocked, AllIdle,
             vars, items, links, table, recent, requests, call, locals
<1>1. ASSUME NEW t \in Threads, StartAny(t)
      PROVE  FunctionsOK' /\ FoundInBucket'
  BY <1>1 DEF StartAny, Start, Goto, Calls
<1>2. ASSUME NEW t \in Threads, Step(t)
      PROVE  FunctionsOK' /\ FoundInBucket'
  BY <1>2, StepHit
<1>3. CASE releaseMemory
  BY <1>3 DEF releaseMemory, Fresh
<1>4. CASE allocateMemory
  BY <1>4 DEF allocateMemory, Fresh
<1>5. CASE UNCHANGED vars
  BY <1>5
<1>. QED
  BY <1>1, <1>2, <1>3, <1>4, <1>5 DEF Next

-----------------------------------------------------------------------------
(* The pointers that are no nodes differ from each other.                  *)
LEMMA PointersDiffer ==
  /\ NULL \notin Nodes /\ DUMMY \notin Nodes /\ HEAD \notin Nodes /\ TAIL \notin Nodes
  /\ TEMP \notin Nodes
  /\ NULL # DUMMY /\ NULL # HEAD /\ NULL # TAIL /\ NULL # TEMP /\ DUMMY # HEAD
  /\ DUMMY # TAIL /\ DUMMY # TEMP /\ HEAD # TAIL /\ HEAD # TEMP /\ TAIL # TEMP
<1>. DEFINE one == {NULL}
            two == one \cup {DUMMY}
            three == two \cup {HEAD}
            four == three \cup {TAIL}
            five == four \cup {TEMP}
<1>1. IsFiniteSet(one) /\ Cardinality(one) = 1
  BY FS_Singleton
<1>2. IsFiniteSet(two) /\ Cardinality(two) = IF DUMMY \in one THEN 1 ELSE 2
  BY <1>1, FS_AddElement
<1>3. IsFiniteSet(three)
      /\ Cardinality(three) = IF HEAD \in two THEN Cardinality(two) ELSE Cardinality(two) + 1
  BY <1>2, FS_AddElement
<1>4. IsFiniteSet(four)
      /\ Cardinality(four) = IF TAIL \in three THEN Cardinality(three) ELSE Cardinality(three) + 1
  BY <1>3, FS_AddElement
<1>5. Cardinality(five) = IF TEMP \in four THEN Cardinality(four) ELSE Cardinality(four) + 1
  BY <1>4, FS_AddElement
<1>6. five = {NULL, DUMMY, HEAD, TAIL, TEMP}
  OBVIOUS
<1>7. Cardinality(five) = 5
  BY <1>6, PointerAssumption
<1>8. DUMMY \notin one /\ HEAD \notin two /\ TAIL \notin three /\ TEMP \notin four
  <2>. HIDE DEF one, two, three, four, five
  <2>1. Cardinality(two) \in {1, 2}
    BY <1>2
  <2>2. Cardinality(three) \in {1, 2, 3}
    BY <1>3, <2>1
  <2>3. Cardinality(four) \in {1, 2, 3, 4}
    BY <1>4, <2>2
  <2>4. TEMP \notin four /\ Cardinality(four) = 4
    BY <1>5, <1>7, <2>3
  <2>5. TAIL \notin three /\ Cardinality(three) = 3
    BY <1>4, <2>2, <2>4
  <2>6. HEAD \notin two /\ Cardinality(two) = 2
    BY <1>3, <2>1, <2>5
  <2>. QED
    BY <1>2, <2>4, <2>5, <2>6
<1>. QED
  BY <1>8, PointerAssumption

(* There are Capacity nodes.                                               *)
LEMMA NodesFinite ==
  IsFiniteSet(Nodes) /\ Capacity \in Nat /\ Cardinality(Nodes) = Capacity
  /\ Cardinality(Nodes) <= Capacity + 1
<1>1. Capacity \in Nat /\ Capacity >= 1
  BY SizeAssumption
<1>2. IsFiniteSet(1 .. Capacity) /\ Cardinality(1 .. Capacity) = Capacity
  BY <1>1, FS_Interval
<1>. QED
  BY <1>1, <1>2 DEF Nodes

-----------------------------------------------------------------------------
(* Links of other nodes do not matter to a path.                           *)
LEMMA PathFrame ==
  ASSUME NEW start, NEW succ, NEW stop, stop \notin Nodes, Path(start, succ, stop), NEW succ2,
         \A n \in Reached(start, succ) : succ2[n] = succ[n]
  PROVE  Path(start, succ2, stop) /\ Reached(start, succ2) = Reached(start, succ)
<1>1. /\ Arrives(start, succ, stop, Nodes, Capacity)
      /\ \A n \in Range(Follow(start, succ, Nodes, Capacity)) : succ2[n] = succ[n]
  BY DEF Path, Reached, Walk
<1>2. /\ Follow(start, succ2, Nodes, Capacity) = Follow(start, succ, Nodes, Capacity)
      /\ Arrives(start, succ2, stop, Nodes, Capacity)
  BY <1>1, NodesFinite, EndsFrame
<1>. QED
  BY <1>2 DEF Path, Reached, Walk

(* A node before the first of a path makes a longer one.                   *)
LEMMA PathCons ==
  ASSUME NEW n \in Nodes, NEW succ, NEW stop, stop \notin Nodes, Path(succ[n], succ, stop),
         n \notin Reached(succ[n], succ)
  PROVE  Path(n, succ, stop) /\ Reached(n, succ) = Reached(succ[n], succ) \cup {n}
<1>1. /\ Arrives(succ[n], succ, stop, Nodes, Capacity)
      /\ n \notin Range(Follow(succ[n], succ, Nodes, Capacity))
  BY DEF Path, Reached, Walk
<1>2. IsFiniteSet(Nodes) /\ Capacity \in Nat /\ Cardinality(Nodes) <= Capacity + 1
  BY NodesFinite
<1>3. /\ Follow(n, succ, Nodes, Capacity) = <<n>> \o Follow(succ[n], succ, Nodes, Capacity)
      /\ Arrives(n, succ, stop, Nodes, Capacity)
      /\ Range(Follow(n, succ, Nodes, Capacity))
           = Range(Follow(succ[n], succ, Nodes, Capacity)) \cup {n}
  BY <1>1, <1>2, EndsCons, SMTT(30)
<1>. QED
  BY <1>3 DEF Path, Reached, Walk

(* The first node of a path leads to the path of the others.               *)
LEMMA PathRest ==
  ASSUME NEW n \in Nodes, NEW succ, NEW stop, stop \notin Nodes, Path(n, succ, stop)
  PROVE  /\ Path(succ[n], succ, stop)
         /\ Reached(succ[n], succ) = Reached(n, succ) \ {n} /\ n \in Reached(n, succ)
<1>1. Arrives(n, succ, stop, Nodes, Capacity)
  BY DEF Path
<1>2. IsFiniteSet(Nodes) /\ Capacity \in Nat /\ Cardinality(Nodes) <= Capacity + 1
  BY NodesFinite
<1>3. /\ Arrives(succ[n], succ, stop, Nodes, Capacity)
      /\ Follow(n, succ, Nodes, Capacity) = <<n>> \o Follow(succ[n], succ, Nodes, Capacity)
      /\ Range(Follow(succ[n], succ, Nodes, Capacity))
           = Range(Follow(n, succ, Nodes, Capacity)) \ {n}
      /\ n \in Range(Follow(n, succ, Nodes, Capacity))
  BY <1>1, <1>2, EndsRest, Zenon
<1>. QED
  BY <1>3 DEF Path, Reached, Walk

(* Nothing is on the path from its end.                                    *)
LEMMA PathNone ==
  ASSUME NEW succ, NEW stop, stop \notin Nodes
  PROVE  Path(stop, succ, stop) /\ Reached(stop, succ) = {}
<1>1. /\ Follow(stop, succ, Nodes, Capacity) = <<>>
      /\ Arrives(stop, succ, stop, Nodes, Capacity)
  BY NodesFinite, EndsAtOnce
<1>2. Range(<<>>) = {}
  BY DEF Range
<1>. QED
  BY <1>1, <1>2 DEF Path, Reached, Walk

(* A path starts with one of its nodes or is empty.                        *)
LEMMA PathStart ==
  ASSUME NEW start, NEW succ, NEW stop, stop \notin Nodes, Path(start, succ, stop)
  PROVE  /\ Reached(start, succ) \subseteq Nodes
         /\ start = stop \/ start \in Reached(start, succ)
<1>. DEFINE list == Follow(start, succ, Nodes, Capacity)
<1>1. Distinct(list, Nodes) /\ Leads(list, start, succ, stop)
  BY DEF Path, Arrives
<1>2. Range(list) \subseteq Nodes /\ \A i \in 1 .. Len(list) : list[i] \in Range(list)
  BY <1>1, DistinctIn
<1>3. list \in Seq(Nodes)
  BY <1>1, DistinctIn
<1>4. start = stop \/ start \in Range(list)
  <2>1. CASE list = <<>>
    BY <1>1, <2>1 DEF Leads
  <2>2. CASE list # <<>>
    <3>1. start = list[1] /\ 1 \in 1 .. Len(list)
      BY <1>1, <1>3, <2>2 DEF Leads
    <3>. QED
      BY <1>2, <3>1
  <2>. QED
    BY <2>1, <2>2
<1>. QED
  BY <1>2, <1>4 DEF Reached, Walk

-----------------------------------------------------------------------------
(* What a thread's own state and claims are after a step of another.       *)
Still(u) ==
  /\ pc'[u] = pc[u] /\ ret'[u] = ret[u] /\ arg'[u] = arg[u]
  /\ node'[u] = node[u] /\ next'[u] = next[u] /\ prev'[u] = prev[u] /\ freed'[u] = freed[u]
  /\ (lru_lock' = u <=> lru_lock = u)

SameClaims(u) ==
  /\ Hand(u)' = Hand(u) /\ Late(u)' = Late(u) /\ Filled(u)' = Filled(u)
  /\ Marking(u)' = Marking(u) /\ Evicting(u)' = Evicting(u)
  /\ Unlinked(u)' = Unlinked(u) /\ Pending(u)' = Pending(u)

Others(t) == \A u \in Threads : u # t => Still(u) /\ SameClaims(u)

SameTaken ==
  /\ SliceHead' = SliceHead /\ Clearing' = Clearing
  /\ LastTaken' = LastTaken /\ Joining' = Joining

(* The claims of a thread depend on its own state only.                    *)
LEMMA StillClaims ==
  ASSUME NEW u \in Threads, Still(u)
  PROVE  SameClaims(u)
<1>1. Hand(u)' = Hand(u) /\ Filled(u)' = Filled(u) /\ Marking(u)' = Marking(u)
  BY DEF Still, Hand, Filled, Marking, If
<1>2. Evicting(u)' = Evicting(u) /\ Pending(u)' = Pending(u)
  BY DEF Still, Evicting, Pending, If
<1>3. Late(u)' = Late(u) /\ Unlinked(u)' = Unlinked(u)
  BY DEF Still, Late, Unlinked, If
<1>. QED
  BY <1>1, <1>2, <1>3 DEF SameClaims

(* What the consolidating thread has taken depends on its own state.       *)
LEMMA SameTakenByOthers ==
  ASSUME NEW t \in Threads, Sound, Others(t), lru_lock # t, lru_lock' = lru_lock
  PROVE  SameTaken
<1>1. CASE lru_lock = NULL
  BY <1>1 DEF SameTaken, SliceHead, Clearing, LastTaken, Joining, Consolidates, If
<1>2. CASE lru_lock # NULL
  <2>1. lru_lock \in Threads
    BY <1>2 DEF Sound, ControlTypeOK
  <2>2. /\ pc'[lru_lock] = pc[lru_lock] /\ node'[lru_lock] = node[lru_lock]
        /\ prev'[lru_lock] = prev[lru_lock]
    BY <2>1 DEF Others, Still
  <2>. QED
    BY <2>2 DEF SameTaken, SliceHead, Clearing, LastTaken, Joining, Consolidates, If
<1>. QED
  BY <1>1, <1>2

-----------------------------------------------------------------------------
(* A bucket, and what is in buckets, stays.                                *)
LEMMA CachedFrame ==
  ASSUME bucket' = bucket
  PROVE  Cached' = Cached
BY DEF Cached

(* Who has a node depends on the pool, the buckets and the claims only.    *)
LEMMA OwnersFrame ==
  ASSUME OwnersOK, Pool' = Pool, Cached' = Cached,
         \A u \in Threads : Hand(u)' = Hand(u) /\ Late(u)' = Late(u)
  PROVE  OwnersOK'
BY DEF OwnersOK, Owned

(* The chains are as good as before when buckets and keys stay.            *)
LEMMA ChainsFrame ==
  ASSUME ChainsOK, bucket' = bucket, key' = key,
         \A u \in Threads : Filled(u)' = Filled(u) /\ Evicting(u)' = Evicting(u)
  PROVE  ChainsOK'
<1>1. Cached' = Cached
  BY CachedFrame
<1>2. \A u \in Threads : Keyed(u)' = Keyed(u)
  BY DEF Keyed
<1>. QED
  BY <1>1, <1>2 DEF ChainsOK

(* The pool stays when its links and its head do.                          *)
LEMMA PoolFrame ==
  ASSUME PoolOK, empty_head' = empty_head, \A n \in Pool : lru_next'[n] = lru_next[n]
  PROVE  PoolOK' /\ Pool' = Pool
<1>1. /\ Path(empty_head, lru_next', NULL)
      /\ Reached(empty_head, lru_next') = Reached(empty_head, lru_next)
  BY PathFrame, PointersDiffer DEF PoolOK, Pool
<1>. QED
  BY <1>1 DEF PoolOK, Pool

(* So does the Recent list,                                                *)
LEMMA RecentFrame ==
  ASSUME Path(recent_head, recent_next, DUMMY), recent_head' = recent_head,
         \A n \in Recent : recent_next'[n] = recent_next[n]
  PROVE  Path(recent_head, recent_next, DUMMY)' /\ Recent' = Recent
<1>1. /\ Path(recent_head, recent_next', DUMMY)
      /\ Reached(recent_head, recent_next') = Reached(recent_head, recent_next)
  BY PathFrame, PointersDiffer DEF Recent
<1>. QED
  BY <1>1 DEF Recent

(* and the slice of it that pullRecent works through.                      *)
LEMMA SliceFrame ==
  ASSUME Path(SliceHead, recent_next, DUMMY), SliceHead' = SliceHead,
         \A n \in SliceSet : recent_next'[n] = recent_next[n]
  PROVE  Path(SliceHead, recent_next, DUMMY)' /\ SliceSet' = SliceSet
<1>1. /\ Path(SliceHead, recent_next', DUMMY)
      /\ Reached(SliceHead, recent_next') = Reached(SliceHead, recent_next)
  BY PathFrame, PointersDiffer DEF SliceSet
<1>. QED
  BY <1>1 DEF SliceSet

(* The recent links still tell who is in a list.                           *)
LEMMA MarksFrame ==
  ASSUME MarkListsOK, MarksOK, recent_head' = recent_head, recent_next' = recent_next,
         SliceHead' = SliceHead, Cached' = Cached,
         \A u \in Threads : /\ Marking(u)' = Marking(u) /\ Filled(u)' = Filled(u)
                             /\ Late(u)' = Late(u)
  PROVE  MarkListsOK' /\ MarksOK' /\ SliceSet' = SliceSet /\ Recent' = Recent
<1>1. MarkListsOK' /\ Recent' = Recent /\ SliceSet' = SliceSet
  BY RecentFrame, SliceFrame DEF MarkListsOK
<1>2. \A u \in Threads : Falsely(u)' = Falsely(u)
  BY DEF Falsely
<1>. QED
  BY <1>1, <1>2 DEF MarksOK

(* A step that changes no claim, no bucket, no key, no recent link and no  *)
(* link in the pool leaves every node where it is.                         *)
LEMMA NodesFrame ==
  ASSUME NodesOK, UNCHANGED <<key, bucket, empty_head, recent_head, recent_next>>,
         SliceHead' = SliceHead, \A n \in Pool : lru_next'[n] = lru_next[n],
         \A u \in Threads : SameClaims(u)
  PROVE  NodesOK' /\ Cached' = Cached /\ SliceSet' = SliceSet /\ Pool' = Pool
<1>1. Cached' = Cached
  BY CachedFrame
<1>2. PoolOK' /\ Pool' = Pool
  BY PoolFrame DEF NodesOK
<1>3. OwnersOK'
  BY <1>1, <1>2, OwnersFrame DEF NodesOK, SameClaims
<1>4. ChainsOK'
  BY ChainsFrame DEF NodesOK, SameClaims
<1>5. MarkListsOK' /\ MarksOK' /\ SliceSet' = SliceSet
  BY <1>1, MarksFrame DEF NodesOK, SameClaims
<1>. QED
  BY <1>1, <1>2, <1>3, <1>4, <1>5 DEF NodesOK

-----------------------------------------------------------------------------
(* The LRU list stays when the links of its nodes do.                      *)
LEMMA LruFrame ==
  ASSUME NEW list, NEW back, LruIs(list, back),
         \A x \in Range(list) \cup {HEAD} : lru_next'[x] = lru_next[x],
         \A x \in Range(list) \cup {TAIL} : lru_prev'[x] = lru_prev[x],
         \A u \in Threads : Pending(u)' = Pending(u)
  PROVE  LruIs(list, back)'
<1>1. Distinct(list, Nodes) /\ IsWhole(HEAD, list, TAIL, lru_next, back)
  BY DEF LruIs
<1>2. IsWhole(HEAD, list, TAIL, lru_next', back)
  BY <1>1, PointersDiffer, WholeFrame
<1>. QED
  BY <1>1, <1>2 DEF LruIs

(* So does the list on pullRecent's stack.                                 *)
LEMMA TakenFrame ==
  ASSUME NEW taken, TakenIs(taken), LastTaken' = LastTaken, Joining' = Joining,
         \A x \in Range(taken) \cup {TEMP} : lru_next'[x] = lru_next[x] \/ x = LastTaken,
         \A x \in Range(taken) : lru_prev'[x] = lru_prev[x]
  PROVE  TakenIs(taken)'
<1>1. Distinct(taken, Nodes) /\ IsWhole(TEMP, taken, TAIL, TakenNext, TakenPrev)
  BY DEF TakenIs
<1>2. Range(taken) \subseteq Nodes
  BY <1>1, DistinctIn
<1>3. \A x \in Range(taken) \cup {TEMP} : TakenNext'[x] = TakenNext[x]
  BY <1>2 DEF TakenNext, Base
<1>4. \A x \in Range(taken) \cup {TAIL} : TakenPrev'[x] = TakenPrev[x]
  BY <1>2 DEF TakenPrev, Base
<1>5. IsWhole(TEMP, taken, TAIL, TakenNext', TakenPrev')
  BY <1>1, <1>3, <1>4, PointersDiffer, WholeFrame
<1>. QED
  BY <1>1, <1>5 DEF TakenIs

(* The nodes of the two lists are the same ones when buckets and claims    *)
(* stay.                                                                   *)
LEMMA PlacesFrame ==
  ASSUME NEW L, NEW K, PlacesOK(L, K), Cached' = Cached, SliceSet' = SliceSet,
         Clearing' = Clearing, \A u \in Threads : SameClaims(u)
  PROVE  PlacesOK(L, K)'
BY DEF PlacesOK, SameClaims, Owned

(* What a thread knows stays true while the values it is about stay.       *)
LEMMA FinderFrame ==
  ASSUME NEW u, Still(u), FinderOK(u),
         pc[u] \in FindLocked => key'[node[u]] = key[node[u]],
         pc[u] = "mark_cas" => recent_next'[node[u]] = recent_next[node[u]]
  PROVE  FinderOK(u)'
BY DEF FinderOK, Still

(* What an inserting thread knows depends on its node's recent link and    *)
(* key.                                                                    *)
LEMMA InserterFrame ==
  ASSUME NEW u \in Threads, Still(u), InserterOK(u),
         pc[u] = "add_to_bucket" => key'[node[u]] = key[node[u]],
         \A n \in Falsely(u) : recent_next'[n] = recent_next[n]
  PROVE  InserterOK(u)'
<1>1. Falsely(u)' = Falsely(u)
  BY StillClaims DEF SameClaims, Falsely
<1>. QED
  BY <1>1 DEF InserterOK, Still

(* What a thread that adds to the LRU list knows depends on the links next *)
(* to its nodes.                                                           *)
LEMMA AdderFrame ==
  ASSUME NEW u, NEW L, NEW K, NEW L2, NEW K2, Still(u), AdderOK(u, L, K),
         pc[u] \in {"add_first", "add_cas"} /\ lru_lock = u =>
           K2 = K /\ lru_next'[TEMP] = lru_next[TEMP],
         pc[u] \in {"add_cas", "add_back"} => lru_next'[prev[u]] = lru_next[prev[u]],
         pc[u] = "add_cas" => lru_prev'[node[u]] = lru_prev[node[u]] \/ lru_prev'[node[u]] = HEAD,
         pc[u] = "add_back" =>
           /\ lru_prev'[next[u]] = lru_prev[next[u]] \/ lru_prev'[next[u]] = HEAD
           /\ {node[u], prev[u], next[u]} \cap L \subseteq L2,
         pc[u] = "add_back" /\ lru_lock = u =>
           \A v \in Threads : prev[u] \notin Owned(v)'
  PROVE  AdderOK(u, L2, K2)'
BY DEF AdderOK, Still

(* What the evicting thread knows depends on the links of its node.        *)
LEMMA PurgerFrame ==
  ASSUME NEW u, NEW L, NEW L2, Still(u), PurgerOK(u, L),
         pc[u] \in Purging => L \subseteq L2,
         pc[u] \in {"purge_bucket", "purge_unlink"} => lru_prev'[node[u]] = lru_prev[node[u]],
         pc[u] = "purge_unlink" => key'[node[u]] = key[node[u]],
         pc[u] = "dispose" => lru_next'[node[u]] = lru_next[node[u]]
  PROVE  PurgerOK(u, L2)'
BY DEF PurgerOK, Still, Purging

(* What the thread in pullRecent knows is about its own state.             *)
LEMMA PullerFrame ==
  ASSUME NEW u, Still(u), PullerOK(u)
  PROVE  PullerOK(u)'
BY DEF PullerOK, Still

(* A step changes no other thread's state.                                 *)
LEMMA OthersStay ==
  ASSUME NEW t \in Threads, Sound, Step(t)
  PROVE  Others(t)
<1>. SUFFICES ASSUME NEW u \in Threads, u # t
              PROVE  Still(u)
  BY StillClaims DEF Others
<1>0. /\ pc \in [Threads -> PCs] /\ ret \in [Threads -> {"idle", "ins_begin", "alloc_load"}]
      /\ arg \in [Threads -> Keys \cup {NoKey}]
      /\ node \in [Threads -> Nodes \cup {HEAD, DUMMY, NULL}]
      /\ next \in [Threads -> Nodes \cup {TAIL, DUMMY, NULL}]
      /\ prev \in [Threads -> Nodes \cup {HEAD, TEMP, NULL}]
      /\ freed \in [Threads -> 0 .. PurgeThreshold]
  BY DEF Sound, ControlTypeOK, LocalTypes
<1>. USE <1>0 DEF Still, Goto, Return, unlockBucket, LinkToRecentHead, LinkToLruHead,
         TakeNextRecent, call, locals
<1>1. ASSUME Find(t) PROVE Still(u)
  BY <1>1 DEF Find, FindMiss, FindHit, FindCopyMarked, FindCopyUnmarked, MarkCas,
     MarkCasFails,
       MarkCount, BelowThreshold, RecentThresholdHit, requestPull
<1>2. ASSUME Allocate(t) PROVE Still(u)
  BY <1>2 DEF Allocate, InsertBegins, AllocLoad, requestPurge, AllocNext, AllocCas,
     AllocCasFails
<1>3. ASSUME Fill(t) \/ AddSublist(t) PROVE Still(u)
  BY <1>3 DEF Fill, FillNode, addNodeToBucket, InsertReturns, AddSublist, AddFirst, AddCas,
       AddCasFails, AddBack
<1>4. ASSUME Purge(t) PROVE Still(u)
  BY <1>4 DEF Purge, PurgeBegins, NoPurge, PurgeSkip, PurgeChoose, removeNodeFromBucket,
       KeepInBucket, PurgeUnlink, DisposeCas, DisposeCasFails, PurgeEnds, PurgeLowersFlag
<1>5. ASSUME Pull(t) PROVE Still(u)
  BY <1>5 DEF Pull, PullBegins, NoPull, PullReset, PullSkip, PullSkipClear, PullUnlink,
       PullClear, PullFoundNone, PullAdds, PullLowersFlag
<1>6. ASSUME TryLock(t) \/ TryLockFails(t) \/ UnlockLru(t) PROVE Still(u)
  BY <1>6, ApiAssumption DEF Sound, LockDiscipline, Consolidating, TryLock, TryLockFails,
     UnlockLru
<1>. QED
  BY <1>1, <1>2, <1>3, <1>4, <1>5, <1>6 DEF Step

(* A call returns where it was called from, with the key it still needs.   *)
LEMMA StepCall ==
  ASSUME NEW t \in Threads, Sound, Step(t)
  PROVE  CallOK'
<1>1. \A u \in Threads : u # t => ReturnsOK(u)'
  BY OthersStay DEF Others, Still, ReturnsOK, Sound, CallOK
<1>0. /\ pc \in [Threads -> PCs] /\ ret \in [Threads -> {"idle", "ins_begin", "alloc_load"}]
      /\ arg \in [Threads -> Keys \cup {NoKey}] /\ ReturnsOK(t)
      /\ pc[t] \in FindLocked \cup {"find_lock"} => arg[t] \in Keys
      /\ pc[t] \in Consolidating => lru_lock = t
      /\ lru_lock = t => pc[t] \in Consolidating \cup Adding
  BY ApiAssumption DEF Sound, ControlTypeOK, LockDiscipline, CallOK
<1>. USE <1>0 DEF ReturnsOK, Goto, Return, unlockBucket, call, Consolidating, Allocating,
         Filling, FindLocked, Adding, Purging, Pulling
<1>2. ASSUME Find(t) PROVE ReturnsOK(t)'
  BY <1>2 DEF Find, FindMiss, FindHit, FindCopyMarked, FindCopyUnmarked, MarkCas,
     MarkCasFails,
       MarkCount, BelowThreshold, RecentThresholdHit, requestPull
<1>3. ASSUME Allocate(t) PROVE ReturnsOK(t)'
  BY <1>3 DEF Allocate, InsertBegins, AllocLoad, requestPurge, AllocNext, AllocCas,
     AllocCasFails
<1>4. ASSUME Fill(t) \/ AddSublist(t) PROVE ReturnsOK(t)'
  BY <1>4 DEF Fill, FillNode, addNodeToBucket, InsertReturns, AddSublist, AddFirst, AddCas,
       AddCasFails, AddBack
<1>5. ASSUME Purge(t) PROVE ReturnsOK(t)'
  BY <1>5 DEF Purge, PurgeBegins, NoPurge, PurgeSkip, PurgeChoose, removeNodeFromBucket,
       KeepInBucket, PurgeUnlink, DisposeCas, DisposeCasFails, PurgeEnds, PurgeLowersFlag
<1>6. ASSUME Pull(t) PROVE ReturnsOK(t)'
  BY <1>6 DEF Pull, PullBegins, NoPull, PullReset, PullSkip, PullSkipClear, PullUnlink,
       PullClear, PullFoundNone, PullAdds, PullLowersFlag
<1>7. ASSUME TryLock(t) \/ TryLockFails(t) \/ UnlockLru(t) PROVE ReturnsOK(t)'
  BY <1>7 DEF TryLock, TryLockFails, UnlockLru
<1>8. ReturnsOK(t)'
  BY <1>2, <1>3, <1>4, <1>5, <1>6, <1>7 DEF Step
<1>. QED
  BY <1>1, <1>8 DEF CallOK

-----------------------------------------------------------------------------
(* The links of the LRU list, which only a pending back link disturbs.     *)
LEMMA LruLinks ==
  ASSUME NEW list, NEW back, LruIs(list, back)
  PROVE  /\ Range(list) \subseteq Nodes
         /\ \A x \in Range(list) \cup {HEAD} :
              lru_next[x] \in Range(list) \cup {TAIL} /\ back[lru_next[x]] = x
         /\ \A x \in Range(list) \cup {TAIL} :
              /\ back[x] \in Range(list) \cup {HEAD} /\ lru_next[back[x]] = x
              /\ lru_prev[x] = HEAD \/ lru_prev[x] = back[x]
         /\ \A x \in Range(list) : lru_next[x] # x /\ back[x] # x
<1>1. Distinct(list, Nodes) /\ IsWhole(HEAD, list, TAIL, lru_next, back)
  BY DEF LruIs
<1>2. /\ \A x \in Range(list) \cup {HEAD} :
           lru_next[x] \in Range(list) \cup {TAIL} /\ back[lru_next[x]] = x
      /\ \A x \in Range(list) \cup {TAIL} :
           back[x] \in Range(list) \cup {HEAD} /\ lru_next[back[x]] = x
      /\ \A x \in Range(list) : lru_next[x] # x /\ back[x] # x
      /\ Range(list) \subseteq Nodes
  BY <1>1, PointersDiffer, WholeLinks
<1>3. \A x \in Range(list) \cup {TAIL} : lru_prev[x] = HEAD \/ lru_prev[x] = back[x]
  BY DEF LruIs
<1>. QED
  BY <1>2, <1>3

(* The links of the list on pullRecent's stack.                            *)
LEMMA TakenLinks ==
  ASSUME NEW taken, TakenIs(taken)
  PROVE  /\ Range(taken) \subseteq Nodes
         /\ LastTaken \in Range(taken) \cup {TEMP}
         /\ LastTaken = TEMP => Range(taken) = {}
         /\ LastTaken # TEMP => /\ lru_next[TEMP] \in Range(taken)
                                /\ TakenPrev[lru_next[TEMP]] = TEMP
<1>1. Distinct(taken, Nodes) /\ IsWhole(TEMP, taken, TAIL, TakenNext, TakenPrev)
  BY DEF TakenIs
<1>2. /\ \A x \in Range(taken) \cup {TEMP} :
           TakenNext[x] \in Range(taken) \cup {TAIL} /\ TakenPrev[TakenNext[x]] = x
      /\ \A x \in Range(taken) \cup {TAIL} :
           TakenPrev[x] \in Range(taken) \cup {TEMP} /\ TakenNext[TakenPrev[x]] = x
      /\ Range(taken) \subseteq Nodes
  BY <1>1, PointersDiffer, WholeLinks
<1>3. TakenPrev[TAIL] = LastTaken
  BY DEF TakenPrev, Base
<1>4. TakenNext[TEMP] = IF TEMP = LastTaken THEN TAIL ELSE lru_next[TEMP]
  BY DEF TakenNext, Base
<1>5. LastTaken = TEMP => Range(taken) = {}
  <2>. SUFFICES ASSUME LastTaken = TEMP, NEW x \in Range(taken) PROVE FALSE
    OBVIOUS
  <2>1. TakenNext[TEMP] = TAIL
    BY <1>4
  <2>2. PICK i \in 1 .. Len(taken) : TRUE
    BY <1>1 DEF Distinct, Range
  <2>3. taken \in Seq(Nodes) /\ Len(taken) \in Nat /\ 0 \in 0 .. Len(taken)
    BY <1>1 DEF Distinct
  <2>4. TakenNext[Spot(TEMP, taken, TAIL, 0)] = Spot(TEMP, taken, TAIL, 0 + 1)
    BY <1>1, <2>3 DEF IsWhole
  <2>5. Spot(TEMP, taken, TAIL, 0) = TEMP /\ Spot(TEMP, taken, TAIL, 1) = taken[1]
    BY <2>2, <2>3 DEF Spot
  <2>6. taken[1] \in Nodes
    BY <2>2, <2>3
  <2>. QED
    BY <2>1, <2>4, <2>5, <2>6, PointersDiffer
<1>6. LastTaken # TEMP => lru_next[TEMP] \in Range(taken) /\ TakenPrev[lru_next[TEMP]] = TEMP
  BY <1>2, <1>3, <1>4
<1>. QED
  BY <1>2, <1>3, <1>5, <1>6

(* The steps that change nothing but the thread's own state, a lock, a     *)
(* flag or a counter.                                                      *)
QuietFind(t) ==
  \/ FindMiss(t) \/ FindHit(t) \/ FindCopyMarked(t) \/ MarkCount(t)
  \/ BelowThreshold(t) \/ RecentThresholdHit(t) \/ requestPull(t)
QuietAllocate(t) ==
  InsertBegins(t) \/ AllocLoad(t) \/ requestPurge(t) \/ AllocNext(t) \/ AllocCasFails(t)
QuietPurge(t) ==
  \/ PurgeBegins(t) \/ NoPurge(t) \/ PurgeSkip(t) \/ PurgeChoose(t) \/ KeepInBucket(t)
  \/ PurgeEnds(t) \/ PurgeLowersFlag(t)
QuietPull(t) ==
  NoPull(t) \/ PullReset(t) \/ PullSkip(t) \/ PullFoundNone(t) \/ PullAdds(t)
QuietLock(t) == TryLock(t) \/ TryLockFails(t) \/ UnlockLru(t)

Quiet(t) ==
  /\ UNCHANGED <<items, links, recent_next, bucket, empty_head, recent_head>>
  /\ SameClaims(t) /\ SameTaken

(* They leave every claim, and what the consolidating thread has taken.    *)
LEMMA QuietSteps ==
  ASSUME NEW t \in Threads, Sound, Others(t),
         QuietFind(t) \/ QuietAllocate(t) \/ QuietPurge(t) \/ QuietPull(t) \/ QuietLock(t)
  PROVE  Quiet(t)
<1>0. /\ pc \in [Threads -> PCs] /\ ret \in [Threads -> {"idle", "ins_begin", "alloc_load"}]
      /\ node \in [Threads -> Nodes \cup {HEAD, DUMMY, NULL}]
      /\ next \in [Threads -> Nodes \cup {TAIL, DUMMY, NULL}]
      /\ prev \in [Threads -> Nodes \cup {HEAD, TEMP, NULL}]
      /\ pc[t] \in Consolidating => lru_lock = t
      /\ lru_lock = t => pc[t] \in Consolidating \cup Adding
  BY ApiAssumption DEF Sound, ControlTypeOK, LocalTypes, LockDiscipline
<1>1. ASSUME QuietFind(t) \/ QuietAllocate(t) PROVE Quiet(t)
  <2>1. lru_lock' = lru_lock /\ pc[t] \notin Consolidating \cup Adding
    BY <1>1 DEF QuietFind, QuietAllocate, FindMiss, FindHit, FindCopyMarked, MarkCount,
         BelowThreshold, RecentThresholdHit, requestPull, InsertBegins, AllocLoad,
         requestPurge, AllocNext, AllocCasFails, Goto, Consolidating, Adding, Purging, Pulling
  <2>2. SameTaken
    BY <1>0, <2>1, SameTakenByOthers
  <2>3. UNCHANGED <<items, links, recent_next, bucket, empty_head, recent_head>>
    BY <1>1 DEF QuietFind, QuietAllocate, FindMiss, FindHit, FindCopyMarked, MarkCount,
         BelowThreshold, RecentThresholdHit, requestPull, InsertBegins, AllocLoad,
         requestPurge, AllocNext, AllocCasFails, table, recent, items, links
  <2>4. /\ pc[t] \notin {"ins_done", "add_to_bucket", "mark_cas", "purge_unlink", "dispose", "fill"}
        /\ pc'[t] \notin {"ins_done", "add_to_bucket", "mark_cas", "purge_unlink", "dispose", "fill"}
                         \cup Adding
    BY <1>0, <1>1 DEF QuietFind, QuietAllocate, FindMiss, FindHit, FindCopyMarked,
       MarkCount,
         BelowThreshold, RecentThresholdHit, requestPull, InsertBegins, AllocLoad,
         requestPurge, AllocNext, AllocCasFails, Goto, Return, Adding
  <2>5. SameClaims(t)
    BY <2>1, <2>4 DEF SameClaims, Hand, Late, Filled, Marking, Evicting, Unlinked,
       Pending, If,
         Adding, Filling
  <2>. QED
    BY <2>2, <2>3, <2>5 DEF Quiet
<1>2. ASSUME QuietPurge(t) \/ QuietPull(t) PROVE Quiet(t)
  <2>. USE DEF QuietPurge, PurgeBegins, NoPurge, PurgeSkip, PurgeChoose, KeepInBucket,
         PurgeEnds, PurgeLowersFlag, QuietPull, NoPull, PullReset, PullSkip, PullFoundNone,
         PullAdds, Goto, table, recent, items, links, locals
  <2>1. /\ pc[t] \in Consolidating \ {"pull_clear", "purge_unlink", "dispose"} /\ lru_lock' = lru_lock
        /\ pc'[t] \in (Consolidating \cup {"add_first"}) \ {"pull_clear", "purge_unlink", "dispose"}
    BY <1>0, <1>2 DEF Consolidating, Purging, Pulling
  <2>2. lru_lock = t /\ lru_lock # NULL
    BY <1>0, <2>1, ApiAssumption
  <2>3. UNCHANGED <<items, links, recent_next, bucket, empty_head, recent_head>>
    BY <1>2
  <2>4. SliceHead' = SliceHead /\ LastTaken' = LastTaken
    BY <1>0, <1>2, <2>1, <2>2 DEF SliceHead, LastTaken, Consolidates
  <2>5. Clearing' = Clearing /\ Joining' = Joining
    BY <2>1, <2>2 DEF Clearing, Joining, Consolidates, If, Consolidating, Purging, Pulling
  <2>6. SameClaims(t)
    BY <2>1, <2>2 DEF SameClaims, Hand, Late, Filled, Marking, Evicting, Unlinked,
       Pending, If,
         Adding, Filling, Consolidating, Purging, Pulling
  <2>. QED
    BY <2>3, <2>4, <2>5, <2>6 DEF Quiet, SameTaken
<1>3. ASSUME QuietLock(t) PROVE Quiet(t)
  <2>. USE DEF QuietLock, TryLock, TryLockFails, UnlockLru, Goto, Return, table, recent, items, links
  <2>1. UNCHANGED <<items, links, recent_next, bucket, empty_head, recent_head>>
    BY <1>3
  <2>2. /\ pc[t] \in {"try_lock", "unlock"}
        /\ pc'[t] \in {"cons_purge", "idle", "ins_begin", "alloc_load"}
    BY <1>0, <1>3
  <2>3. SameClaims(t)
    BY <2>2 DEF SameClaims, Hand, Late, Filled, Marking, Evicting, Unlinked, Pending, If,
         Adding, Filling
  <2>4. SameTaken
    <3>1. CASE TryLockFails(t)
      <4>1. lru_lock' = lru_lock /\ lru_lock # t
        BY <1>0, <3>1 DEF Consolidating, Purging, Pulling, Adding
      <4>. QED
        BY <4>1, SameTakenByOthers
    <3>2. CASE TryLock(t) \/ UnlockLru(t)
      <4>1. /\ lru_lock \in {NULL, t} /\ lru_lock' \in {NULL, t}
        BY <1>0, <3>2 DEF Consolidating
      <4>. QED
        BY <2>2, <4>1 DEF SameTaken, SliceHead, Clearing, LastTaken, Joining,
           Consolidates, If
    <3>. QED
      BY <1>3, <3>1, <3>2
  <2>. QED
    BY <2>1, <2>3, <2>4 DEF Quiet
<1>. QED
  BY <1>1, <1>2, <1>3

(* So such a step keeps the invariant if its thread knows what it needs.   *)
LEMMA QuietKeeps ==
  ASSUME NEW t \in Threads, Others(t), Quiet(t), NodesOK,
         NEW list, NEW back, NEW taken, ListsAre(list, back, taken),
         ThreadOK(t, Range(list), Range(taken))'
  PROVE  NodesOK' /\ ListsAre(list, back, taken)' /\ Cached' = Cached
<1>. DEFINE L == Range(list)
            K == Range(taken)
<1>1. /\ lru_next' = lru_next /\ lru_prev' = lru_prev /\ key' = key /\ recent_next' = recent_next
      /\ \A u \in Threads : SameClaims(u)
      /\ SliceHead' = SliceHead /\ Clearing' = Clearing
      /\ LastTaken' = LastTaken /\ Joining' = Joining
  BY DEF Quiet, Others, SameTaken, links, items
<1>2. NodesOK' /\ Cached' = Cached /\ SliceSet' = SliceSet
  BY <1>1, NodesFrame DEF Quiet, items
<1>3. LruIs(list, back) /\ TakenIs(taken) /\ PlacesOK(L, K) /\ \A u \in Threads : ThreadOK(u, L, K)
  BY DEF ListsAre
<1>4. LruIs(list, back)'
  BY <1>1, <1>3, LruFrame DEF SameClaims
<1>5. TakenIs(taken)'
  BY <1>1, <1>3, TakenFrame
<1>6. PlacesOK(L, K)'
  BY <1>1, <1>2, <1>3, PlacesFrame
<1>7. ASSUME NEW u \in Threads, u # t
      PROVE  ThreadOK(u, L, K)'
  <2>1. Still(u) /\ ThreadOK(u, L, K)
    BY <1>3, <1>7 DEF Others
  <2>2. FinderOK(u)' /\ InserterOK(u)'
    BY <1>1, <2>1, FinderFrame, InserterFrame DEF ThreadOK
  <2>3. \A v \in Threads : Owned(v)' = Owned(v)
    BY <1>1 DEF SameClaims, Owned
  <2>4. AdderOK(u, L, K)'
    BY <1>1, <2>1, <2>3 DEF ThreadOK, AdderOK, Still
  <2>5. PurgerOK(u, L)' /\ PullerOK(u)'
    BY <1>1, <2>1, PullerFrame DEF ThreadOK, PurgerOK, Still
  <2>. QED
    BY <2>2, <2>4, <2>5 DEF ThreadOK
<1>. QED
  BY <1>2, <1>4, <1>5, <1>6, <1>7 DEF ListsAre

(* Between the parts of a call a thread knows nothing.                     *)
LEMMA NothingKnown ==
  ASSUME NEW t \in Threads, NEW L, NEW K,
         pc'[t] \in {"idle", "find_lock", "find_threshold", "request_pull", "try_lock",
                    "ins_begin", "alloc_load", "cons_purge"}
  PROVE  ThreadOK(t, L, K)'
BY DEF ThreadOK, FinderOK, InserterOK, AdderOK, PurgerOK, PullerOK, Falsely, Filled,
   Late, If,
       Adding, FindLocked

(* A call that returns resets its locals.                                  *)
LEMMA ReturnTypes ==
  ASSUME NEW t \in Threads, LocalTypes, Return(t)
  PROVE  LocalTypes'
BY SizeAssumption DEF LocalTypes, Return

(* What a lookup knows of the node it finds.                               *)
LEMMA QuietFindKnows ==
  ASSUME NEW t \in Threads, Sound, NEW L, NEW K, ThreadOK(t, L, K), QuietFind(t)
  PROVE  ThreadOK(t, L, K)' /\ ArrayTypes' /\ LocalTypes'
<1>0. /\ pc \in [Threads -> PCs] /\ ret \in [Threads -> {"idle", "ins_begin", "alloc_load"}]
      /\ arg \in [Threads -> Keys \cup {NoKey}]
      /\ lru_lock = t => pc[t] \in Consolidating \cup Adding
      /\ ArrayTypes /\ LocalTypes
  BY ApiAssumption DEF Sound, ControlTypeOK, LockDiscipline
<1>1. CASE FindHit(t)
  <2>1. PICK i \in Hits(arg[t]) :
          node' = [node EXCEPT ![t] = bucket[keyToBucketNr(arg[t])][i]]
    BY <1>1 DEF FindHit
  <2>2. /\ pc[t] = "find_lock" /\ pc' = [pc EXCEPT ![t] = "find_copy"] /\ arg' = arg
        /\ UNCHANGED <<items, links, recent_next, bucket, empty_head, recent, requests, next, prev,
                       freed>>
    BY <1>1 DEF FindHit, Goto
  <2>3. arg[t] \in Keys
    BY <2>2 DEF Sound, ControlTypeOK
  <2>4. bucket[keyToBucketNr(arg[t])] \in Seq(Nodes)
    BY <1>0, <2>3, BucketNrInRange DEF ArrayTypes
  <2>5. node'[t] \in Nodes /\ key[node'[t]] = arg[t]
    BY <1>0, <2>1, <2>4 DEF Hits, LocalTypes
  <2>6. FinderOK(t)'
    BY <1>0, <2>2, <2>5 DEF FinderOK, items
  <2>7. InserterOK(t)' /\ AdderOK(t, L, K)' /\ PurgerOK(t, L)' /\ PullerOK(t)'
    BY <1>0, <2>2 DEF InserterOK, AdderOK, PurgerOK, PullerOK, Falsely, Filled, Late, If,
       Adding
  <2>8. ArrayTypes' /\ LocalTypes'
    BY <1>0, <2>1, <2>2, <2>5 DEF ArrayTypes, LocalTypes, items, links, recent, requests
  <2>. QED
    BY <2>6, <2>7, <2>8 DEF ThreadOK
<1>2. CASE FindMiss(t) \/ RecentThresholdHit(t) \/ requestPull(t)
  <2>1. /\ pc'[t] \in {"find_threshold", "request_pull", "try_lock"}
        /\ UNCHANGED <<items, links, recent_next, bucket, empty_head, recent, purge_request, locals>>
        /\ pull_request' \in {pull_request, TRUE}
    BY <1>0, <1>2 DEF FindMiss, RecentThresholdHit, requestPull, Goto, table, requests
  <2>2. ArrayTypes' /\ LocalTypes'
    BY <1>0, <2>1 DEF ArrayTypes, LocalTypes, items, links, recent, locals
  <2>. QED
    BY <2>1, <2>2, NothingKnown
<1>3. CASE FindCopyMarked(t) \/ MarkCount(t)
  <2>1. /\ pc'[t] = "find_threshold"
        /\ UNCHANGED <<items, links, recent_next, bucket, empty_head, recent_head, requests, prev, freed>>
        /\ recent_count' \in {recent_count, recent_count + 1}
        /\ node' = [node EXCEPT ![t] = NULL] /\ next' = [next EXCEPT ![t] = NULL]
    BY <1>0, <1>3 DEF FindCopyMarked, MarkCount, unlockBucket, Goto, table, recent
  <2>2. ArrayTypes' /\ LocalTypes'
    BY <1>0, <2>1 DEF ArrayTypes, LocalTypes, items, links, requests
  <2>. QED
    BY <2>1, <2>2, NothingKnown
<1>4. CASE BelowThreshold(t)
  <2>1. /\ pc'[t] \in {"idle", "ins_begin", "alloc_load"}
        /\ UNCHANGED <<items, links, recent_next, bucket, empty_head, recent, requests>>
        /\ Return(t)
    BY <1>0, <1>4 DEF BelowThreshold, Return, table
  <2>2. ArrayTypes'
    BY <1>0, <2>1 DEF ArrayTypes, items, links, recent, requests
  <2>. QED
    BY <1>0, <2>1, <2>2, NothingKnown, ReturnTypes
<1>. QED
  BY <1>1, <1>2, <1>3, <1>4 DEF QuietFind

(* What an insert knows of the node it tries to take.                      *)
LEMMA QuietAllocateKnows ==
  ASSUME NEW t \in Threads, Sound, NEW L, NEW K, ThreadOK(t, L, K), QuietAllocate(t)
  PROVE  ThreadOK(t, L, K)' /\ ArrayTypes' /\ LocalTypes'
<1>0. /\ pc \in [Threads -> PCs] /\ ArrayTypes /\ LocalTypes
  BY DEF Sound, ControlTypeOK
<1>. USE DEF QuietAllocate, InsertBegins, AllocLoad, requestPurge, AllocNext, AllocCasFails, Goto
<1>1. pc'[t] \in {"alloc_next", "alloc_cas", "try_lock"}
  BY <1>0
<1>2. InserterOK(t)'
  BY <1>0, <1>1 DEF ThreadOK, InserterOK, ArrayTypes, LocalTypes, Falsely, Filled, Late,
     If, Adding,
       locals
<1>3. FinderOK(t)' /\ AdderOK(t, L, K)' /\ PurgerOK(t, L)' /\ PullerOK(t)'
  BY <1>1 DEF FinderOK, AdderOK, PurgerOK, PullerOK, Adding, FindLocked
<1>4. ArrayTypes'
  BY <1>0 DEF ArrayTypes, items, links, recent, requests, table
<1>5. LocalTypes'
  <2>1. ASSUME pc[t] = "alloc_next", node[t] # NULL
        PROVE  lru_next[node[t]] \in Nodes \cup {TAIL, DUMMY, NULL}
    BY <1>0, <2>1 DEF ThreadOK, InserterOK, ArrayTypes, Base
  <2>2. CASE AllocNext(t)
    <3>1. /\ lru_next[node[t]] \in Nodes \cup {TAIL, DUMMY, NULL}
          /\ next' = [next EXCEPT ![t] = lru_next[node[t]]]
          /\ UNCHANGED <<node, prev, freed>>
      BY <2>1, <2>2
    <3>. QED
      BY <1>0, <3>1 DEF LocalTypes
  <2>3. CASE InsertBegins(t) \/ AllocLoad(t) \/ AllocCasFails(t)
    <3>1. /\ node' = [node EXCEPT ![t] = empty_head]
          /\ next' = next \/ next' = [next EXCEPT ![t] = NULL]
          /\ UNCHANGED <<prev, freed>>
      BY <2>3
    <3>2. empty_head \in Nodes \cup {NULL}
      BY <1>0 DEF ArrayTypes
    <3>. QED
      BY <1>0, <3>1, <3>2 DEF LocalTypes
  <2>4. CASE requestPurge(t)
    BY <1>0, <2>4 DEF LocalTypes, locals
  <2>. QED
    BY <2>2, <2>3, <2>4
<1>. QED
  BY <1>2, <1>3, <1>4, <1>5 DEF ThreadOK

(* What purgeOld knows of the node it visits: it is in the LRU list, and   *)
(* so is the one before it.                                                *)
LEMMA QuietPurgeKnows ==
  ASSUME NEW t \in Threads, Sound, NEW list, NEW back, LruIs(list, back), NEW K,
         ThreadOK(t, Range(list), K), QuietPurge(t)
  PROVE  ThreadOK(t, Range(list), K)' /\ ArrayTypes' /\ LocalTypes'
<1>. DEFINE L == Range(list)
<1>0. /\ pc \in [Threads -> PCs] /\ ArrayTypes /\ LocalTypes
      /\ pc[t] \in Consolidating => lru_lock = t
  BY DEF Sound, ControlTypeOK, LockDiscipline
<1>1. /\ L \subseteq Nodes
      /\ \A x \in L \cup {TAIL} : lru_prev[x] \in L \cup {HEAD}
      /\ HEAD \notin L
  <2>1. L \subseteq Nodes
    BY LruLinks
  <2>2. \A x \in L \cup {TAIL} : back[x] \in L \cup {HEAD} /\ (lru_prev[x] = HEAD \/ lru_prev[x] = back[x])
    BY LruLinks
  <2>. QED
    BY <2>1, <2>2, PointersDiffer
<1>. HIDE DEF L
<1>. USE DEF QuietPurge, PurgeBegins, NoPurge, PurgeSkip, PurgeChoose, KeepInBucket,
         PurgeEnds, PurgeLowersFlag, Goto
<1>2. PurgerOK(t, L) /\ L = Range(list)
  BY DEF ThreadOK, L
<1>3. /\ pc'[t] \in {"purge_visit", "cons_pull", "purge_bucket", "purge_done"}
      /\ pc[t] \in {"cons_purge", "purge_visit", "purge_bucket", "purge_done"}
      /\ lru_lock = t /\ lru_lock' = lru_lock
  BY <1>0 DEF Consolidating, Purging
<1>4. PurgerOK(t, L)'
  <2>1. CASE PurgeBegins(t)
    BY <1>0, <1>1, <2>1 DEF PurgerOK, LocalTypes
  <2>2. CASE PurgeSkip(t)
    BY <1>0, <1>1, <1>2, <2>2 DEF PurgerOK, PurgeDone, LocalTypes
  <2>3. CASE PurgeChoose(t)
    BY <1>0, <1>1, <1>2, <2>3, SizeAssumption DEF PurgerOK, PurgeDone, LocalTypes, links,
       locals
  <2>4. CASE KeepInBucket(t)
    BY <1>0, <1>1, <1>2, <2>4 DEF PurgerOK, LocalTypes
  <2>5. CASE NoPurge(t) \/ PurgeEnds(t) \/ PurgeLowersFlag(t)
    BY <1>0, <2>5 DEF PurgerOK
  <2>. QED
    BY <2>1, <2>2, <2>3, <2>4, <2>5
<1>5. FinderOK(t)' /\ InserterOK(t)' /\ AdderOK(t, L, K)' /\ PullerOK(t)'
  BY <1>3 DEF FinderOK, AdderOK, InserterOK, PullerOK, Adding, FindLocked, Falsely,
     Filled, Late, If
<1>6. ArrayTypes'
  BY <1>0 DEF ArrayTypes, items, links, recent, requests, table
<1>7. LocalTypes'
  <2>1. TAIL \in Base /\ L \subseteq Base /\ HEAD \notin L
    BY <1>1 DEF Base
  <2>2. ASSUME pc[t] = "purge_visit", ~PurgeDone(t)
        PROVE  lru_prev[node[t]] \in Nodes \cup {HEAD}
    BY <1>1, <1>2, <2>2 DEF PurgerOK, PurgeDone
  <2>3. lru_prev[TAIL] \in Nodes \cup {HEAD}
    BY <1>1
  <2>4. pc[t] = "purge_bucket" => prev[t] \in Nodes
    BY <1>1, <1>2 DEF PurgerOK
  <2>. QED
    BY <1>0, <2>2, <2>3, <2>4, SizeAssumption DEF LocalTypes, locals
<1>. QED
  BY <1>4, <1>5, <1>6, <1>7 DEF ThreadOK, L

(* What pullRecent knows of the list it is going to link in.               *)
LEMMA QuietPullKnows ==
  ASSUME NEW t \in Threads, Sound, MarkListsOK, NEW L, NEW taken, TakenIs(taken),
         ThreadOK(t, L, Range(taken)), QuietPull(t)
  PROVE  ThreadOK(t, L, Range(taken))' /\ ArrayTypes' /\ LocalTypes'
<1>. DEFINE K == Range(taken)
<1>0. /\ pc \in [Threads -> PCs] /\ ArrayTypes /\ LocalTypes
      /\ pc[t] \in Consolidating => lru_lock = t
  BY DEF Sound, ControlTypeOK, LockDiscipline
<1>1. /\ K \subseteq Nodes /\ LastTaken \in K \cup {TEMP}
      /\ LastTaken # TEMP => lru_next[TEMP] \in K
  BY TakenLinks
<1>. HIDE DEF K
<1>. USE DEF QuietPull, NoPull, PullReset, PullSkip, PullFoundNone, PullAdds, Goto
<1>2. PullerOK(t) /\ K = Range(taken)
  BY DEF ThreadOK, K
<1>3. /\ pc'[t] \in {"unlock", "pull_visit", "pull_skip", "pull_done", "add_first"}
      /\ pc[t] \in {"cons_pull", "pull_reset", "pull_visit"}
      /\ lru_lock = t /\ lru_lock' = lru_lock
  BY <1>0 DEF Consolidating, Pulling
<1>4. pc[t] = "pull_visit" => LastTaken = prev[t] /\ SliceHead = node[t]
  BY <1>3, ApiAssumption DEF LastTaken, SliceHead, Consolidates
<1>5. AdderOK(t, L, K)'
  BY <1>0, <1>1, <1>3, <1>4 DEF AdderOK, Adding, LocalTypes, links
<1>6. PullerOK(t)'
  <2>1. pc[t] = "pull_visit" /\ node[t] # DUMMY => node[t] \in Nodes
    <3>1. SliceHead = DUMMY \/ SliceHead \in Nodes
      BY PathStart, PointersDiffer DEF MarkListsOK
    <3>. QED
      BY <1>4, <3>1
  <2>. QED
    BY <1>0, <1>2, <1>3, <2>1 DEF PullerOK, locals, call
<1>7. FinderOK(t)' /\ InserterOK(t)' /\ PurgerOK(t, L)'
  BY <1>3 DEF FinderOK, InserterOK, PurgerOK, Adding, FindLocked, Falsely, Filled, Late, If
<1>8. ArrayTypes'
  BY <1>0 DEF ArrayTypes, items, links, recent, requests, table
<1>9. LocalTypes'
  BY <1>0, <1>1, <1>4 DEF LocalTypes, locals
<1>. QED
  BY <1>5, <1>6, <1>7, <1>8, <1>9 DEF ThreadOK, K

(* Nothing is known of a thread that takes or leaves lru_lock_.            *)
LEMMA QuietLockKnows ==
  ASSUME NEW t \in Threads, Sound, NEW L, NEW K, QuietLock(t)
  PROVE  ThreadOK(t, L, K)' /\ ArrayTypes' /\ LocalTypes'
<1>0. /\ pc \in [Threads -> PCs] /\ ret \in [Threads -> {"idle", "ins_begin", "alloc_load"}]
      /\ ArrayTypes /\ LocalTypes
  BY DEF Sound, ControlTypeOK
<1>. USE DEF QuietLock, TryLock, TryLockFails, UnlockLru, Goto, Return
<1>1. pc'[t] \in {"cons_purge", "idle", "ins_begin", "alloc_load"}
  BY <1>0
<1>2. ThreadOK(t, L, K)'
  BY <1>1 DEF ThreadOK, FinderOK, InserterOK, AdderOK, PurgerOK, PullerOK, Falsely, Filled,
       Late, If, Adding, FindLocked
<1>3. ArrayTypes'
  BY <1>0 DEF ArrayTypes, items, links, recent, requests, table
<1>4. LocalTypes'
  BY <1>0, SizeAssumption DEF LocalTypes, locals
<1>. QED
  BY <1>2, <1>3, <1>4

-----------------------------------------------------------------------------
(* The whole of the lists' invariant before a step, and after it.          *)
Given(t, list, back, taken) ==
  Sound /\ Others(t) /\ NodesOK /\ ListsAre(list, back, taken)

Kept == NodesOK' /\ ListsOK' /\ ArrayTypes' /\ LocalTypes'

(* A node that a lookup holds is in its bucket, and no other lookup holds  *)
(* it: that is what the bucket's lock is for.                              *)
LEMMA HeldNodes ==
  ASSUME Sound, NEW t \in Threads, pc[t] \in FindLocked, FinderOK(t)
  PROVE  /\ node[t] \in Nodes /\ node[t] \in Cached /\ arg[t] \in Keys
         /\ \A u \in Threads : u # t /\ pc[u] \in FindLocked /\ FinderOK(u) => node[u] # node[t]
<1>1. arg[t] \in Keys /\ keyToBucketNr(arg[t]) \in Buckets
  BY BucketNrInRange DEF Sound, ControlTypeOK
<1>2. node[t] \in Range(bucket[keyToBucketNr(arg[t])])
  BY DEF Sound, FoundInBucket
<1>3. bucket[keyToBucketNr(arg[t])] \in Seq(Nodes)
  BY <1>1 DEF Sound, ArrayTypes
<1>4. node[t] \in Nodes
  BY <1>2, <1>3 DEF Range
<1>5. node[t] \in Cached
  BY <1>1, <1>2 DEF Cached
<1>6. ASSUME NEW u \in Threads, pc[u] \in FindLocked, FinderOK(u), node[u] = node[t]
      PROVE  u = t
  <2>1. arg[u] = arg[t]
    BY <1>6 DEF FinderOK
  <2>2. /\ bucket_lock[LockOf(keyToBucketNr(arg[t]))] = t
        /\ bucket_lock[LockOf(keyToBucketNr(arg[u]))] = u
    BY <1>6 DEF Sound, LockDiscipline
  <2>. QED
    BY <2>1, <2>2
<1>. QED
  BY <1>1, <1>4, <1>5, <1>6

(* How the claims of a thread include each other.                          *)
LEMMA ClaimFacts ==
  ASSUME NEW u \in Threads
  PROVE  /\ Falsely(u) \subseteq Owned(u) /\ Filled(u) \subseteq Hand(u)
         /\ Evicting(u) \subseteq Hand(u) /\ Unlinked(u) \subseteq Late(u)
BY DEF Falsely, Owned, Filled, Hand, Late, Evicting, Unlinked, If, Filling, Adding

(* A step that changes no link of the LRU list keeps the lists if it puts  *)
(* every node in its place and keeps what the other threads know.          *)
LEMMA ListsStay ==
  ASSUME NEW t \in Threads, Others(t), NEW list, NEW back, NEW taken, ListsAre(list, back, taken),
         lru_next' = lru_next, lru_prev' = lru_prev, LastTaken' = LastTaken, Joining' = Joining,
         Pending(t)' = Pending(t), PlacesOK(Range(list), Range(taken))',
         ThreadOK(t, Range(list), Range(taken))',
         \A u \in Threads : u # t =>
           /\ pc[u] \in FindLocked \cup {"add_to_bucket", "purge_unlink"}
                => key'[node[u]] = key[node[u]]
           /\ \A n \in Marking(u) \cup Falsely(u) : recent_next'[n] = recent_next[n]
           /\ pc[u] = "add_back" /\ lru_lock = u => \A v \in Threads : prev[u] \notin Owned(v)'
  PROVE  ListsAre(list, back, taken)'
<1>. DEFINE L == Range(list)
            K == Range(taken)
<1>1. LruIs(list, back) /\ TakenIs(taken) /\ \A u \in Threads : ThreadOK(u, L, K)
  BY DEF ListsAre
<1>2. LruIs(list, back)'
  BY <1>1, LruFrame DEF SameClaims, Others
<1>3. TakenIs(taken)'
  BY <1>1, TakenFrame
<1>4. ASSUME NEW u \in Threads, u # t
      PROVE  ThreadOK(u, L, K)'
  <2>1. Still(u) /\ ThreadOK(u, L, K)
    BY <1>1, <1>4 DEF Others
  <2>2. pc[u] = "mark_cas" => recent_next'[node[u]] = recent_next[node[u]]
    BY <1>4 DEF Marking, If
  <2>3. FinderOK(u)'
    BY <1>4, <2>1, <2>2, FinderFrame DEF ThreadOK
  <2>4. InserterOK(u)'
    BY <1>4, <2>1, InserterFrame DEF ThreadOK
  <2>5. AdderOK(u, L, K)'
    BY <1>4, <2>1 DEF ThreadOK, AdderOK, Still
  <2>6. PurgerOK(u, L)'
    BY <1>4, <2>1 DEF ThreadOK, PurgerOK, Still
  <2>7. PullerOK(u)'
    BY <2>1, PullerFrame DEF ThreadOK
  <2>. QED
    BY <2>3, <2>4, <2>5, <2>6, <2>7 DEF ThreadOK
<1>. QED
  BY <1>2, <1>3, <1>4 DEF ListsAre

(* Marking changes neither list but Recent, and only the links of the node *)
(* that the lookup holds.                                                  *)
LEMMA MarkFrame ==
  ASSUME NEW t \in Threads, NEW list, NEW back, NEW taken, Given(t, list, back, taken),
         pc[t] \in {"find_copy", "mark_cas"}, lru_lock' = lru_lock,
         pc'[t] \in {"mark_cas", "mark_count"},
         pc[t] = "find_copy" => recent_next[node[t]] = NULL,
         UNCHANGED <<key, links, bucket, empty_head>>,
         \A n \in Nodes : n # node[t] => recent_next'[n] = recent_next[n],
         node[t] \notin SliceSet, FinderOK(t)'
  PROVE  /\ OwnersOK' /\ ChainsOK' /\ PoolOK' /\ Cached' = Cached
         /\ Path(SliceHead, recent_next, DUMMY)' /\ SliceSet' = SliceSet
         /\ ListsAre(list, back, taken)'
         /\ \A u \in Threads : Falsely(u)' = Falsely(u)
<1>. DEFINE L == Range(list)
            K == Range(taken)
<1>1. Sound /\ Others(t) /\ NodesOK /\ ListsAre(list, back, taken) /\ ThreadOK(t, L, K)
  BY DEF Given, ListsAre
<1>2. /\ lru_lock # t /\ node[t] \in Nodes
      /\ \A u \in Threads : u # t /\ pc[u] \in FindLocked => node[u] # node[t]
      /\ Marking(t) \subseteq {node[t]}
  <2>1. lru_lock # t
    BY <1>1, ApiAssumption DEF Sound, LockDiscipline, Consolidating, Purging, Pulling,
       Adding
  <2>2. \A u \in Threads : FinderOK(u)
    BY <1>1 DEF ListsAre, ThreadOK
  <2>3. pc[t] \in FindLocked
    BY DEF FindLocked
  <2>. QED
    BY <1>1, <2>1, <2>2, <2>3, HeldNodes DEF Marking, If
<1>3. SameTaken
  BY <1>1, <1>2, SameTakenByOthers
<1>4. /\ Hand(t)' = Hand(t) /\ Late(t)' = Late(t) /\ Filled(t)' = Filled(t)
      /\ Evicting(t)' = Evicting(t) /\ Unlinked(t)' = Unlinked(t) /\ Pending(t)' = Pending(t)
      /\ Falsely(t) = {} /\ Falsely(t)' = {}
  BY DEF Hand, Late, Filled, Evicting, Unlinked, Pending, Falsely, If, Filling, Adding
<1>5. \A u \in Threads : /\ Hand(u)' = Hand(u) /\ Late(u)' = Late(u) /\ Filled(u)' = Filled(u)
                         /\ Evicting(u)' = Evicting(u) /\ Unlinked(u)' = Unlinked(u)
                         /\ Owned(u)' = Owned(u) /\ Falsely(u)' = Falsely(u)
  BY <1>1, <1>4 DEF Others, SameClaims, Owned, Falsely
<1>6. Cached' = Cached /\ PoolOK' /\ Pool' = Pool
  BY <1>1, CachedFrame, PoolFrame DEF NodesOK, links
<1>7. OwnersOK' /\ ChainsOK'
  BY <1>1, <1>5, <1>6, OwnersFrame, ChainsFrame DEF NodesOK
<1>8. Path(SliceHead, recent_next, DUMMY)' /\ SliceSet' = SliceSet
  <2>1. Path(SliceHead, recent_next, DUMMY)
    BY <1>1 DEF NodesOK, MarkListsOK
  <2>2. SliceSet \subseteq Nodes
    BY <2>1, PathStart, PointersDiffer DEF SliceSet
  <2>. QED
    BY <1>3, <2>1, <2>2, SliceFrame DEF SameTaken
<1>9. PlacesOK(L, K)'
  <2>1. PlacesOK(L, K)
    BY <1>1 DEF ListsAre
  <2>. QED
    BY <1>3, <1>5, <1>6, <1>8, <2>1 DEF PlacesOK, SameTaken
<1>10. ThreadOK(t, L, K)'
  <2>1. InserterOK(t)' /\ AdderOK(t, L, K)' /\ PurgerOK(t, L)' /\ PullerOK(t)'
    BY <1>4 DEF InserterOK, AdderOK, PurgerOK, PullerOK, Adding
  <2>. QED
    BY <2>1 DEF ThreadOK
<1>11. ASSUME NEW u \in Threads, u # t
       PROVE  /\ \A n \in Marking(u) \cup Falsely(u) : recent_next'[n] = recent_next[n]
              /\ pc[u] = "add_back" /\ lru_lock = u => \A v \in Threads : prev[u] \notin Owned(v)'
  <2>1. ThreadOK(u, L, K) /\ OwnersOK /\ MarksOK
    BY <1>1 DEF ListsAre, NodesOK
  <2>2. Marking(u) \subseteq Nodes /\ node[t] \notin Marking(u)
    <3>1. pc[u] = "mark_cas" => node[u] \in Nodes /\ node[u] # node[t]
      BY <1>1, <1>2, <1>11, <2>1, HeldNodes DEF ThreadOK, FindLocked
    <3>. QED
      BY <3>1 DEF Marking, If
  <2>3. Falsely(u) \subseteq Nodes
    <3>1. Owned(u) \subseteq Nodes
      <4>1. Cached \subseteq Nodes
        BY <1>1 DEF Cached, Sound, ArrayTypes, Range
      <4>. QED
        BY <2>1, <4>1 DEF OwnersOK, Owned
    <3>. QED
      BY <3>1, ClaimFacts
  <2>4. node[t] \notin Falsely(u)
    <3>1. pc[t] = "mark_cas" => node[t] \in Marking(t)
      BY DEF Marking, If
    <3>2. pc[t] = "find_copy" /\ node[t] \in Falsely(u) => recent_next[node[t]] = DUMMY
      BY <2>1 DEF ThreadOK, InserterOK
    <3>. QED
      BY <2>1, <3>1, <3>2, PointersDiffer DEF MarksOK
  <2>. QED
    BY <1>5, <2>1, <2>2, <2>3, <2>4 DEF ThreadOK, AdderOK
<1>12. ListsAre(list, back, taken)'
  BY <1>1, <1>3, <1>4, <1>9, <1>10, <1>11, ListsStay DEF SameTaken, links
<1>. QED
  BY <1>5, <1>6, <1>7, <1>8, <1>12

(* A lookup finds its node unmarked and links it to the Recent list.       *)
LEMMA LinkMarks ==
  ASSUME NEW t \in Threads, NEW list, NEW back, NEW taken, Given(t, list, back, taken),
         pc[t] \in {"find_copy", "mark_cas"}, lru_lock' = lru_lock,
         pc' = [pc EXCEPT ![t] = "mark_cas"], pc[t] = "find_copy" => ~markedRecent(node[t]),
         LinkToRecentHead(t),
         UNCHANGED <<items, links, bucket, empty_head, recent, requests, arg, node, prev, freed>>
  PROVE  Kept
<1>1. /\ Sound /\ Others(t) /\ NodesOK /\ ListsAre(list, back, taken)
      /\ \A u \in Threads : FinderOK(u)
      /\ pc \in [Threads -> PCs] /\ ArrayTypes /\ LocalTypes /\ OwnersOK /\ MarkListsOK /\ MarksOK
  BY DEF Given, ListsAre, ThreadOK, Sound, ControlTypeOK, NodesOK
<1>2. pc[t] \in FindLocked /\ pc'[t] = "mark_cas"
  BY <1>1 DEF FindLocked
<1>3. node[t] \in Nodes /\ node[t] \in Cached
      /\ \A u \in Threads : u # t /\ pc[u] \in FindLocked => node[u] # node[t]
  BY <1>1, <1>2, HeldNodes
<1>4. pc[t] = "mark_cas" => node[t] \in Marking(t)
  BY DEF Marking, If
<1>5. node[t] \notin SliceSet /\ node[t] \notin Recent /\ \A u \in Threads : node[t] \notin Falsely(u)
  <2>1. CASE pc[t] = "mark_cas"
    BY <1>1, <1>4, <2>1 DEF MarksOK
  <2>2. CASE pc[t] = "find_copy"
    BY <1>1, <1>3, <2>2 DEF MarksOK, markedRecent
  <2>. QED
    BY <2>1, <2>2
<1>6. /\ recent_next' = [recent_next EXCEPT ![node[t]] = recent_head]
      /\ next' = [next EXCEPT ![t] = recent_head]
  BY DEF LinkToRecentHead
<1>7. /\ \A n \in Nodes : n # node[t] => recent_next'[n] = recent_next[n]
      /\ recent_next'[node[t]] = recent_head /\ next'[t] = recent_head
      /\ recent_head \in Nodes \cup {DUMMY}
  BY <1>1, <1>3, <1>6 DEF ArrayTypes, LocalTypes
<1>8. FinderOK(t)'
  BY <1>1, <1>2, <1>7 DEF FinderOK, items
<1>9. /\ OwnersOK' /\ ChainsOK' /\ PoolOK' /\ Cached' = Cached
      /\ Path(SliceHead, recent_next, DUMMY)' /\ SliceSet' = SliceSet
      /\ ListsAre(list, back, taken)'
      /\ \A u \in Threads : Falsely(u)' = Falsely(u)
  BY <1>2, <1>5, <1>7, <1>8, MarkFrame DEF items, markedRecent
<1>10. Path(recent_head, recent_next, DUMMY)' /\ Recent' = Recent
  <2>1. Path(recent_head, recent_next, DUMMY) /\ Recent \subseteq Nodes
    BY <1>1, PathStart, PointersDiffer DEF MarkListsOK, Recent
  <2>. QED
    BY <1>5, <1>7, <2>1, RecentFrame DEF recent
<1>11. /\ Marking(t)' = {node[t]} /\ Marking(t) \subseteq {node[t]}
       /\ \A u \in Threads : u # t => Marking(u)' = Marking(u)
  BY <1>1, <1>2 DEF Marking, If, Others, SameClaims
<1>12. MarksOK'
  <2>1. /\ (Recent \cap SliceSet = {})' /\ (Recent \cup SliceSet \subseteq Cached)'
    BY <1>1, <1>9, <1>10 DEF MarksOK
  <2>2. ASSUME NEW u \in Threads
        PROVE  /\ ((Marking(u) \cup Falsely(u)) \cap (Recent \cup SliceSet))' = {}
               /\ \A v \in Threads : Marking(v)' \cap Falsely(u)' = {}
    BY <1>1, <1>5, <1>9, <1>10, <1>11 DEF MarksOK
  <2>3. ASSUME NEW n \in Nodes
        PROVE  (recent_next[n] # NULL)' <=>
                 \/ n \in Recent' \cup SliceSet'
                 \/ \E u \in Threads : n \in Marking(u)' \cup Falsely(u)'
    <3>1. CASE n = node[t]
      BY <1>7, <1>11, <3>1, PointersDiffer
    <3>2. CASE n # node[t]
      BY <1>1, <1>7, <1>9, <1>10, <1>11, <3>2 DEF MarksOK
    <3>. QED
      BY <3>1, <3>2
  <2>. QED
    BY <2>1, <2>2, <2>3 DEF MarksOK
<1>13. NodesOK' /\ ListsOK'
  BY <1>9, <1>10, <1>12 DEF NodesOK, MarkListsOK, ListsOK
<1>14. ArrayTypes'
  BY <1>1, <1>3, <1>6, <1>7 DEF ArrayTypes, items, links, recent, requests
<1>15. LocalTypes'
  BY <1>1, <1>6, <1>7 DEF LocalTypes
<1>. QED
  BY <1>13, <1>14, <1>15 DEF Kept

(* markNodeRecent links its node to the head of the Recent list as it is   *)
(* now.                                                                    *)
LEMMA FindCopyUnmarkedKeeps ==
  ASSUME NEW t \in Threads, NEW list, NEW back, NEW taken, Given(t, list, back, taken),
         FindCopyUnmarked(t)
  PROVE  Kept
<1>1. /\ pc[t] = "find_copy" /\ lru_lock' = lru_lock /\ pc' = [pc EXCEPT ![t] = "mark_cas"]
      /\ ~markedRecent(node[t]) /\ LinkToRecentHead(t)
      /\ UNCHANGED <<items, links, bucket, empty_head, recent, requests, arg, node, prev, freed>>
  BY DEF FindCopyUnmarked, Goto, table, call
<1>. QED
  BY <1>1, LinkMarks

(* When its compare_exchange fails it does so again.                       *)
LEMMA MarkCasFailsKeeps ==
  ASSUME NEW t \in Threads, NEW list, NEW back, NEW taken, Given(t, list, back, taken),
         MarkCasFails(t)
  PROVE  Kept
<1>1. /\ pc[t] = "mark_cas" /\ lru_lock' = lru_lock /\ pc' = [pc EXCEPT ![t] = "mark_cas"]
      /\ LinkToRecentHead(t)
      /\ UNCHANGED <<items, links, bucket, empty_head, recent, requests, arg, node, prev, freed>>
  BY DEF MarkCasFails, Goto, table, call
<1>. QED
  BY <1>1, LinkMarks

(* The compare_exchange puts the node before the others of the list.       *)
LEMMA MarkCasKeeps ==
  ASSUME NEW t \in Threads, NEW list, NEW back, NEW taken, Given(t, list, back, taken),
         MarkCas(t)
  PROVE  Kept
<1>1. /\ Sound /\ Others(t) /\ NodesOK /\ ListsAre(list, back, taken)
      /\ \A u \in Threads : FinderOK(u)
      /\ pc \in [Threads -> PCs] /\ ArrayTypes /\ LocalTypes /\ OwnersOK /\ MarkListsOK /\ MarksOK
  BY DEF Given, ListsAre, ThreadOK, Sound, ControlTypeOK, NodesOK
<1>2. /\ pc[t] = "mark_cas" /\ pc[t] \in FindLocked /\ pc'[t] = "mark_count" /\ lru_lock' = lru_lock
      /\ recent_head = next[t] /\ recent_head' = node[t]
      /\ UNCHANGED <<items, links, recent_next, bucket, empty_head, recent_count, requests,
                     arg, node, next, prev, freed>>
  BY <1>1 DEF FindLocked, MarkCas, Goto, table, call, locals
<1>3. node[t] \in Nodes /\ node[t] \in Cached
      /\ \A u \in Threads : u # t /\ pc[u] \in FindLocked => node[u] # node[t]
  BY <1>1, <1>2, HeldNodes
<1>4. node[t] \in Marking(t)
  BY <1>2 DEF Marking, If
<1>5. node[t] \notin SliceSet /\ node[t] \notin Recent /\ \A u \in Threads : node[t] \notin Falsely(u)
  BY <1>1, <1>4 DEF MarksOK
<1>6. recent_next[node[t]] = recent_head
  BY <1>1, <1>2 DEF FinderOK
<1>7. FinderOK(t)'
  BY <1>1, <1>2 DEF FinderOK, items
<1>8. /\ OwnersOK' /\ ChainsOK' /\ PoolOK' /\ Cached' = Cached
      /\ Path(SliceHead, recent_next, DUMMY)' /\ SliceSet' = SliceSet
      /\ ListsAre(list, back, taken)'
      /\ \A u \in Threads : Falsely(u)' = Falsely(u)
  BY <1>2, <1>5, <1>7, MarkFrame DEF items
<1>9. Path(recent_head, recent_next, DUMMY)' /\ Recent' = Recent \cup {node[t]}
  <2>1. Path(recent_next[node[t]], recent_next, DUMMY)
        /\ node[t] \notin Reached(recent_next[node[t]], recent_next)
    BY <1>1, <1>5, <1>6 DEF MarkListsOK, Recent
  <2>2. /\ Path(node[t], recent_next, DUMMY)
        /\ Reached(node[t], recent_next) = Reached(recent_next[node[t]], recent_next) \cup {node[t]}
    BY <1>3, <2>1, PathCons, PointersDiffer
  <2>. QED
    BY <1>2, <1>6, <2>2 DEF Recent
<1>10. /\ Marking(t)' = {} /\ Marking(t) = {node[t]}
       /\ \A u \in Threads : u # t => Marking(u)' = Marking(u) /\ node[t] \notin Marking(u)
  BY <1>1, <1>2, <1>3 DEF Marking, If, Others, SameClaims, FindLocked
<1>11. MarksOK'
  <2>1. /\ (Recent \cap SliceSet = {})' /\ (Recent \cup SliceSet \subseteq Cached)'
    BY <1>1, <1>3, <1>5, <1>8, <1>9 DEF MarksOK
  <2>2. ASSUME NEW u \in Threads
        PROVE  /\ ((Marking(u) \cup Falsely(u)) \cap (Recent \cup SliceSet))' = {}
               /\ \A v \in Threads : Marking(v)' \cap Falsely(u)' = {}
    BY <1>1, <1>5, <1>8, <1>9, <1>10 DEF MarksOK
  <2>3. ASSUME NEW n \in Nodes
        PROVE  (recent_next[n] # NULL)' <=>
                 \/ n \in Recent' \cup SliceSet'
                 \/ \E u \in Threads : n \in Marking(u)' \cup Falsely(u)'
    BY <1>1, <1>2, <1>8, <1>9, <1>10 DEF MarksOK
  <2>. QED
    BY <2>1, <2>2, <2>3 DEF MarksOK
<1>12. NodesOK' /\ ListsOK'
  BY <1>8, <1>9, <1>11 DEF NodesOK, MarkListsOK, ListsOK
<1>13. ArrayTypes' /\ LocalTypes'
  BY <1>1, <1>2, <1>3 DEF ArrayTypes, LocalTypes, items, links, requests
<1>. QED
  BY <1>12, <1>13 DEF Kept

-----------------------------------------------------------------------------
(* The consolidating thread is the only one, and its node is what it has   *)
(* of the slice.                                                           *)
LEMMA PullerHolds ==
  ASSUME Sound, NEW t \in Threads, pc[t] \in Consolidating
  PROVE  /\ lru_lock = t /\ lru_lock # NULL
         /\ \A u \in Threads : u # t => lru_lock # u /\ pc[u] \notin Consolidating
BY ApiAssumption DEF Sound, LockDiscipline

(* The steps of pullRecent on the slice keep everything but the slice.     *)
LEMMA SliceSteps ==
  ASSUME NEW t \in Threads, NEW list, NEW back, NEW taken, Given(t, list, back, taken),
         pc[t] \in {"cons_pull", "pull_skip", "pull_clear"},
         pc'[t] \in {"pull_reset", "pull_visit"}, lru_lock' = lru_lock,
         UNCHANGED <<key, links, bucket, empty_head>>,
         LastTaken' = LastTaken, ThreadOK(t, Range(list), Range(taken))',
         \A n \in Nodes : n \notin SliceSet => recent_next'[n] = recent_next[n],
         SliceSet' \cap Range(taken) = {}
  PROVE  /\ OwnersOK' /\ ChainsOK' /\ PoolOK' /\ Cached' = Cached
         /\ ListsAre(list, back, taken)'
         /\ \A u \in Threads : Falsely(u)' = Falsely(u) /\ Marking(u)' = Marking(u)
<1>. DEFINE L == Range(list)
            K == Range(taken)
<1>1. Sound /\ Others(t) /\ NodesOK /\ ListsAre(list, back, taken) /\ ThreadOK(t, L, K)
      /\ OwnersOK /\ MarksOK
  BY DEF Given, ListsAre, NodesOK
<1>2. /\ lru_lock = t /\ lru_lock # NULL /\ \A u \in Threads : u # t => lru_lock # u
  <2>1. pc[t] \in Consolidating
    BY DEF Consolidating, Pulling
  <2>. QED
    BY <1>1, <2>1, PullerHolds
<1>3. /\ SameClaims(t) /\ Falsely(t)' = Falsely(t)
  BY DEF SameClaims, Hand, Late, Filled, Evicting, Unlinked, Pending, Falsely, Marking, If,
         Filling, Adding
<1>4. \A u \in Threads : SameClaims(u) /\ Owned(u)' = Owned(u) /\ Falsely(u)' = Falsely(u)
  BY <1>1, <1>3 DEF Others, SameClaims, Owned, Falsely
<1>5. Cached' = Cached /\ PoolOK' /\ Pool' = Pool
  BY <1>1, CachedFrame, PoolFrame DEF NodesOK, links
<1>6. OwnersOK' /\ ChainsOK'
  BY <1>1, <1>4, <1>5, OwnersFrame, ChainsFrame DEF NodesOK, SameClaims
<1>7. PlacesOK(L, K)'
  <2>1. PlacesOK(L, K)
    BY <1>1 DEF ListsAre
  <2>. QED
    BY <1>4, <1>5, <2>1 DEF PlacesOK, SameClaims
<1>8. Joining' = Joining
  BY <1>2 DEF Joining, Consolidates, If
<1>9. ASSUME NEW u \in Threads, u # t
      PROVE  /\ \A n \in Marking(u) \cup Falsely(u) : recent_next'[n] = recent_next[n]
             /\ ~(pc[u] = "add_back" /\ lru_lock = u)
  <2>1. ThreadOK(u, L, K)
    BY <1>1 DEF ListsAre
  <2>2. Marking(u) \subseteq Nodes
    <3>1. pc[u] = "mark_cas" => node[u] \in Nodes
      BY <1>1, <2>1, HeldNodes DEF ThreadOK, FindLocked
    <3>. QED
      BY <3>1 DEF Marking, If
  <2>3. Falsely(u) \subseteq Nodes
    <3>1. Cached \subseteq Nodes
      BY <1>1 DEF Cached, Sound, ArrayTypes, Range
    <3>. QED
      BY <1>1, <3>1, ClaimFacts DEF OwnersOK, Owned
  <2>. QED
    BY <1>1, <1>2, <1>9, <2>2, <2>3 DEF MarksOK
<1>10. ListsAre(list, back, taken)'
  BY <1>1, <1>3, <1>7, <1>8, <1>9, ListsStay DEF SameClaims, links
<1>. QED
  BY <1>4, <1>5, <1>6, <1>10 DEF SameClaims

(* popRecentListSlice: all of the Recent list becomes the slice.           *)
LEMMA PullBeginsKeeps ==
  ASSUME NEW t \in Threads, NEW list, NEW back, NEW taken, Given(t, list, back, taken),
         PullBegins(t)
  PROVE  Kept
<1>. DEFINE L == Range(list)
            K == Range(taken)
<1>1. /\ Sound /\ Others(t) /\ NodesOK /\ ListsAre(list, back, taken) /\ ThreadOK(t, L, K)
      /\ pc \in [Threads -> PCs] /\ ArrayTypes /\ LocalTypes /\ OwnersOK /\ MarkListsOK /\ MarksOK
      /\ TakenIs(taken)
  BY DEF Given, ListsAre, Sound, ControlTypeOK, NodesOK
<1>2. /\ pc[t] = "cons_pull" /\ pc'[t] = "pull_reset" /\ lru_lock' = lru_lock
      /\ node' = [node EXCEPT ![t] = recent_head] /\ recent_head' = DUMMY
      /\ prev' = [prev EXCEPT ![t] = TEMP]
      /\ UNCHANGED <<items, links, recent_next, bucket, empty_head, recent_count, requests,
                     next, freed>>
  BY <1>1 DEF PullBegins, Goto, table
<1>3. lru_lock = t /\ lru_lock # NULL
  BY <1>1, <1>2, PullerHolds DEF Consolidating
<1>4. node'[t] = recent_head /\ prev'[t] = TEMP
  BY <1>1, <1>2 DEF LocalTypes
<1>5. SliceHead = DUMMY /\ SliceHead' = recent_head /\ LastTaken = TEMP /\ LastTaken' = TEMP
  BY <1>2, <1>3, <1>4 DEF SliceHead, LastTaken, Consolidates
<1>6. SliceSet = {} /\ SliceSet' = Recent /\ Recent' = {} /\ MarkListsOK'
  BY <1>1, <1>2, <1>5, PathNone, PointersDiffer DEF SliceSet, Recent, MarkListsOK
<1>7. K = {}
  BY <1>1, <1>5, TakenLinks
<1>8. ThreadOK(t, L, K)'
  BY <1>2, <1>4 DEF ThreadOK, FinderOK, InserterOK, AdderOK, PurgerOK, PullerOK, Falsely,
     Filled,
       Late, If, Adding, FindLocked
<1>9. /\ OwnersOK' /\ ChainsOK' /\ PoolOK' /\ Cached' = Cached
      /\ ListsAre(list, back, taken)'
      /\ \A u \in Threads : Falsely(u)' = Falsely(u) /\ Marking(u)' = Marking(u)
  BY <1>2, <1>5, <1>7, <1>8, SliceSteps DEF items
<1>10. MarksOK'
  BY <1>1, <1>2, <1>6, <1>9 DEF MarksOK
<1>11. ArrayTypes' /\ LocalTypes'
  BY <1>1, <1>2 DEF ArrayTypes, LocalTypes, items, links, requests
<1>. QED
  BY <1>6, <1>9, <1>10, <1>11 DEF Kept, NodesOK, ListsOK

(* The first node of the slice leaves it and is no longer marked.          *)
LEMMA TakeNextKeeps ==
  ASSUME NEW t \in Threads, NEW list, NEW back, NEW taken, Given(t, list, back, taken),
         pc[t] \in {"pull_skip", "pull_clear"}, pc' = [pc EXCEPT ![t] = "pull_visit"],
         TakeNextRecent(t),
         prev' = IF pc[t] = "pull_clear" THEN [prev EXCEPT ![t] = node[t]] ELSE prev,
         UNCHANGED <<items, links, bucket, empty_head, lru_lock, recent, requests, next, freed>>
  PROVE  Kept
<1>. DEFINE L == Range(list)
            K == Range(taken)
<1>1. /\ Sound /\ Others(t) /\ NodesOK /\ ListsAre(list, back, taken) /\ ThreadOK(t, L, K)
      /\ pc \in [Threads -> PCs] /\ ArrayTypes /\ LocalTypes /\ OwnersOK /\ MarkListsOK /\ MarksOK
      /\ PlacesOK(L, K)
  BY DEF Given, ListsAre, Sound, ControlTypeOK, NodesOK
<1>2. lru_lock = t /\ lru_lock # NULL
  BY <1>1, PullerHolds DEF Consolidating, Pulling
<1>3. /\ node[t] \in Nodes /\ SliceHead = node[t]
      /\ node'[t] = recent_next[node[t]] /\ pc'[t] = "pull_visit"
      /\ recent_next' = [recent_next EXCEPT ![node[t]] = NULL]
      /\ prev'[t] = IF pc[t] = "pull_clear" THEN node[t] ELSE prev[t]
  BY <1>1, <1>2 DEF ThreadOK, PullerOK, SliceHead, Consolidates, TakeNextRecent, LocalTypes
<1>4. /\ SliceHead' = recent_next[node[t]] /\ LastTaken' = LastTaken
  BY <1>2, <1>3 DEF SliceHead, LastTaken, Consolidates
<1>5. /\ \A n \in Nodes : n # node[t] => recent_next'[n] = recent_next[n]
      /\ recent_next'[node[t]] = NULL
  BY <1>1, <1>3 DEF ArrayTypes
<1>6. /\ Path(SliceHead, recent_next, DUMMY)' /\ SliceSet' = SliceSet \ {node[t]}
      /\ node[t] \in SliceSet /\ SliceSet \subseteq Nodes
  <2>1. Path(node[t], recent_next, DUMMY) /\ SliceSet = Reached(node[t], recent_next)
    BY <1>1, <1>3 DEF MarkListsOK, SliceSet
  <2>2. /\ Path(recent_next[node[t]], recent_next, DUMMY)
        /\ Reached(recent_next[node[t]], recent_next) = SliceSet \ {node[t]}
        /\ node[t] \in SliceSet /\ SliceSet \subseteq Nodes
    BY <1>3, <2>1, PathRest, PathStart, PointersDiffer
  <2>3. /\ Path(recent_next[node[t]], recent_next', DUMMY)
        /\ Reached(recent_next[node[t]], recent_next') = SliceSet \ {node[t]}
    BY <1>5, <2>2, PathFrame, PointersDiffer
  <2>. QED
    BY <1>4, <2>2, <2>3 DEF SliceSet
<1>7. Path(recent_head, recent_next, DUMMY)' /\ Recent' = Recent
  <2>1. Path(recent_head, recent_next, DUMMY) /\ Recent \subseteq Nodes
    BY <1>1, PathStart, PointersDiffer DEF MarkListsOK, Recent
  <2>. QED
    BY <1>1, <1>5, <1>6, <2>1, RecentFrame DEF recent, MarksOK
<1>8. ThreadOK(t, L, K)'
  <2>1. PullerOK(t)'
    BY <1>1, <1>3 DEF ThreadOK, PullerOK
  <2>. QED
    BY <1>3, <2>1 DEF ThreadOK, FinderOK, InserterOK, AdderOK, PurgerOK, Falsely, Filled,
       Late, If, Adding, FindLocked
<1>9. SliceSet' \cap K = {}
  <2>1. Clearing \subseteq {node[t]}
    BY <1>2 DEF Clearing, Consolidates, If
  <2>2. SliceSet \cap K \subseteq Clearing
    BY <1>1 DEF PlacesOK
  <2>. QED
    BY <1>6, <2>1, <2>2
<1>10. /\ OwnersOK' /\ ChainsOK' /\ PoolOK' /\ Cached' = Cached
       /\ ListsAre(list, back, taken)'
       /\ \A u \in Threads : Falsely(u)' = Falsely(u) /\ Marking(u)' = Marking(u)
  BY <1>3, <1>4, <1>5, <1>6, <1>8, <1>9, SliceSteps DEF items
<1>11. MarksOK'
  <2>1. ASSUME NEW n \in Nodes
        PROVE  (recent_next[n] # NULL)' <=>
                 \/ n \in Recent' \cup SliceSet'
                 \/ \E u \in Threads : n \in Marking(u)' \cup Falsely(u)'
    <3>1. CASE n = node[t]
      BY <1>1, <1>5, <1>6, <1>7, <1>10, <3>1 DEF MarksOK
    <3>2. CASE n # node[t]
      BY <1>1, <1>5, <1>6, <1>7, <1>10, <3>2 DEF MarksOK
    <3>. QED
      BY <3>1, <3>2
  <2>2. /\ (Recent \cap SliceSet = {})' /\ (Recent \cup SliceSet \subseteq Cached)'
        /\ \A u \in Threads : ((Marking(u) \cup Falsely(u)) \cap (Recent \cup SliceSet))' = {}
        /\ \A u, v \in Threads : Marking(u)' \cap Falsely(v)' = {}
    BY <1>1, <1>6, <1>7, <1>10 DEF MarksOK
  <2>. QED
    BY <2>1, <2>2 DEF MarksOK
<1>12. ArrayTypes'
  BY <1>1, <1>3 DEF ArrayTypes, items, links, recent, requests
<1>13. LocalTypes'
  BY <1>1, <1>3 DEF LocalTypes, ArrayTypes, TakeNextRecent
<1>. QED
  BY <1>6, <1>7, <1>10, <1>11, <1>12, <1>13 DEF Kept, NodesOK, ListsOK, MarkListsOK

(* A node that pullRecent leaves at the head is out of its slice.          *)
LEMMA PullSkipClearKeeps ==
  ASSUME NEW t \in Threads, NEW list, NEW back, NEW taken, Given(t, list, back, taken),
         PullSkipClear(t)
  PROVE  Kept
<1>1. /\ pc[t] = "pull_skip" /\ pc' = [pc EXCEPT ![t] = "pull_visit"] /\ TakeNextRecent(t)
      /\ prev' = prev
      /\ UNCHANGED <<items, links, bucket, empty_head, lru_lock, recent, requests, next, freed>>
  BY DEF PullSkipClear, Goto, table
<1>. QED
  BY <1>1, TakeNextKeeps

(* So is one that it has taken.                                            *)
LEMMA PullClearKeeps ==
  ASSUME NEW t \in Threads, NEW list, NEW back, NEW taken, Given(t, list, back, taken),
         PullClear(t)
  PROVE  Kept
<1>1. /\ pc[t] = "pull_clear" /\ pc' = [pc EXCEPT ![t] = "pull_visit"] /\ TakeNextRecent(t)
      /\ prev' = [prev EXCEPT ![t] = node[t]]
      /\ UNCHANGED <<items, links, bucket, empty_head, lru_lock, recent, requests, next, freed>>
  BY DEF PullClear, Goto, table
<1>. QED
  BY <1>1, TakeNextKeeps

-----------------------------------------------------------------------------
(* The claims are of nodes, and a node that is marked or looked up is in a *)
(* bucket.                                                                 *)
LEMMA ClaimedNodes ==
  ASSUME NEW t \in Threads, NEW list, NEW back, NEW taken, Given(t, list, back, taken)
  PROVE  /\ Cached \subseteq Nodes /\ Range(list) \subseteq Nodes /\ Range(taken) \subseteq Nodes
         /\ Recent \subseteq Cached /\ SliceSet \subseteq Cached
         /\ \A u \in Threads : /\ Owned(u) \subseteq Nodes /\ Marking(u) \subseteq Cached
                               /\ Falsely(u) \subseteq Owned(u) /\ Hand(u) \subseteq Owned(u)
                               /\ pc[u] \in FindLocked => node[u] \in Cached
<1>1. Sound /\ NodesOK /\ LruIs(list, back) /\ TakenIs(taken) /\ \A u \in Threads : FinderOK(u)
  BY DEF Given, ListsAre, ThreadOK
<1>2. Cached \subseteq Nodes
  BY <1>1 DEF Cached, Sound, ArrayTypes, Range
<1>3. Range(list) \subseteq Nodes /\ Range(taken) \subseteq Nodes
  BY <1>1, LruLinks, TakenLinks
<1>4. ASSUME NEW u \in Threads
      PROVE  /\ Owned(u) \subseteq Nodes /\ Marking(u) \subseteq Cached
             /\ Falsely(u) \subseteq Owned(u) /\ Hand(u) \subseteq Owned(u)
             /\ pc[u] \in FindLocked => node[u] \in Cached
  <2>1. Owned(u) \subseteq Nodes
    BY <1>1, <1>2 DEF NodesOK, OwnersOK, Owned
  <2>2. pc[u] \in FindLocked => node[u] \in Cached
    BY <1>1, HeldNodes
  <2>3. Marking(u) \subseteq Cached
    BY <2>2 DEF Marking, If, FindLocked
  <2>. QED
    BY <2>1, <2>2, <2>3, ClaimFacts DEF Owned
<1>. QED
  BY <1>1, <1>2, <1>3, <1>4 DEF NodesOK, MarksOK

(* What is taken stays while the consolidating thread evicts.              *)
LEMMA SameTakenByPurger ==
  ASSUME NEW t \in Threads, Sound, pc[t] \in Purging, pc'[t] \in Purging, lru_lock' = lru_lock
  PROVE  /\ SameTaken /\ lru_lock = t /\ SliceHead = DUMMY /\ LastTaken = TEMP
         /\ Clearing = {} /\ Joining = {} /\ \A u \in Threads : u # t => lru_lock # u
<1>1. lru_lock = t /\ lru_lock # NULL /\ \A u \in Threads : u # t => lru_lock # u
  BY PullerHolds DEF Consolidating
<1>. QED
  BY <1>1 DEF SameTaken, SliceHead, Clearing, LastTaken, Joining, Consolidates, If, Purging

(* A step on the recent link of a node that the thread has for itself, and *)
(* that is in neither of the two lists, leaves the lists.                  *)
LEMMA OwnMarkFrame ==
  ASSUME NEW t \in Threads, NEW list, NEW back, NEW taken, Given(t, list, back, taken),
         node[t] \in Owned(t), node[t] \notin Recent, node[t] \notin SliceSet, SameTaken,
         UNCHANGED <<links, bucket, empty_head, recent_head>>,
         \A n \in Nodes : n # node[t] => recent_next'[n] = recent_next[n]
  PROVE  /\ PoolOK' /\ Pool' = Pool /\ Cached' = Cached /\ MarkListsOK'
         /\ Recent' = Recent /\ SliceSet' = SliceSet
<1>1. NodesOK /\ Recent \subseteq Nodes /\ SliceSet \subseteq Nodes
  BY ClaimedNodes DEF Given
<1>2. Cached' = Cached /\ PoolOK' /\ Pool' = Pool
  BY <1>1, CachedFrame, PoolFrame DEF NodesOK, links
<1>3. MarkListsOK' /\ Recent' = Recent /\ SliceSet' = SliceSet
  BY <1>1, RecentFrame, SliceFrame DEF NodesOK, MarkListsOK, SameTaken
<1>. QED
  BY <1>2, <1>3

(* The node is filled, and its recent link set, before others can find it. *)
LEMMA FillNodeKeeps ==
  ASSUME NEW t \in Threads, NEW list, NEW back, NEW taken, Given(t, list, back, taken),
         FillNode(t)
  PROVE  Kept
<1>. DEFINE L == Range(list)
            K == Range(taken)
<1>1. /\ Sound /\ Others(t) /\ NodesOK /\ ListsAre(list, back, taken) /\ PlacesOK(L, K)
      /\ pc \in [Threads -> PCs] /\ ArrayTypes /\ LocalTypes /\ OwnersOK /\ ChainsOK /\ MarksOK
  BY DEF Given, ListsAre, Sound, ControlTypeOK, NodesOK
<1>2. /\ pc[t] = "fill" /\ pc'[t] = "add_to_bucket" /\ lru_lock' = lru_lock
      /\ key' = [key EXCEPT ![node[t]] = arg[t]] /\ value' = [value EXCEPT ![node[t]] = arg[t]]
      /\ recent_next' = [recent_next EXCEPT ![node[t]] = DUMMY]
      /\ UNCHANGED <<links, bucket, empty_head, recent, requests, node, next, prev, freed>>
  BY <1>1 DEF FillNode, Goto, table, locals
<1>3. /\ Hand(t) = {node[t]} /\ Hand(t)' = {node[t]} /\ Filled(t)' = {node[t]}
      /\ Filled(t) = {} /\ Late(t) = {} /\ Late(t)' = {} /\ Falsely(t) = {}
      /\ Falsely(t)' = {node[t]}
      /\ Marking(t)' = Marking(t) /\ Evicting(t)' = Evicting(t) /\ Unlinked(t)' = Unlinked(t)
      /\ Pending(t)' = Pending(t) /\ Marking(t) = {}
  BY <1>2 DEF Hand, Filled, Late, Marking, Evicting, Unlinked, Pending, If, Filling,
     Adding, Falsely
<1>4. /\ node[t] \in Nodes /\ node[t] \notin Cached /\ node[t] \notin Pool /\ node[t] \in Owned(t)
      /\ node[t] \notin Recent /\ node[t] \notin SliceSet
      /\ \A u \in Threads : node[t] \notin Marking(u) /\ (u # t => node[t] \notin Owned(u))
  BY <1>1, <1>3, ClaimedNodes DEF OwnersOK, Owned
<1>5. arg[t] \in Keys /\ lru_lock # t
  BY <1>1, <1>2, ApiAssumption DEF Sound, CallOK, ReturnsOK, LockDiscipline, Filling,
     Consolidating,
       Purging, Pulling, Adding
<1>6. SameTaken
  BY <1>1, <1>2, <1>5, SameTakenByOthers
<1>7. /\ \A n \in Nodes : n # node[t] => recent_next'[n] = recent_next[n] /\ key'[n] = key[n]
      /\ recent_next'[node[t]] = DUMMY /\ key'[node[t]] = arg[t]
  BY <1>1, <1>2, <1>4 DEF ArrayTypes
<1>8. /\ PoolOK' /\ Pool' = Pool /\ Cached' = Cached /\ MarkListsOK'
      /\ Recent' = Recent /\ SliceSet' = SliceSet
  BY <1>2, <1>4, <1>6, <1>7, OwnMarkFrame DEF recent
<1>9. /\ \A u \in Threads : Hand(u)' = Hand(u) /\ Late(u)' = Late(u) /\ Owned(u)' = Owned(u)
                            /\ Marking(u)' = Marking(u) /\ Evicting(u)' = Evicting(u)
                            /\ Unlinked(u)' = Unlinked(u)
      /\ \A u \in Threads : u # t => Filled(u)' = Filled(u) /\ Falsely(u)' = Falsely(u)
                                     /\ Keyed(u)' = Keyed(u)
      /\ Keyed(t)' = Keyed(t) \cup {node[t]}
  BY <1>1, <1>3 DEF Others, SameClaims, Owned, Falsely, Keyed
<1>10. OwnersOK'
  BY <1>1, <1>8, <1>9, OwnersFrame
<1>11. ChainsOK'
  <2>1. \A b \in Buckets : \A n \in Range(bucket[b]) : n \in Cached /\ n \in Nodes
    BY <1>1, ClaimedNodes DEF Cached
  <2>2. ASSUME NEW n \in Nodes
        PROVE  (key[n] # NoKey)' <=> n \in Cached' \/ \E u \in Threads : n \in Keyed(u)'
    <3>1. CASE n = node[t]
      BY <1>5, <1>7, <1>9, <3>1, KeyAssumption
    <3>2. CASE n # node[t]
      BY <1>1, <1>7, <1>8, <1>9, <3>2 DEF ChainsOK
    <3>. QED
      BY <3>1, <3>2
  <2>3. \A b \in Buckets : \A n \in Range(bucket[b]) : keyToBucketNr(key'[n]) = b
    BY <1>1, <1>4, <1>7, <2>1 DEF ChainsOK
  <2>4. \A b \in Buckets : Distinct(bucket[b], Nodes)
    BY <1>1 DEF ChainsOK
  <2>. QED
    BY <1>2, <2>2, <2>3, <2>4 DEF ChainsOK, keyToBucketNr
<1>12. MarksOK'
  <2>1. ASSUME NEW n \in Nodes
        PROVE  (recent_next[n] # NULL)' <=>
                 \/ n \in Recent' \cup SliceSet'
                 \/ \E u \in Threads : n \in Marking(u)' \cup Falsely(u)'
    <3>1. CASE n = node[t]
      BY <1>3, <1>7, <3>1, PointersDiffer
    <3>2. CASE n # node[t]
      BY <1>1, <1>3, <1>7, <1>8, <1>9, <3>2 DEF MarksOK
    <3>. QED
      BY <3>1, <3>2
  <2>2. /\ (Recent \cap SliceSet = {})' /\ (Recent \cup SliceSet \subseteq Cached)'
        /\ \A u \in Threads : ((Marking(u) \cup Falsely(u)) \cap (Recent \cup SliceSet))' = {}
        /\ \A u, v \in Threads : Marking(u)' \cap Falsely(v)' = {}
    BY <1>1, <1>3, <1>4, <1>8, <1>9 DEF MarksOK
  <2>. QED
    BY <2>1, <2>2 DEF MarksOK
<1>13. PlacesOK(L, K)'
  BY <1>1, <1>6, <1>8, <1>9 DEF PlacesOK, SameTaken
<1>14. ThreadOK(t, L, K)'
  BY <1>2, <1>3, <1>5, <1>7 DEF ThreadOK, FinderOK, InserterOK, AdderOK, PurgerOK, PullerOK,
       FindLocked, Adding
<1>15. ASSUME NEW u \in Threads, u # t
       PROVE  /\ pc[u] \in FindLocked \cup {"add_to_bucket", "purge_unlink"}
                   => key'[node[u]] = key[node[u]]
              /\ \A n \in Marking(u) \cup Falsely(u) : recent_next'[n] = recent_next[n]
              /\ pc[u] = "add_back" /\ lru_lock = u => \A v \in Threads : prev[u] \notin Owned(v)'
  <2>1. Marking(u) \cup Falsely(u) \subseteq Nodes /\ node[t] \notin Marking(u) \cup Falsely(u)
    BY <1>4, <1>15, ClaimedNodes
  <2>2. pc[u] \in FindLocked => node[u] \in Nodes /\ node[u] # node[t]
    BY <1>4, ClaimedNodes
  <2>3. pc[u] \in {"add_to_bucket", "purge_unlink"} => node[u] \in Owned(u)
    BY DEF Owned, Hand, If, Filling
  <2>4. ThreadOK(u, L, K)
    BY <1>1 DEF ListsAre
  <2>. QED
    BY <1>4, <1>7, <1>9, <1>15, <2>1, <2>2, <2>3, <2>4, ClaimedNodes DEF ThreadOK, AdderOK
<1>16. ListsAre(list, back, taken)'
  BY <1>1, <1>2, <1>3, <1>6, <1>13, <1>14, <1>15, ListsStay DEF links, SameTaken
<1>17. ArrayTypes' /\ LocalTypes'
  BY <1>1, <1>2, <1>4, <1>5 DEF ArrayTypes, LocalTypes, links, recent, requests
<1>. QED
  BY <1>8, <1>10, <1>11, <1>12, <1>16, <1>17 DEF Kept, NodesOK, ListsOK

(* insert is done with its node and clears the recent link.                *)
LEMMA InsertReturnsKeeps ==
  ASSUME NEW t \in Threads, NEW list, NEW back, NEW taken, Given(t, list, back, taken),
         InsertReturns(t)
  PROVE  Kept
<1>. DEFINE L == Range(list)
            K == Range(taken)
<1>1. /\ Sound /\ Others(t) /\ NodesOK /\ ListsAre(list, back, taken) /\ PlacesOK(L, K)
      /\ pc \in [Threads -> PCs] /\ ArrayTypes /\ LocalTypes /\ OwnersOK /\ ChainsOK /\ MarksOK
  BY DEF Given, ListsAre, Sound, ControlTypeOK, NodesOK
<1>2. /\ pc[t] = "ins_done" /\ pc'[t] = "idle" /\ lru_lock' = lru_lock /\ Return(t)
      /\ recent_next' = [recent_next EXCEPT ![node[t]] = NULL]
      /\ UNCHANGED <<items, links, bucket, empty_head, recent, requests>>
  BY <1>1 DEF InsertReturns, Return, table, Sound, CallOK, ReturnsOK
<1>3. /\ Hand(t) = {} /\ Hand(t)' = {} /\ Late(t) = {node[t]} /\ Late(t)' = {}
      /\ Falsely(t) = {node[t]} /\ Falsely(t)' = {}
      /\ Filled(t)' = Filled(t) /\ Evicting(t)' = Evicting(t) /\ Unlinked(t)' = Unlinked(t)
      /\ Pending(t)' = Pending(t) /\ Marking(t)' = Marking(t) /\ Marking(t) = {}
  BY <1>2 DEF Hand, Filled, Late, Marking, Evicting, Unlinked, Pending, If, Filling,
     Adding, Falsely
<1>4. /\ node[t] \in Nodes /\ node[t] \in Owned(t) /\ node[t] \in Falsely(t)
      /\ node[t] \notin Recent /\ node[t] \notin SliceSet
      /\ \A u \in Threads : node[t] \notin Marking(u) /\ (u # t => node[t] \notin Owned(u))
  <2>1. node[t] \in Owned(t) /\ node[t] \in Falsely(t)
    BY <1>3 DEF Owned
  <2>. QED
    BY <1>1, <2>1, ClaimedNodes DEF OwnersOK, MarksOK
<1>5. lru_lock # t
  BY <1>1, <1>2, ApiAssumption DEF Sound, LockDiscipline, Consolidating, Purging,
     Pulling, Adding
<1>6. SameTaken
  BY <1>1, <1>2, <1>5, SameTakenByOthers
<1>7. /\ \A n \in Nodes : n # node[t] => recent_next'[n] = recent_next[n]
      /\ recent_next'[node[t]] = NULL
  BY <1>1, <1>2, <1>4 DEF ArrayTypes
<1>8. /\ PoolOK' /\ Pool' = Pool /\ Cached' = Cached /\ MarkListsOK'
      /\ Recent' = Recent /\ SliceSet' = SliceSet
  BY <1>2, <1>4, <1>6, <1>7, OwnMarkFrame DEF recent
<1>9. /\ \A u \in Threads : Hand(u)' = Hand(u) /\ Late(u)' \subseteq Late(u)
                            /\ Owned(u)' \subseteq Owned(u) /\ Filled(u)' = Filled(u)
                            /\ Marking(u)' = Marking(u) /\ Evicting(u)' = Evicting(u)
                            /\ Unlinked(u)' = Unlinked(u)
      /\ \A u \in Threads : u # t => Falsely(u)' = Falsely(u)
  BY <1>1, <1>3 DEF Others, SameClaims, Owned, Falsely
<1>10. OwnersOK'
  <2>1. /\ (Pool \cap Cached)' = {}
        /\ \A n \in Nodes : (n \in Pool \/ n \in Cached \/ \E u \in Threads : n \in Hand(u))'
        /\ \A u \in Threads : /\ Hand(u)' \subseteq Nodes /\ (Hand(u) \cap (Pool \cup Cached))' = {}
                              /\ Late(u)' \subseteq Cached'
    BY <1>1, <1>8, <1>9 DEF OwnersOK
  <2>2. ASSUME NEW u \in Threads, NEW v \in Threads, u # v
        PROVE  Owned(u)' \cap Owned(v)' = {}
    BY <1>1, <1>9, <2>2 DEF OwnersOK
  <2>. QED
    BY <2>1, <2>2 DEF OwnersOK
<1>11. ChainsOK'
  BY <1>1, <1>2, <1>9, ChainsFrame DEF items
<1>12. MarksOK'
  <2>1. ASSUME NEW n \in Nodes
        PROVE  (recent_next[n] # NULL)' <=>
                 \/ n \in Recent' \cup SliceSet'
                 \/ \E u \in Threads : n \in Marking(u)' \cup Falsely(u)'
    <3>1. CASE n = node[t]
      <4>1. \A u \in Threads : n \notin Falsely(u)'
        BY <1>3, <1>4, <1>9, <3>1, ClaimedNodes
      <4>. QED
        BY <1>4, <1>7, <1>8, <1>9, <3>1, <4>1
    <3>2. CASE n # node[t]
      BY <1>1, <1>3, <1>7, <1>8, <1>9, <3>2 DEF MarksOK
    <3>. QED
      BY <3>1, <3>2
  <2>2. /\ (Recent \cap SliceSet = {})' /\ (Recent \cup SliceSet \subseteq Cached)'
        /\ \A u \in Threads : ((Marking(u) \cup Falsely(u)) \cap (Recent \cup SliceSet))' = {}
        /\ \A u, v \in Threads : Marking(u)' \cap Falsely(v)' = {}
    BY <1>1, <1>3, <1>4, <1>8, <1>9 DEF MarksOK
  <2>. QED
    BY <2>1, <2>2 DEF MarksOK
<1>13. PlacesOK(L, K)'
  <2>1. ASSUME NEW u \in Threads PROVE (Owned(u) \cap K)' = {}
    BY <1>1, <1>9 DEF PlacesOK
  <2>. QED
    BY <1>1, <1>6, <1>8, <1>9, <2>1 DEF PlacesOK, SameTaken
<1>14. ThreadOK(t, L, K)'
  BY <1>2, NothingKnown
<1>15. ASSUME NEW u \in Threads, u # t
       PROVE  /\ key'[node[u]] = key[node[u]]
              /\ \A n \in Marking(u) \cup Falsely(u) : recent_next'[n] = recent_next[n]
              /\ pc[u] = "add_back" /\ lru_lock = u => \A v \in Threads : prev[u] \notin Owned(v)'
  <2>1. Marking(u) \cup Falsely(u) \subseteq Nodes /\ node[t] \notin Marking(u) \cup Falsely(u)
    BY <1>4, <1>15, ClaimedNodes
  <2>2. ThreadOK(u, L, K)
    BY <1>1 DEF ListsAre
  <2>. QED
    BY <1>2, <1>7, <1>9, <2>1, <2>2 DEF ThreadOK, AdderOK, items
<1>16. ListsAre(list, back, taken)'
  BY <1>1, <1>2, <1>3, <1>6, <1>13, <1>14, <1>15, ListsStay DEF links, SameTaken
<1>17. ArrayTypes' /\ LocalTypes'
  BY <1>1, <1>2, <1>4, ReturnTypes DEF ArrayTypes, items, links, recent, requests
<1>. QED
  BY <1>8, <1>10, <1>11, <1>12, <1>16, <1>17 DEF Kept, NodesOK, ListsOK

(* The pool's first node goes to the insert, and the pool starts with the  *)
(* next.                                                                   *)
LEMMA AllocCasKeeps ==
  ASSUME NEW t \in Threads, NEW list, NEW back, NEW taken, Given(t, list, back, taken),
         AllocCas(t), PoolUndeceived
  PROVE  Kept
<1>. DEFINE L == Range(list)
            K == Range(taken)
<1>1. /\ Sound /\ Others(t) /\ NodesOK /\ ListsAre(list, back, taken) /\ PlacesOK(L, K)
      /\ pc \in [Threads -> PCs] /\ ArrayTypes /\ LocalTypes /\ OwnersOK /\ ChainsOK /\ MarksOK
      /\ MarkListsOK /\ PoolOK /\ \A u \in Threads : ThreadOK(u, L, K)
  BY DEF Given, ListsAre, Sound, ControlTypeOK, NodesOK
<1>2. /\ pc[t] = "alloc_cas" /\ pc'[t] = "fill" /\ lru_lock' = lru_lock
      /\ empty_head = node[t] /\ empty_head' = next[t] /\ next' = [next EXCEPT ![t] = NULL]
      /\ UNCHANGED <<items, links, recent_next, bucket, recent, requests, node, prev, freed>>
  BY <1>1 DEF AllocCas, Goto, table
<1>3. node[t] \in Nodes /\ next[t] = lru_next[node[t]]
  BY <1>1, <1>2 DEF ThreadOK, InserterOK, PoolUndeceived
<1>4. PoolOK' /\ Pool' = Pool \ {node[t]} /\ node[t] \in Pool
  <2>1. Path(node[t], lru_next, NULL) /\ Pool = Reached(node[t], lru_next)
    BY <1>1, <1>2 DEF PoolOK, Pool
  <2>2. /\ Path(lru_next[node[t]], lru_next, NULL)
        /\ Reached(lru_next[node[t]], lru_next) = Reached(node[t], lru_next) \ {node[t]}
        /\ node[t] \in Reached(node[t], lru_next)
    BY <1>3, <2>1, PathRest, PointersDiffer
  <2>. QED
    BY <1>2, <1>3, <2>1, <2>2 DEF PoolOK, Pool, links
<1>5. /\ Hand(t) = {} /\ Hand(t)' = {node[t]} /\ Late(t)' = Late(t) /\ Late(t) = {}
      /\ Filled(t)' = Filled(t) /\ Evicting(t)' = Evicting(t) /\ Unlinked(t)' = Unlinked(t)
      /\ Pending(t)' = Pending(t) /\ Marking(t)' = Marking(t)
      /\ Falsely(t)' = {} /\ Owned(t)' = {node[t]} /\ Owned(t) = {}
  BY <1>2 DEF Hand, Filled, Late, Marking, Evicting, Unlinked, Pending, If, Filling, Adding,
       Falsely, Owned
<1>6. \A u \in Threads : /\ u # t => Hand(u)' = Hand(u) /\ Owned(u)' = Owned(u)
                         /\ Late(u)' = Late(u) /\ Filled(u)' = Filled(u)
                         /\ Marking(u)' = Marking(u) /\ Evicting(u)' = Evicting(u)
                         /\ Unlinked(u)' = Unlinked(u)
  BY <1>1, <1>5 DEF Others, SameClaims, Owned
<1>7. /\ node[t] \notin Cached /\ \A u \in Threads : node[t] \notin Hand(u) /\ node[t] \notin Owned(u)
  BY <1>1, <1>4 DEF OwnersOK, Owned
<1>8. lru_lock # t
  BY <1>1, <1>2, ApiAssumption DEF Sound, LockDiscipline, Consolidating, Purging,
     Pulling, Adding
<1>9. SameTaken
  BY <1>1, <1>2, <1>8, SameTakenByOthers
<1>10. Cached' = Cached /\ ChainsOK'
  BY <1>1, <1>2, <1>6, CachedFrame, ChainsFrame DEF items
<1>11. MarkListsOK' /\ MarksOK' /\ SliceSet' = SliceSet
  BY <1>1, <1>2, <1>6, <1>9, <1>10, MarksFrame DEF recent, SameTaken
<1>12. OwnersOK'
  <2>1. (Pool \cap Cached)' = {}
    BY <1>1, <1>4, <1>10 DEF OwnersOK
  <2>2. ASSUME NEW n \in Nodes PROVE (n \in Pool \/ n \in Cached \/ \E u \in Threads : n \in Hand(u))'
    BY <1>1, <1>4, <1>5, <1>6, <1>10 DEF OwnersOK
  <2>3. ASSUME NEW u \in Threads
        PROVE  /\ Hand(u)' \subseteq Nodes /\ (Hand(u) \cap (Pool \cup Cached))' = {}
               /\ Late(u)' \subseteq Cached'
    <3>1. CASE u = t
      BY <1>1, <1>3, <1>4, <1>5, <1>6, <1>7, <1>10, <3>1 DEF OwnersOK
    <3>2. CASE u # t
      BY <1>1, <1>4, <1>6, <1>10, <3>2 DEF OwnersOK
    <3>. QED
      BY <3>1, <3>2
  <2>4. ASSUME NEW u \in Threads, NEW v \in Threads, u # v
        PROVE  Owned(u)' \cap Owned(v)' = {}
    BY <1>1, <1>5, <1>6, <1>7, <2>4 DEF OwnersOK
  <2>. QED
    BY <2>1, <2>2, <2>3, <2>4 DEF OwnersOK
<1>13. PlacesOK(L, K)'
  <2>1. ASSUME NEW u \in Threads PROVE (Owned(u) \cap K)' = {}
    BY <1>1, <1>5, <1>6, <1>7 DEF PlacesOK
  <2>. QED
    BY <1>1, <1>6, <1>9, <1>10, <1>11, <2>1 DEF PlacesOK, SameTaken
<1>14. ThreadOK(t, L, K)'
  BY <1>2, <1>5 DEF ThreadOK, FinderOK, InserterOK, AdderOK, PurgerOK, PullerOK,
       FindLocked, Adding
<1>15. ASSUME NEW u \in Threads, u # t
       PROVE  /\ key'[node[u]] = key[node[u]]
              /\ \A n \in Marking(u) \cup Falsely(u) : recent_next'[n] = recent_next[n]
              /\ pc[u] = "add_back" /\ lru_lock = u => \A v \in Threads : prev[u] \notin Owned(v)'
  <2>1. ThreadOK(u, L, K)
    BY <1>1
  <2>2. pc[u] = "add_back" => prev[u] \in L
    BY <2>1 DEF ThreadOK, AdderOK
  <2>3. node[t] \notin L
    BY <1>1, <1>3, <1>7, ClaimFacts DEF PlacesOK
  <2>. QED
    BY <1>2, <1>5, <1>6, <2>1, <2>2, <2>3 DEF ThreadOK, AdderOK, items
<1>16. ListsAre(list, back, taken)'
  BY <1>1, <1>2, <1>5, <1>9, <1>13, <1>14, <1>15, ListsStay DEF links, SameTaken
<1>17. empty_head' \in Nodes \cup {NULL}
  <2>1. next[t] = NULL \/ next[t] \in Nodes
    BY <1>2, <1>4, PathStart, PointersDiffer DEF PoolOK
  <2>. QED
    BY <1>2, <2>1
<1>18. ArrayTypes' /\ LocalTypes'
  BY <1>1, <1>2, <1>17 DEF ArrayTypes, LocalTypes, items, links, recent, requests
<1>. QED
  BY <1>4, <1>10, <1>11, <1>12, <1>16, <1>18 DEF Kept, NodesOK, ListsOK

(* An evicted node goes back to the pool.                                  *)
LEMMA DisposeCasPools ==
  ASSUME NEW t \in Threads, NEW list, NEW back, NEW taken, Given(t, list, back, taken),
         DisposeCas(t)
  PROVE  PoolOK' /\ Pool' = Pool \cup {node[t]}
<1>1. OwnersOK /\ PoolOK /\ ThreadOK(t, Range(list), Range(taken))
  BY DEF Given, ListsAre, NodesOK
<1>2. /\ pc[t] = "dispose" /\ empty_head = next[t] /\ empty_head' = node[t] /\ lru_next' = lru_next
  BY DEF DisposeCas, Goto, links
<1>3. Hand(t) = {node[t]}
  BY <1>2 DEF Hand, If
<1>4. node[t] \in Nodes /\ node[t] \notin Pool /\ lru_next[node[t]] = next[t]
  BY <1>1, <1>2, <1>3 DEF OwnersOK, ThreadOK, PurgerOK
<1>5. Path(lru_next[node[t]], lru_next, NULL) /\ Pool = Reached(lru_next[node[t]], lru_next)
  BY <1>1, <1>2, <1>4 DEF PoolOK, Pool
<1>6. /\ Path(node[t], lru_next, NULL)
      /\ Reached(node[t], lru_next) = Reached(lru_next[node[t]], lru_next) \cup {node[t]}
  BY <1>4, <1>5, PathCons, PointersDiffer
<1>. QED
  BY <1>2, <1>5, <1>6 DEF PoolOK, Pool

(* With it every node has its place again.                                 *)
LEMMA DisposeCasKeeps ==
  ASSUME NEW t \in Threads, NEW list, NEW back, NEW taken, Given(t, list, back, taken),
         DisposeCas(t)
  PROVE  Kept
<1>. DEFINE L == Range(list)
            K == Range(taken)
<1>1. /\ Sound /\ Others(t) /\ NodesOK /\ ListsAre(list, back, taken) /\ PlacesOK(L, K)
      /\ pc \in [Threads -> PCs] /\ ArrayTypes /\ LocalTypes /\ OwnersOK /\ ChainsOK /\ MarksOK
      /\ MarkListsOK /\ PoolOK /\ \A u \in Threads : ThreadOK(u, L, K)
  BY DEF Given, ListsAre, Sound, ControlTypeOK, NodesOK
<1>2. /\ pc[t] = "dispose" /\ pc'[t] = "purge_visit" /\ lru_lock' = lru_lock
      /\ empty_head = next[t] /\ empty_head' = node[t] /\ next' = [next EXCEPT ![t] = NULL]
      /\ node' = [node EXCEPT ![t] = prev[t]] /\ prev' = [prev EXCEPT ![t] = NULL]
      /\ freed' = [freed EXCEPT ![t] = @ + 1]
      /\ UNCHANGED <<items, links, recent_next, bucket, recent, requests>>
  BY <1>1 DEF DisposeCas, Goto, table
<1>3. /\ Hand(t) = {node[t]} /\ Hand(t)' = {} /\ Late(t)' = Late(t) /\ Late(t) = {}
      /\ Filled(t)' = Filled(t) /\ Evicting(t)' = Evicting(t) /\ Unlinked(t)' = Unlinked(t)
      /\ Pending(t)' = Pending(t) /\ Marking(t)' = Marking(t)
      /\ Falsely(t)' = {} /\ Owned(t)' = {} /\ Owned(t) = {node[t]}
  BY <1>2 DEF Hand, Filled, Late, Marking, Evicting, Unlinked, Pending, If, Filling, Adding,
       Falsely, Owned
<1>4. \A u \in Threads : /\ u # t => Hand(u)' = Hand(u) /\ Owned(u)' = Owned(u)
                         /\ Late(u)' = Late(u) /\ Filled(u)' = Filled(u)
                         /\ Marking(u)' = Marking(u) /\ Evicting(u)' = Evicting(u)
                         /\ Unlinked(u)' = Unlinked(u)
  BY <1>1, <1>3 DEF Others, SameClaims, Owned
<1>5. /\ node[t] \in Nodes /\ node[t] \notin Pool /\ node[t] \notin Cached
      /\ lru_next[node[t]] = next[t] /\ prev[t] \in L
  BY <1>1, <1>2, <1>3 DEF OwnersOK, ThreadOK, PurgerOK
<1>6. PoolOK' /\ Pool' = Pool \cup {node[t]}
  BY DisposeCasPools
<1>7. SameTaken /\ \A u \in Threads : u # t => lru_lock # u
  BY <1>1, <1>2, SameTakenByPurger DEF Purging
<1>8. Cached' = Cached /\ ChainsOK'
  BY <1>1, <1>2, <1>4, CachedFrame, ChainsFrame DEF items
<1>9. MarkListsOK' /\ MarksOK' /\ SliceSet' = SliceSet
  BY <1>1, <1>2, <1>4, <1>7, <1>8, MarksFrame DEF recent, SameTaken
<1>10. OwnersOK'
  <2>1. (Pool \cap Cached)' = {}
    BY <1>1, <1>5, <1>6, <1>8 DEF OwnersOK
  <2>2. ASSUME NEW n \in Nodes PROVE (n \in Pool \/ n \in Cached \/ \E u \in Threads : n \in Hand(u))'
    BY <1>1, <1>3, <1>4, <1>6, <1>8 DEF OwnersOK
  <2>3. ASSUME NEW u \in Threads
        PROVE  /\ Hand(u)' \subseteq Nodes /\ (Hand(u) \cap (Pool \cup Cached))' = {}
               /\ Late(u)' \subseteq Cached'
    <3>1. CASE u = t
      BY <1>1, <1>3, <1>4, <1>8, <3>1 DEF OwnersOK
    <3>2. CASE u # t
      <4>1. node[t] \notin Hand(u)
        BY <1>1, <1>3, <3>2 DEF OwnersOK, Owned
      <4>. QED
        BY <1>1, <1>4, <1>6, <1>8, <3>2, <4>1 DEF OwnersOK
    <3>. QED
      BY <3>1, <3>2
  <2>4. ASSUME NEW u \in Threads, NEW v \in Threads, u # v
        PROVE  Owned(u)' \cap Owned(v)' = {}
    BY <1>1, <1>3, <1>4, <2>4 DEF OwnersOK
  <2>. QED
    BY <2>1, <2>2, <2>3, <2>4 DEF OwnersOK
<1>11. PlacesOK(L, K)'
  <2>1. ASSUME NEW u \in Threads PROVE (Owned(u) \cap K)' = {}
    BY <1>1, <1>3, <1>4 DEF PlacesOK
  <2>. QED
    BY <1>1, <1>4, <1>7, <1>8, <1>9, <2>1 DEF PlacesOK, SameTaken
<1>12. ThreadOK(t, L, K)'
  <2>1. node'[t] = prev[t]
    BY <1>1, <1>2 DEF LocalTypes
  <2>. QED
    BY <1>2, <1>3, <1>5, <2>1 DEF ThreadOK, FinderOK, InserterOK, AdderOK, PurgerOK,
       PullerOK,
       FindLocked, Adding
<1>13. ListsAre(list, back, taken)'
  BY <1>1, <1>2, <1>3, <1>7, <1>11, <1>12, ListsStay DEF links, items, SameTaken
<1>14. freed'[t] \in 0 .. PurgeThreshold
  <2>1. freed[t] < PurgeThreshold
    BY <1>1, <1>2 DEF ThreadOK, PurgerOK
  <2>2. freed[t] \in 0 .. PurgeThreshold /\ freed'[t] = freed[t] + 1
    BY <1>1, <1>2 DEF LocalTypes
  <2>. QED
    BY <2>1, <2>2, SizeAssumption
<1>15. freed' \in [Threads -> 0 .. PurgeThreshold]
  BY <1>1, <1>2, <1>14 DEF LocalTypes
<1>16. ArrayTypes'
  BY <1>1, <1>2, <1>5 DEF ArrayTypes, items, links, recent, requests
<1>17. LocalTypes'
  <2>1. prev[t] \in Nodes
    BY <1>5, ClaimedNodes
  <2>. QED
    BY <1>1, <1>2, <1>15, <2>1 DEF LocalTypes
<1>. QED
  BY <1>6, <1>8, <1>9, <1>10, <1>13, <1>16, <1>17 DEF Kept, NodesOK, ListsOK

(* The filled node goes to the head of its bucket.                         *)
LEMMA AddNodeToBucketKeeps ==
  ASSUME NEW t \in Threads, NEW list, NEW back, NEW taken, Given(t, list, back, taken),
         addNodeToBucket(t)
  PROVE  Kept
<1>. DEFINE L == Range(list)
            K == Range(taken)
            b == keyToBucketNr(key[node[t]])
<1>1. /\ Sound /\ Others(t) /\ NodesOK /\ ListsAre(list, back, taken) /\ PlacesOK(L, K)
      /\ pc \in [Threads -> PCs] /\ ArrayTypes /\ LocalTypes /\ OwnersOK /\ ChainsOK /\ MarksOK
      /\ MarkListsOK /\ PoolOK /\ \A u \in Threads : ThreadOK(u, L, K)
  BY DEF Given, ListsAre, Sound, ControlTypeOK, NodesOK
<1>2. /\ pc[t] = "add_to_bucket" /\ pc'[t] = "add_first" /\ lru_lock' = lru_lock
      /\ bucket' = [bucket EXCEPT ![b] = <<node[t]>> \o bucket[b]]
      /\ prev' = [prev EXCEPT ![t] = node[t]]
      /\ UNCHANGED <<items, links, recent_next, empty_head, recent, requests, node, next, freed>>
  BY <1>1 DEF addNodeToBucket, Goto
<1>3. lru_lock # t
  BY <1>1, <1>2, ApiAssumption DEF Sound, LockDiscipline, Consolidating, Purging,
     Pulling, Adding
<1>4. SameTaken
  BY <1>1, <1>2, <1>3, SameTakenByOthers
<1>5. /\ Hand(t) = {node[t]} /\ Hand(t)' = {} /\ Late(t) = {} /\ Late(t)' = {node[t]}
      /\ Filled(t) = {node[t]} /\ Filled(t)' = {} /\ Evicting(t)' = {} /\ Evicting(t) = {}
      /\ Unlinked(t) = {} /\ Unlinked(t)' = {node[t]}
      /\ Pending(t)' = Pending(t) /\ Marking(t)' = Marking(t) /\ Marking(t) = {}
      /\ Falsely(t) = {node[t]} /\ Falsely(t)' = {node[t]}
      /\ Owned(t)' = {node[t]} /\ Owned(t) = {node[t]}
  BY <1>2, <1>3 DEF Hand, Filled, Late, Marking, Evicting, Unlinked, Pending, If,
     Filling, Adding,
       Falsely, Owned
<1>6. /\ \A u \in Threads : /\ Owned(u)' = Owned(u) /\ Falsely(u)' = Falsely(u)
                            /\ Marking(u)' = Marking(u) /\ Evicting(u)' = Evicting(u)
      /\ \A u \in Threads : u # t => /\ Hand(u)' = Hand(u) /\ Late(u)' = Late(u)
                                     /\ Filled(u)' = Filled(u) /\ Unlinked(u)' = Unlinked(u)
                                     /\ Keyed(u)' = Keyed(u)
      /\ Keyed(t) = {node[t]} /\ Keyed(t)' = {}
  BY <1>1, <1>5 DEF Others, SameClaims, Owned, Falsely, Keyed
<1>7. /\ node[t] \in Nodes /\ node[t] \notin Pool /\ node[t] \notin Cached
      /\ \A u \in Threads : u # t => node[t] \notin Owned(u)
      /\ \A u \in Threads : u # t => node[t] \notin Hand(u)
  BY <1>1, <1>5, ClaimedNodes DEF OwnersOK
<1>8. key[node[t]] \in Keys /\ b \in Buckets /\ bucket[b] \in Seq(Nodes)
  <2>1. key[node[t]] \in Keys
    BY <1>1, <1>2 DEF ThreadOK, InserterOK
  <2>. QED
    BY <1>1, <2>1, BucketNrInRange DEF ArrayTypes
<1>9. /\ Distinct(bucket'[b], Nodes) /\ Range(bucket'[b]) = Range(bucket[b]) \cup {node[t]}
      /\ bucket'[b] \in Seq(Nodes)
      /\ \A c \in Buckets : c # b => bucket'[c] = bucket[c]
  <2>1. node[t] \notin Range(bucket[b]) /\ Distinct(bucket[b], Nodes)
    BY <1>1, <1>7, <1>8 DEF Cached, ChainsOK
  <2>2. /\ Distinct(<<node[t]>> \o bucket[b], Nodes)
        /\ Range(<<node[t]>> \o bucket[b]) = Range(bucket[b]) \cup {node[t]}
    BY <1>7, <2>1, ConsDistinct
  <2>3. bucket'[b] = <<node[t]>> \o bucket[b] /\ \A c \in Buckets : c # b => bucket'[c] = bucket[c]
    BY <1>1, <1>2, <1>8 DEF ArrayTypes
  <2>. QED
    BY <2>2, <2>3 DEF Distinct
<1>. HIDE DEF b
<1>10. Cached' = Cached \cup {node[t]}
  <2>1. \A c \in Buckets :
          Range(bucket'[c]) = IF c = b THEN Range(bucket[c]) \cup {node[t]} ELSE Range(bucket[c])
    BY <1>9
  <2>. QED
    BY <1>8, <2>1 DEF Cached
<1>11. PoolOK' /\ Pool' = Pool
  BY <1>1, <1>2, PoolFrame DEF links
<1>12. MarkListsOK' /\ Recent' = Recent /\ SliceSet' = SliceSet
  BY <1>1, <1>2, <1>4, RecentFrame, SliceFrame DEF MarkListsOK, SameTaken, recent
<1>13. MarksOK'
  BY <1>1, <1>2, <1>6, <1>10, <1>12 DEF MarksOK
<1>14. OwnersOK'
  <2>1. (Pool \cap Cached)' = {}
    BY <1>1, <1>7, <1>10, <1>11 DEF OwnersOK
  <2>2. ASSUME NEW n \in Nodes PROVE (n \in Pool \/ n \in Cached \/ \E u \in Threads : n \in Hand(u))'
    <3>1. CASE n = node[t]
      BY <1>10, <3>1
    <3>2. CASE n # node[t]
      BY <1>1, <1>5, <1>6, <1>10, <1>11, <3>2 DEF OwnersOK
    <3>. QED
      BY <3>1, <3>2
  <2>3. ASSUME NEW u \in Threads
        PROVE  /\ Hand(u)' \subseteq Nodes /\ (Hand(u) \cap (Pool \cup Cached))' = {}
               /\ Late(u)' \subseteq Cached'
    <3>1. CASE u = t
      BY <1>5, <1>10, <3>1
    <3>2. CASE u # t
      BY <1>1, <1>6, <1>7, <1>10, <1>11, <3>2 DEF OwnersOK
    <3>. QED
      BY <3>1, <3>2
  <2>4. ASSUME NEW u \in Threads, NEW v \in Threads, u # v
        PROVE  Owned(u)' \cap Owned(v)' = {}
    BY <1>1, <1>6, <2>4 DEF OwnersOK
  <2>. QED
    BY <2>1, <2>2, <2>3, <2>4 DEF OwnersOK
<1>15. ChainsOK'
  <2>1. \A c \in Buckets : Distinct(bucket'[c], Nodes)
    BY <1>1, <1>9 DEF ChainsOK
  <2>2. ASSUME NEW c \in Buckets, NEW n \in Range(bucket'[c])
        PROVE  keyToBucketNr(key[n]) = c
    <3>1. CASE n \in Range(bucket[c])
      BY <1>1, <3>1 DEF ChainsOK
    <3>2. CASE n \notin Range(bucket[c])
      BY <1>9, <2>2, <3>2 DEF b
    <3>. QED
      BY <3>1, <3>2
  <2>3. ASSUME NEW n \in Nodes
        PROVE  key[n] # NoKey <=> n \in Cached' \/ \E u \in Threads : n \in Keyed(u)'
    BY <1>1, <1>6, <1>10 DEF ChainsOK
  <2>4. key' = key
    BY <1>2 DEF items
  <2>. QED
    BY <2>1, <2>2, <2>3, <2>4 DEF ChainsOK, keyToBucketNr
<1>16. PlacesOK(L, K)'
  <2>1. ASSUME NEW n \in Nodes
        PROVE  n \in L <=> /\ n \in Cached' \/ \E u \in Threads : n \in Evicting(u)'
                           /\ n \notin K /\ \A u \in Threads : n \notin Unlinked(u)'
    <3>1. CASE n = node[t]
      <4>1. \A u \in Threads : n \notin Evicting(u)
        BY <1>5, <1>7, <3>1, ClaimFacts
      <4>2. n \notin L
        BY <1>1, <1>7, <3>1, <4>1 DEF PlacesOK
      <4>. QED
        BY <1>5, <3>1, <4>2
    <3>2. CASE n # node[t]
      <4>1. \A u \in Threads : n \in Unlinked(u)' <=> n \in Unlinked(u)
        BY <1>5, <1>6, <3>2
      <4>. QED
        BY <1>1, <1>6, <1>10, <3>2, <4>1 DEF PlacesOK
    <3>. QED
      BY <3>1, <3>2
  <2>2. /\ K \subseteq Cached' /\ \A u \in Threads : (Owned(u) \cap K)' = {}
        /\ (SliceSet \cap K \subseteq Clearing)'
    BY <1>1, <1>4, <1>6, <1>10, <1>12 DEF PlacesOK, SameTaken
  <2>. QED
    BY <2>1, <2>2 DEF PlacesOK
<1>17. ThreadOK(t, L, K)'
  <2>1. prev'[t] = node[t] /\ node'[t] = node[t]
    BY <1>1, <1>2 DEF LocalTypes
  <2>2. \A n \in Falsely(t)' : recent_next'[n] = DUMMY
    BY <1>1, <1>2, <1>6 DEF ThreadOK, InserterOK
  <2>. QED
    BY <1>2, <1>3, <2>1, <2>2 DEF ThreadOK, FinderOK, InserterOK, AdderOK, PurgerOK,
       PullerOK,
       FindLocked, Adding
<1>18. ASSUME NEW u \in Threads, u # t, pc[u] = "add_back", lru_lock = u, NEW v \in Threads
       PROVE  prev[u] \notin Owned(v)'
  BY <1>1, <1>6, <1>18 DEF ThreadOK, AdderOK
<1>19. ListsAre(list, back, taken)'
  BY <1>1, <1>2, <1>4, <1>5, <1>16, <1>17, <1>18, ListsStay DEF links, items, SameTaken
<1>20. bucket' \in [Buckets -> Seq(Nodes)]
  BY <1>1, <1>2, <1>9 DEF ArrayTypes
<1>21. ArrayTypes'
  BY <1>1, <1>2, <1>20 DEF ArrayTypes, items, links, recent, requests
<1>22. LocalTypes'
  BY <1>1, <1>2, <1>7 DEF LocalTypes
<1>. QED
  BY <1>11, <1>12, <1>13, <1>14, <1>15, <1>19, <1>21, <1>22 DEF Kept, NodesOK, ListsOK

(* A node of the LRU list that is not marked leaves its bucket.            *)
LEMMA RemoveNodeFromBucketKeeps ==
  ASSUME NEW t \in Threads, NEW list, NEW back, NEW taken, Given(t, list, back, taken),
         removeNodeFromBucket(t)
  PROVE  Kept
<1>. DEFINE L == Range(list)
            K == Range(taken)
            b == keyToBucketNr(key[node[t]])
<1>1. /\ Sound /\ Others(t) /\ NodesOK /\ ListsAre(list, back, taken) /\ PlacesOK(L, K)
      /\ pc \in [Threads -> PCs] /\ ArrayTypes /\ LocalTypes /\ OwnersOK /\ ChainsOK /\ MarksOK
      /\ MarkListsOK /\ PoolOK /\ \A u \in Threads : ThreadOK(u, L, K)
      /\ TakenIs(taken)
  BY DEF Given, ListsAre, Sound, ControlTypeOK, NodesOK
<1>2. PICK i \in DOMAIN bucket[b] :
        bucket[b][i] = node[t] /\ bucket' = [bucket EXCEPT ![b] = RemoveAt(bucket[b], i)]
  BY DEF removeNodeFromBucket
<1>3. /\ pc[t] = "purge_bucket" /\ pc'[t] = "purge_unlink" /\ lru_lock' = lru_lock
      /\ recent_next[node[t]] = NULL
      /\ UNCHANGED <<items, links, recent_next, empty_head, recent, requests, node, prev, next, freed>>
  BY <1>1 DEF removeNodeFromBucket, Goto, markedRecent, locals
<1>4. /\ SameTaken /\ lru_lock = t /\ LastTaken = TEMP
      /\ \A u \in Threads : u # t => lru_lock # u
  BY <1>1, <1>3, SameTakenByPurger DEF Purging
<1>5. K = {}
  BY <1>1, <1>4, TakenLinks
<1>6. /\ Hand(t) = {} /\ Hand(t)' = {node[t]} /\ Late(t) = {} /\ Late(t)' = {}
      /\ Filled(t) = {} /\ Filled(t)' = {} /\ Evicting(t)' = {node[t]} /\ Evicting(t) = {}
      /\ Unlinked(t)' = Unlinked(t)
      /\ Pending(t)' = Pending(t) /\ Marking(t)' = Marking(t)
      /\ Falsely(t) = {} /\ Falsely(t)' = {}
      /\ Owned(t)' = {node[t]} /\ Owned(t) = {}
  BY <1>3 DEF Hand, Filled, Late, Marking, Evicting, Unlinked, Pending, If, Filling, Adding,
       Falsely, Owned
<1>7. /\ \A u \in Threads : /\ Falsely(u)' = Falsely(u) /\ Marking(u)' = Marking(u)
                            /\ Unlinked(u)' = Unlinked(u)
      /\ \A u \in Threads : u # t => /\ Hand(u)' = Hand(u) /\ Late(u)' = Late(u)
                                     /\ Filled(u)' = Filled(u) /\ Evicting(u)' = Evicting(u)
                                     /\ Keyed(u)' = Keyed(u) /\ Owned(u)' = Owned(u)
      /\ Keyed(t) = {} /\ Keyed(t)' = {node[t]}
  BY <1>1, <1>6 DEF Others, SameClaims, Owned, Falsely, Keyed
<1>8. node[t] \in L /\ node[t] \in Nodes
  BY <1>1, <1>3, ClaimedNodes DEF ThreadOK, PurgerOK
<1>9. key[node[t]] \in Keys /\ b \in Buckets /\ bucket[b] \in Seq(Nodes) /\ Distinct(bucket[b], Nodes)
  <2>1. node[t] \in Cached \/ \E u \in Threads : node[t] \in Keyed(u)
    BY <1>1, <1>8 DEF PlacesOK, Keyed
  <2>2. key[node[t]] \in Keys
    BY <1>1, <1>8, <2>1 DEF ChainsOK, ArrayTypes
  <2>. QED
    BY <1>1, <2>2, BucketNrInRange DEF ArrayTypes, ChainsOK
<1>10. /\ i \in 1 .. Len(bucket[b]) /\ node[t] \in Range(bucket[b]) /\ node[t] \in Cached
       /\ node[t] \notin Pool
  <2>1. node[t] \in Cached
    BY <1>2, <1>9 DEF Cached, Range
  <2>2. node[t] \notin Pool
    BY <1>1, <2>1 DEF OwnersOK
  <2>3. i \in 1 .. Len(bucket[b]) /\ i \in DOMAIN bucket[b]
    BY <1>2, <1>9
  <2>4. node[t] \in Range(bucket[b])
    BY <1>2, <2>3, Zenon DEF Range
  <2>. QED
    BY <2>1, <2>2, <2>3, <2>4
<1>11. /\ node[t] \notin Recent /\ node[t] \notin SliceSet
       /\ \A u \in Threads : node[t] \notin Falsely(u) /\ node[t] \notin Marking(u)
  BY <1>1, <1>3, <1>8 DEF MarksOK
<1>12. \A u \in Threads : u # t => node[t] \notin Hand(u) /\ node[t] \notin Late(u)
  BY <1>1, <1>10, <1>11 DEF OwnersOK, Falsely
<1>13. /\ Distinct(bucket'[b], Nodes) /\ Range(bucket'[b]) = Range(bucket[b]) \ {node[t]}
       /\ bucket'[b] \in Seq(Nodes)
       /\ \A c \in Buckets : c # b => bucket'[c] = bucket[c]
  <2>1. /\ Distinct(RemoveAt(bucket[b], i), Nodes)
        /\ Range(RemoveAt(bucket[b], i)) = Range(bucket[b]) \ {bucket[b][i]}
    BY <1>9, <1>10, RemoveAtDistinct
  <2>2. bucket'[b] = RemoveAt(bucket[b], i) /\ \A c \in Buckets : c # b => bucket'[c] = bucket[c]
    BY <1>1, <1>2, <1>9 DEF ArrayTypes
  <2>. QED
    BY <1>2, <2>1, <2>2 DEF Distinct
<1>14. \A c \in Buckets : node[t] \in Range(bucket[c]) => c = b
  BY <1>1 DEF ChainsOK
<1>. HIDE DEF b
<1>15. \A c \in Buckets : Range(bucket'[c]) = Range(bucket[c]) \ {node[t]}
  BY <1>13, <1>14
<1>16. Cached' = Cached \ {node[t]}
  BY <1>15 DEF Cached
<1>17. PoolOK' /\ Pool' = Pool
  BY <1>1, <1>3, PoolFrame DEF links
<1>18. MarkListsOK' /\ Recent' = Recent /\ SliceSet' = SliceSet
  BY <1>1, <1>3, <1>4, RecentFrame, SliceFrame DEF MarkListsOK, SameTaken, recent
<1>19. MarksOK'
  BY <1>1, <1>3, <1>7, <1>11, <1>16, <1>18 DEF MarksOK
<1>20. OwnersOK'
  <2>1. (Pool \cap Cached)' = {}
    BY <1>1, <1>16, <1>17 DEF OwnersOK
  <2>2. ASSUME NEW n \in Nodes PROVE (n \in Pool \/ n \in Cached \/ \E u \in Threads : n \in Hand(u))'
    <3>1. CASE n = node[t]
      BY <1>6, <3>1
    <3>2. CASE n # node[t]
      BY <1>1, <1>6, <1>7, <1>16, <1>17, <3>2 DEF OwnersOK
    <3>. QED
      BY <3>1, <3>2
  <2>3. ASSUME NEW u \in Threads
        PROVE  /\ Hand(u)' \subseteq Nodes /\ (Hand(u) \cap (Pool \cup Cached))' = {}
               /\ Late(u)' \subseteq Cached'
    <3>1. CASE u = t
      BY <1>6, <1>8, <1>10, <1>16, <1>17, <3>1
    <3>2. CASE u # t
      BY <1>1, <1>7, <1>12, <1>16, <1>17, <3>2 DEF OwnersOK
    <3>. QED
      BY <3>1, <3>2
  <2>4. ASSUME NEW u \in Threads, NEW v \in Threads, u # v
        PROVE  Owned(u)' \cap Owned(v)' = {}
    BY <1>1, <1>6, <1>7, <1>12, <2>4 DEF OwnersOK, Owned
  <2>. QED
    BY <2>1, <2>2, <2>3, <2>4 DEF OwnersOK
<1>21. ChainsOK'
  <2>1. \A c \in Buckets : Distinct(bucket'[c], Nodes)
    BY <1>1, <1>13 DEF ChainsOK
  <2>2. \A c \in Buckets : \A n \in Range(bucket'[c]) : keyToBucketNr(key[n]) = c
    BY <1>1, <1>15 DEF ChainsOK
  <2>3. ASSUME NEW n \in Nodes
        PROVE  key[n] # NoKey <=> n \in Cached' \/ \E u \in Threads : n \in Keyed(u)'
    <3>1. \A u \in Threads : n \in Keyed(u)' <=> n \in Keyed(u) \/ (u = t /\ n = node[t])
      BY <1>7
    <3>. QED
      BY <1>1, <1>10, <1>16, <3>1 DEF ChainsOK
  <2>4. key' = key
    BY <1>3 DEF items
  <2>. QED
    BY <2>1, <2>2, <2>3, <2>4 DEF ChainsOK, keyToBucketNr
<1>22. PlacesOK(L, K)'
  <2>1. ASSUME NEW n \in Nodes
        PROVE  n \in L <=> /\ n \in Cached' \/ \E u \in Threads : n \in Evicting(u)'
                           /\ n \notin K /\ \A u \in Threads : n \notin Unlinked(u)'
    <3>1. \A u \in Threads : n \in Evicting(u)' <=> n \in Evicting(u) \/ (u = t /\ n = node[t])
      BY <1>6, <1>7
    <3>. QED
      BY <1>1, <1>7, <1>10, <1>16, <3>1 DEF PlacesOK
  <2>. QED
    BY <1>5, <2>1 DEF PlacesOK
<1>23. ThreadOK(t, L, K)'
  <2>1. PurgerOK(t, L)
    BY <1>1 DEF ThreadOK
  <2>2. PurgerOK(t, L)'
    BY <1>3, <1>9, <2>1 DEF PurgerOK, items, links
  <2>. QED
    BY <1>3, <1>6, <2>2 DEF ThreadOK, FinderOK, InserterOK, AdderOK, PullerOK,
       FindLocked, Adding
<1>24. ListsAre(list, back, taken)'
  BY <1>1, <1>3, <1>4, <1>6, <1>22, <1>23, ListsStay DEF links, items, SameTaken
<1>25. bucket' \in [Buckets -> Seq(Nodes)]
  BY <1>1, <1>2, <1>13 DEF ArrayTypes
<1>26. ArrayTypes'
  BY <1>1, <1>3, <1>25 DEF ArrayTypes, items, links, recent, requests
<1>27. LocalTypes'
  BY <1>1, <1>3 DEF LocalTypes
<1>. QED
  BY <1>17, <1>18, <1>19, <1>20, <1>21, <1>24, <1>26, <1>27 DEF Kept, NodesOK, ListsOK
=============================================================================
