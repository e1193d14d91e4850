--------------------- MODULE DeferredLRURefinementProofs ----------------------
(***************************************************************************)
(* DeferredLRU implements EvictingCache for all values of its constants,   *)
(* in every behaviour in which the pool is not deceived: every step of a   *)
(* thread is an action of EvictingCache or changes nothing that it shows.  *)
(***************************************************************************)
EXTENDS DeferredLRUSafetyProofs, DeferredLRURefinement

-----------------------------------------------------------------------------
(* What lies behind a node in a list that is whole.                        *)
LEMMA BehindIs ==
  ASSUME NEW list, NEW succ, NEW back, Distinct(list, Nodes),
         IsWhole(HEAD, list, TAIL, succ, back), NEW i \in 1 .. Len(list)
  PROVE  Reached(succ[list[i]], succ) = {list[j] : j \in i + 1 .. Len(list)}
<1>. DEFINE rest == SubSeq(list, i + 1, Len(list))
            n == Len(list) - i
<1>1. /\ list \in Seq(Nodes) /\ Len(list) \in Nat /\ n \in Nat
      /\ \A j, k \in 1 .. Len(list) : list[j] = list[k] => j = k
  BY DEF Distinct, IsInjective
<1>2. rest \in Seq(Nodes) /\ Len(rest) = n /\ \A j \in 1 .. n : rest[j] = list[i + j]
  <2>1. \A j \in i + 1 .. Len(list) : list[j] \in Nodes
    BY <1>1
  <2>2. /\ rest \in Seq(Nodes)
        /\ Len(rest) = IF i + 1 <= Len(list) THEN Len(list) - (i + 1) + 1 ELSE 0
        /\ \A j \in 1 .. Len(list) - (i + 1) + 1 : rest[j] = list[i + 1 + j - 1]
    BY <1>1, <2>1, SubSeqProperties
  <2>. QED
    BY <1>1, <2>2
<1>. HIDE DEF rest
<1>3. Distinct(rest, Nodes)
  <2>1. ASSUME NEW j \in 1 .. n, NEW k \in 1 .. n, rest[j] = rest[k] PROVE j = k
    <3>1. i + j \in 1 .. Len(list) /\ i + k \in 1 .. Len(list) /\ list[i + j] = list[i + k]
      BY <1>1, <1>2, <2>1
    <3>. QED
      BY <1>1, <3>1
  <2>2. DOMAIN rest = 1 .. n
    BY <1>2
  <2>. QED
    BY <1>2, <2>1, <2>2 DEF Distinct, IsInjective
<1>4. \A k \in 1 .. Len(list) : succ[list[k]] = IF k = Len(list) THEN TAIL ELSE list[k + 1]
  BY <1>1 DEF IsWhole, Spot
<1>5. Leads(rest, succ[list[i]], succ, TAIL)
  <2>1. CASE n = 0
    <3>1. rest = <<>> /\ i = Len(list)
      BY <1>1, <1>2, <2>1
    <3>. QED
      BY <1>4, <3>1 DEF Leads
  <2>2. CASE n # 0
    <3>1. rest # <<>> /\ i # Len(list) /\ i + 1 \in 1 .. Len(list) /\ i + n = Len(list)
      BY <1>1, <1>2, <2>2
    <3>2. succ[list[i]] = rest[1] /\ succ[rest[n]] = TAIL
      BY <1>1, <1>2, <1>4, <2>2, <3>1
    <3>3. ASSUME NEW j \in 1 .. n - 1 PROVE succ[rest[j]] = rest[j + 1]
      <4>1. j \in 1 .. n /\ j + 1 \in 1 .. n /\ i + j \in 1 .. Len(list) /\ i + j # Len(list)
        BY <1>1
      <4>2. rest[j] = list[i + j] /\ rest[j + 1] = list[i + j + 1]
        BY <1>1, <1>2, <4>1
      <4>. QED
        BY <1>4, <4>1, <4>2
    <3>. QED
      BY <1>2, <3>1, <3>2, <3>3 DEF Leads
  <2>. QED
    BY <2>1, <2>2
<1>6. Reached(succ[list[i]], succ) = Range(rest)
  BY <1>3, <1>5, NodesFinite, PointersDiffer, EndsIs DEF Reached, Walk
<1>7. Range(rest) = {rest[j] : j \in 1 .. n}
  <2>1. DOMAIN rest = 1 .. n
    BY <1>2
  <2>. QED
    BY <2>1, Zenon DEF Range
<1>8. ASSUME NEW j \in i + 1 .. Len(list) PROVE \E k \in 1 .. n : list[j] = rest[k]
  <2>1. j - i \in 1 .. n /\ i + (j - i) = j
    BY <1>1
  <2>. QED
    BY <1>2, <2>1
<1>9. ASSUME NEW k \in 1 .. n PROVE \E j \in i + 1 .. Len(list) : list[j] = rest[k]
  <2>1. i + k \in i + 1 .. Len(list)
    BY <1>1
  <2>. QED
    BY <1>2, <2>1
<1>10. Range(rest) \subseteq {list[j] : j \in i + 1 .. Len(list)}
  BY <1>7, <1>9, Zenon
<1>11. {list[j] : j \in i + 1 .. Len(list)} \subseteq Range(rest)
  BY <1>7, <1>8, Zenon
<1>. QED
  BY <1>6, <1>10, <1>11

(* The list without one of its nodes.                                      *)
LEMMA WithoutIs ==
  ASSUME NEW list, Distinct(list, Nodes), NEW i \in 1 .. Len(list)
  PROVE  Without(list, list[i]) = RemoveAt(list, i)
<1>1. DOMAIN list = 1 .. Len(list) /\ \A j \in DOMAIN list : list[j] = list[i] => j = i
  BY DEF Distinct, IsInjective
<1>2. (CHOOSE j \in DOMAIN list : list[j] = list[i]) = i
  BY <1>1
<1>. QED
  BY <1>2 DEF Without

(* What is shown after a step in which a node is on its way out.           *)
LEMMA WithoutNext ==
  ASSUME allocated', Unlinking'
  PROVE  orderNow' = Without(LruOrder', node'[lru_lock'])
<1>1. orderNow' = RemoveAt(LruOrder',
                           CHOOSE i \in DOMAIN LruOrder' : LruOrder'[i] = node'[lru_lock'])
  BY DEF orderNow, Without
<1>. QED
  BY <1>1 DEF Without

(* A node is taken out of the rear of a list as if nothing were before it. *)
LEMMA JoinWithout ==
  ASSUME NEW front \in Seq(Nodes), NEW list \in Seq(Nodes), NEW i \in 1 .. Len(list)
  PROVE  RemoveAt(front \o list, Len(front) + i) = front \o RemoveAt(list, i)
<1>. DEFINE m == Len(front)
            n == Len(list)
            long == front \o list
            short == RemoveAt(list, i)
<1>1. m \in Nat /\ n \in Nat /\ n >= 1
  OBVIOUS
<1>2. /\ long \in Seq(Nodes) /\ Len(long) = m + n
      /\ \A k \in 1 .. m + n : long[k] = IF k <= m THEN front[k] ELSE list[k - m]
  BY ConcatProperties
<1>3. /\ short \in Seq(Nodes) /\ Len(short) = n - 1
      /\ \A j \in 1 .. n - 1 : short[j] = IF j < i THEN list[j] ELSE list[j + 1]
  BY RemoveAtIs
<1>. HIDE DEF long, short
<1>4. /\ front \o short \in Seq(Nodes) /\ Len(front \o short) = m + n - 1
      /\ \A k \in 1 .. m + n - 1 : (front \o short)[k] = IF k <= m THEN front[k] ELSE short[k - m]
  <2>1. /\ front \o short \in Seq(Nodes) /\ Len(front \o short) = m + Len(short)
        /\ \A k \in 1 .. m + Len(short) :
             (front \o short)[k] = IF k <= m THEN front[k] ELSE short[k - m]
    BY <1>3, ConcatProperties
  <2>2. m + Len(short) = m + n - 1
    BY <1>1, <1>3
  <2>. QED
    BY <2>1, <2>2
<1>5. m + i \in 1 .. Len(long)
  BY <1>1, <1>2
<1>6. /\ RemoveAt(long, m + i) \in Seq(Nodes) /\ Len(RemoveAt(long, m + i)) = m + n - 1
      /\ \A k \in 1 .. m + n - 1 :
           RemoveAt(long, m + i)[k] = IF k < m + i THEN long[k] ELSE long[k + 1]
  <2>1. /\ RemoveAt(long, m + i) \in Seq(Nodes) /\ Len(RemoveAt(long, m + i)) = Len(long) - 1
        /\ \A k \in 1 .. Len(long) - 1 :
             RemoveAt(long, m + i)[k] = IF k < m + i THEN long[k] ELSE long[k + 1]
    BY <1>2, <1>5, RemoveAtIs
  <2>2. Len(long) - 1 = m + n - 1
    BY <1>1, <1>2
  <2>. QED
    BY <2>1, <2>2
<1>7. ASSUME NEW k \in 1 .. m + n - 1
      PROVE  RemoveAt(long, m + i)[k] = (front \o short)[k]
  <2>1. k \in 1 .. m + n /\ k + 1 \in 1 .. m + n
    BY <1>1
  <2>2. CASE k <= m
    <3>1. k < m + i
      BY <2>2
    <3>. QED
      BY <1>2, <1>4, <1>6, <2>1, <2>2, <3>1
  <2>3. CASE ~(k <= m)
    <3>1. k - m \in 1 .. n - 1 /\ k + 1 - m = (k - m) + 1 /\ ~(k + 1 <= m)
          /\ (k < m + i <=> k - m < i)
      BY <1>1, <2>3
    <3>2. long[k] = list[k - m] /\ long[k + 1] = list[(k - m) + 1]
      <4>1. \A a \in 1 .. m + n : ~(a <= m) => long[a] = list[a - m]
        BY <1>2
      <4>2. long[k] = list[k - m] /\ long[k + 1] = list[k + 1 - m]
        BY <2>1, <2>3, <3>1, <4>1
      <4>. QED
        BY <3>1, <4>2
    <3>3. (front \o short)[k] = short[k - m]
      BY <1>4, <2>3
    <3>4. short[k - m] = IF k - m < i THEN list[k - m] ELSE list[(k - m) + 1]
      BY <1>3, <3>1
    <3>. QED
      BY <1>6, <3>1, <3>2, <3>3, <3>4
  <2>. QED
    BY <2>2, <2>3
<1>8. RemoveAt(long, m + i) = front \o short
  BY <1>1, <1>4, <1>6, <1>7, SeqEqual
<1>. QED
  BY <1>8 DEF long, short

-----------------------------------------------------------------------------
(* A call keeps its key no longer than it needs it, and a cache without    *)
(* memory has no node in a bucket.                                         *)
KeyGone(t) ==
  ret[t] = "idle" /\ pc[t] \notin FindLocked \cup {"find_lock", "fill"} => arg[t] = NoKey

Ended ==
  /\ \A t \in Threads : KeyGone(t)
  /\ ~allocated => bucket = [b \in Buckets |-> <<>>]

(* No call is in progress at first.                                        *)
LEMMA InitEnded == Init => Ended
BY DEF Init, Ended, KeyGone

(* A step that ends the use of a key forgets it (find, insert).            *)
LEMMA StepEnded ==
  ASSUME NEW t \in Threads, Sound, Step(t), KeyGone(t)
  PROVE  KeyGone(t)'
<1>1. /\ pc \in [Threads -> PCs] /\ ret \in [Threads -> {"idle", "ins_begin", "alloc_load"}]
      /\ arg \in [Threads -> Keys \cup {NoKey}]
  BY DEF Sound, ControlTypeOK
<1>. USE <1>1 DEF KeyGone, Goto, Return, unlockBucket, FindLocked, call
<1>2. CASE Find(t)
  BY <1>2 DEF Find, FindMiss, FindHit, FindCopyMarked, FindCopyUnmarked, MarkCas,
     MarkCasFails, MarkCount, BelowThreshold, RecentThresholdHit, requestPull
<1>3. CASE Allocate(t)
  BY <1>3 DEF Allocate, InsertBegins, AllocLoad, requestPurge, AllocNext, AllocCas,
     AllocCasFails, Sound, CallOK, ReturnsOK, Allocating
<1>4. CASE Fill(t) \/ AddSublist(t)
  BY <1>4 DEF Fill, FillNode, addNodeToBucket, InsertReturns, AddSublist, AddFirst, AddCas,
       AddCasFails, AddBack
<1>5. CASE Purge(t)
  BY <1>5 DEF Purge, PurgeBegins, NoPurge, PurgeSkip, PurgeChoose, removeNodeFromBucket,
       KeepInBucket, PurgeUnlink, DisposeCas, DisposeCasFails, PurgeEnds, PurgeLowersFlag
<1>6. CASE Pull(t)
  BY <1>6 DEF Pull, PullBegins, NoPull, PullReset, PullSkip, PullSkipClear, PullUnlink,
       PullClear, PullFoundNone, PullAdds, PullLowersFlag
<1>7. CASE TryLock(t) \/ TryLockFails(t) \/ UnlockLru(t)
  BY <1>7 DEF TryLock, TryLockFails, UnlockLru
<1>. QED
  BY <1>2, <1>3, <1>4, <1>5, <1>6, <1>7 DEF Step

(* Both are inductive.                                                     *)
LEMMA NextEnded ==
  ASSUME IInv, Ended, [Next]_vars
  PROVE  Ended'
<1>1. Sound /\ pc \in [Threads -> PCs] /\ arg \in [Threads -> Keys \cup {NoKey}]
      /\ ret \in [Threads -> {"idle", "ins_begin", "alloc_load"}]
  BY DEF IInv, Sound, ControlTypeOK
<1>2. ASSUME NEW t \in Threads, Step(t) PROVE Ended'
  <2>1. allocated'
    BY <1>1, <1>2, StepAllocated
  <2>2. ASSUME NEW u \in Threads PROVE KeyGone(u)'
    <3>1. CASE u = t
      BY <1>1, <1>2, <3>1, StepEnded DEF Ended
    <3>2. CASE u # t
      <4>1. Still(u)
        BY <1>1, <1>2, <3>2, OthersStay DEF Others
      <4>. QED
        BY <4>1 DEF Still, Ended, KeyGone
    <3>. QED
      BY <3>1, <3>2
  <2>. QED
    BY <2>1, <2>2 DEF Ended
<1>3. ASSUME NEW t \in Threads, StartAny(t) PROVE Ended'
  <2>1. PICK op \in Calls, k \in Keys : Start(t, op, k)
    BY <1>3 DEF StartAny
  <2>. QED
    BY <1>1, <2>1 DEF Start, Goto, Ended, KeyGone, Calls
<1>4. CASE releaseMemory
  BY <1>4 DEF releaseMemory, Ended, KeyGone, call, Fresh
<1>5. CASE allocateMemory
  BY <1>5 DEF allocateMemory, Ended, KeyGone, call
<1>6. CASE UNCHANGED vars
  BY <1>6 DEF vars, call, table, Ended, KeyGone
<1>. QED
  BY <1>2, <1>3, <1>4, <1>5, <1>6 DEF Next

-----------------------------------------------------------------------------
(* Only insert and purgeOld write a node's value.                          *)
LEMMA ValueWriters ==
  ASSUME NEW t \in Threads, Step(t), value' # value
  PROVE  FillNode(t) \/ PurgeUnlink(t)
BY DEF Step, Find, Allocate, Fill, AddSublist, Purge, Pull, FindMiss, FindHit,
   FindCopyMarked, FindCopyUnmarked, MarkCas, MarkCasFails,
   MarkCount, BelowThreshold, RecentThresholdHit, requestPull,
   InsertBegins, AllocLoad, requestPurge, AllocNext, AllocCas, AllocCasFails,
   addNodeToBucket, InsertReturns, AddFirst, AddCas, AddCasFails, AddBack,
   PurgeBegins, NoPurge, PurgeSkip,
   PurgeChoose, removeNodeFromBucket, KeepInBucket, DisposeCas, DisposeCasFails, PurgeEnds,
   PurgeLowersFlag, PullBegins, NoPull, PullReset, PullSkip, PullSkipClear, PullUnlink,
   PullClear, PullFoundNone, PullAdds, PullLowersFlag, TryLock, TryLockFails, UnlockLru, items

(* They write the value of no cached node, nor of one in another's hands.  *)
LEMMA ValuesStay ==
  ASSUME NEW t \in Threads, Sound, NodesOK, Step(t)
  PROVE  /\ \A n \in Cached : value'[n] = value[n]
         /\ \A u \in Threads : u # t => \A n \in Hand(u) : value'[n] = value[n]
<1>1. OwnersOK /\ value \in [Nodes -> Keys \cup {NoKey}]
  BY DEF Sound, ArrayTypes, NodesOK
<1>2. CASE value' = value
  BY <1>2
<1>3. CASE value' # value
  <2>1. FillNode(t) \/ PurgeUnlink(t)
    BY <1>3, ValueWriters
  <2>2. /\ pc[t] \in {"fill", "purge_unlink"}
        /\ \E v : value' = [value EXCEPT ![node[t]] = v]
    BY <2>1 DEF FillNode, PurgeUnlink, Goto
  <2>3. node[t] \in Hand(t) /\ node[t] \in Owned(t)
    BY <2>2 DEF Hand, Owned, If, Filling
  <2>4. \A n : n # node[t] /\ n \in Nodes => value'[n] = value[n]
    BY <1>1, <2>2
  <2>5. Cached \subseteq Nodes /\ \A u \in Threads : Hand(u) \subseteq Nodes
    BY <1>1 DEF OwnersOK, Cached, Sound, ArrayTypes, Range
  <2>6. node[t] \notin Cached
    BY <1>1, <2>3 DEF OwnersOK
  <2>7. \A u \in Threads : u # t => node[t] \notin Hand(u)
    BY <1>1, <2>3 DEF OwnersOK, Owned
  <2>. QED
    BY <2>4, <2>5, <2>6, <2>7
<1>. QED
  BY <1>2, <1>3

(* A step is a step of its thread's call only.                             *)
LEMMA OthersCalls ==
  ASSUME NEW t \in Threads, Sound, NodesOK, Step(t), NEW u \in Threads, u # t
  PROVE  /\ wantedOf(u)' = wantedOf(u) /\ foundOf(u)' = foundOf(u)
         /\ insertingOf(u)' = insertingOf(u)
<1>1. Still(u)
  BY OthersStay DEF Others
<1>2. pc[u] = "add_to_bucket" => value'[node[u]] = value[node[u]]
  BY ValuesStay DEF Hand, If, Filling
<1>. QED
  BY <1>1, <1>2 DEF Still, wantedOf, foundOf, insertingOf

(* So what the calls show changes at its thread only.                      *)
LEMMA CallsAre ==
  ASSUME NEW t \in Threads, Sound, NodesOK, Step(t)
  PROVE  /\ wantedNow' = [wantedNow EXCEPT ![t] = wantedOf(t)']
         /\ foundNow' = [foundNow EXCEPT ![t] = foundOf(t)']
         /\ insertingNow' = [insertingNow EXCEPT ![t] = insertingOf(t)']
<1>1. /\ wantedNow' = [u \in Threads |-> wantedOf(u)']
      /\ foundNow' = [u \in Threads |-> foundOf(u)']
      /\ insertingNow' = [u \in Threads |-> insertingOf(u)']
  BY DEF wantedNow, foundNow, insertingNow
<1>2. \A u \in Threads : u # t => /\ wantedOf(u)' = wantedOf(u) /\ foundOf(u)' = foundOf(u)
                                  /\ insertingOf(u)' = insertingOf(u)
  BY OthersCalls
<1>. QED
  BY <1>1, <1>2 DEF wantedNow, foundNow, insertingNow

\* The steps that the caller can tell from doing nothing.
Telling(t) ==
  FindMiss(t) \/ FindHit(t) \/ FindCopyMarked(t) \/ FindCopyUnmarked(t) \/ addNodeToBucket(t)

SameCall(t) ==
  /\ wantedOf(t)' = wantedOf(t) /\ foundOf(t)' = foundOf(t)
  /\ insertingOf(t)' = insertingOf(t)

SameCalls == UNCHANGED <<wantedNow, foundNow, insertingNow>>

(* Its other steps leave what its own call shows ...                       *)
LEMMA CallStays ==
  ASSUME NEW t \in Threads, Sound, NodesOK, Step(t), ~Telling(t), KeyGone(t)
  PROVE  SameCall(t)
<1>1. /\ pc \in [Threads -> PCs] /\ ret \in [Threads -> {"idle", "ins_begin", "alloc_load"}]
      /\ arg \in [Threads -> Keys \cup {NoKey}]
      /\ node \in [Threads -> Nodes \cup {HEAD, DUMMY, NULL}]
      /\ value \in [Nodes -> Keys \cup {NoKey}]
  BY DEF Sound, ControlTypeOK, LocalTypes, ArrayTypes
<1>. USE <1>1 DEF Telling, SameCall, KeyGone, Goto, Return, unlockBucket, FindLocked, call,
         wantedOf, foundOf, insertingOf
<1>2. CASE Find(t)
  BY <1>2 DEF Find, MarkCas, MarkCasFails, MarkCount, BelowThreshold, RecentThresholdHit,
     requestPull
<1>3. CASE Allocate(t)
  BY <1>3 DEF Allocate, InsertBegins, AllocLoad, requestPurge, AllocNext, AllocCas,
     AllocCasFails
<1>4. CASE FillNode(t)
  <2>1. node[t] \in Nodes
    BY <1>4, FilledWasEmpty DEF FillNode
  <2>. QED
    BY <1>4, <2>1 DEF FillNode, locals
<1>5. CASE InsertReturns(t) \/ AddSublist(t)
  BY <1>5 DEF InsertReturns, AddSublist, AddFirst, AddCas, AddCasFails, AddBack
<1>6. CASE Purge(t)
  BY <1>6 DEF Purge, PurgeBegins, NoPurge, PurgeSkip, PurgeChoose, removeNodeFromBucket,
       KeepInBucket, PurgeUnlink, DisposeCas, DisposeCasFails, PurgeEnds, PurgeLowersFlag
<1>7. CASE Pull(t)
  BY <1>7 DEF Pull, PullBegins, NoPull, PullReset, PullSkip, PullSkipClear, PullUnlink,
       PullClear, PullFoundNone, PullAdds, PullLowersFlag
<1>8. CASE TryLock(t) \/ TryLockFails(t) \/ UnlockLru(t)
  BY <1>8 DEF TryLock, TryLockFails, UnlockLru
<1>. QED
  BY <1>2, <1>3, <1>4, <1>5, <1>6, <1>7, <1>8 DEF Step, Fill

(* ... and so what all calls show.                                         *)
LEMMA CallsStay ==
  ASSUME NEW t \in Threads, Sound, NodesOK, Step(t), ~Telling(t), KeyGone(t)
  PROVE  SameCalls
<1>1. /\ wantedNow' = [wantedNow EXCEPT ![t] = wantedOf(t)]
      /\ foundNow' = [foundNow EXCEPT ![t] = foundOf(t)]
      /\ insertingNow' = [insertingNow EXCEPT ![t] = insertingOf(t)]
  BY CallsAre, CallStays DEF SameCall
<1>. QED
  BY <1>1 DEF SameCalls, wantedNow, foundNow, insertingNow

-----------------------------------------------------------------------------
(* The items: which nodes are in a bucket and which of them are marked.    *)
SameItems == UNCHANGED <<storedNow, recentNow>>

(* While no bucket changes, the items change by their marks only.          *)
LEMMA ItemsStay ==
  ASSUME NEW t \in Threads, Sound, NodesOK, Step(t), bucket' = bucket
  PROVE  /\ Cached' = Cached /\ storedNow' = storedNow
         /\ (\A n \in Cached : recent_next'[n] # NULL <=> recent_next[n] # NULL) => SameItems
<1>1. Cached' = Cached
  BY DEF Cached
<1>2. \A n \in Cached : value'[n] = value[n]
  BY ValuesStay
<1>3. storedNow' = storedNow
  BY <1>1, <1>2 DEF storedNow
<1>. QED
  BY <1>1, <1>3 DEF SameItems, recentNow, markedRecent

\* The steps that change neither the items nor what a call shows.
Silent(t) ==
  /\ Step(t) /\ ~Telling(t) /\ ~InsertReturns(t) /\ ~removeNodeFromBucket(t)
  /\ ~PullSkipClear(t) /\ ~PullClear(t)

(* They leave every node in its bucket, and with its mark.                 *)
LEMMA SilentItems ==
  ASSUME NEW t \in Threads, Sound, NodesOK, FinderOK(t), Silent(t)
  PROVE  SameItems /\ Cached' = Cached
<1>1. /\ OwnersOK /\ ArrayTypes /\ Sound
  BY DEF Sound, NodesOK
<1>2. /\ bucket' = bucket
      /\ \/ recent_next' = recent_next \/ MarkCasFails(t) \/ FillNode(t)
  BY DEF Silent, Telling, Step, Find, Allocate, Fill, AddSublist, Purge, Pull, 
   MarkCas, MarkCasFails,
   MarkCount, BelowThreshold, RecentThresholdHit, requestPull,
   InsertBegins, AllocLoad, requestPurge, AllocNext, AllocCas, AllocCasFails,
   AddFirst, AddCas, AddCasFails, AddBack, FillNode,
   PurgeBegins, NoPurge, PurgeSkip,
   PurgeChoose, KeepInBucket, PurgeUnlink, DisposeCas, DisposeCasFails, PurgeEnds,
   PurgeLowersFlag, PullBegins, NoPull, PullReset, PullSkip, PullUnlink,
   PullFoundNone, PullAdds, PullLowersFlag, TryLock, TryLockFails, UnlockLru, table
<1>3. ASSUME NEW n \in Cached PROVE recent_next'[n] # NULL <=> recent_next[n] # NULL
  <2>1. n \in Nodes
    BY <1>1 DEF Cached, ArrayTypes, Range
  <2>2. CASE recent_next' = recent_next
    BY <2>2
  <2>3. CASE MarkCasFails(t)
    <3>1. recent_next' = [recent_next EXCEPT ![node[t]] = recent_head] /\ pc[t] = "mark_cas"
      BY <2>3 DEF MarkCasFails, LinkToRecentHead, Goto
    <3>2. recent_next[node[t]] \in Nodes \cup {DUMMY}
      BY <3>1 DEF FinderOK
    <3>. QED
      BY <1>1, <2>1, <3>1, <3>2, PointersDiffer DEF ArrayTypes
  <2>4. CASE FillNode(t)
    <3>1. recent_next' = [recent_next EXCEPT ![node[t]] = DUMMY] /\ pc[t] = "fill"
      BY <2>4 DEF FillNode, Goto
    <3>2. node[t] \in Hand(t)
      BY <3>1 DEF Hand, If, Filling
    <3>3. node[t] # n
      BY <1>1, <3>2 DEF OwnersOK
    <3>. QED
      BY <1>1, <2>1, <3>1, <3>3 DEF ArrayTypes
  <2>. QED
    BY <1>2, <2>2, <2>3, <2>4
<1>. QED
  BY <1>2, <1>3, ItemsStay DEF Silent

(* A mark that goes or comes.                                              *)
LEMMA MarkGoes ==
  ASSUME NEW t \in Threads, Sound, NodesOK, Step(t), bucket' = bucket, node[t] \in Cached,
         recent_next[node[t]] # NULL, recent_next' = [recent_next EXCEPT ![node[t]] = NULL]
  PROVE  /\ storedNow' = storedNow /\ node[t] \in recentNow
         /\ recentNow' = recentNow \ {node[t]}
<1>1. recent_next \in [Nodes -> Nodes \cup {DUMMY, NULL}] /\ Cached \subseteq Nodes
  BY DEF Sound, ArrayTypes, Cached, Range
<1>2. Cached' = Cached /\ storedNow' = storedNow
  BY ItemsStay
<1>3. ASSUME NEW n \in Cached
      PROVE  recent_next'[n] # NULL <=> (recent_next[n] # NULL /\ n # node[t])
  BY <1>1, <1>3
<1>. QED
  BY <1>2, <1>3 DEF recentNow, markedRecent

(* A lookup marks the node it has found (markNodeRecent).                  *)
LEMMA MarkComes ==
  ASSUME NEW t \in Threads, Sound, NodesOK, Step(t), bucket' = bucket, node[t] \in Cached,
         NEW p \in Nodes \cup {DUMMY}, recent_next' = [recent_next EXCEPT ![node[t]] = p]
  PROVE  storedNow' = storedNow /\ recentNow' = recentNow \cup {node[t]}
<1>1. recent_next \in [Nodes -> Nodes \cup {DUMMY, NULL}] /\ Cached \subseteq Nodes /\ p # NULL
  BY PointersDiffer DEF Sound, ArrayTypes, Cached, Range
<1>2. Cached' = Cached /\ storedNow' = storedNow
  BY ItemsStay
<1>3. ASSUME NEW n \in Cached
      PROVE  recent_next'[n] # NULL <=> (recent_next[n] # NULL \/ n = node[t])
  BY <1>1, <1>3
<1>. QED
  BY <1>2, <1>3 DEF recentNow, markedRecent

-----------------------------------------------------------------------------
(* What the invariant says of the LRU list, seen from its walk.            *)
Behind(list, i) == {list[j] : j \in i + 1 .. Len(list)}

OrderOK ==
  /\ Distinct(LruOrder, Nodes)
  /\ \A i \in 1 .. Len(LruOrder) :
       /\ Reached(lru_next[LruOrder[i]], lru_next) = Behind(LruOrder, i)
       /\ \/ lru_prev[LruOrder[i]] = HEAD
          \/ i # 1 /\ lru_prev[LruOrder[i]] = LruOrder[i - 1]
  /\ lru_prev[TAIL] = HEAD \/ (LruOrder # <<>> /\ lru_prev[TAIL] = LruOrder[Len(LruOrder)])
  /\ \A n \in Range(LruOrder) : n \in Cached \/ (Unlinking /\ n = node[lru_lock])
  /\ Unlinking => node[lru_lock] \in Range(LruOrder) /\ node[lru_lock] \notin Cached
  /\ Scanning => scannedTo \in Range(LruOrder) \cup {HEAD}
  /\ \A t \in Threads : pc[t] \in {"purge_bucket", "purge_unlink"} =>
       prev[t] \in Range(LruOrder) /\ prev[t] = lru_prev[node[t]]

(* It follows from the inductive invariant ...                             *)
LEMMA InvOrder == IInv /\ allocated => OrderOK
<1>. SUFFICES ASSUME IInv, allocated PROVE OrderOK
  OBVIOUS
<1>1. PICK list, back, taken : ListsAre(list, back, taken)
  BY DEF IInv, ListsOK
<1>. DEFINE L == Range(list)
<1>2. /\ Sound /\ OwnersOK /\ LruIs(list, back) /\ PlacesOK(L, Range(taken))
      /\ \A t \in Threads : PurgerOK(t, L)
  BY <1>1 DEF IInv, NodesOK, ListsAre, ThreadOK
<1>3. /\ Distinct(list, Nodes) /\ IsWhole(HEAD, list, TAIL, lru_next, back)
      /\ \A m \in L \cup {TAIL} : lru_prev[m] = HEAD \/ lru_prev[m] = back[m]
  BY <1>2, LruLinks DEF LruIs
<1>4. LruOrder = list
  BY <1>3, WalkFinds DEF LruOrder
<1>5. list \in Seq(Nodes) /\ Len(list) \in Nat /\ \A i \in 1 .. Len(list) : list[i] \in L
  BY <1>3, DistinctIn
<1>6. \A i \in 0 .. Len(list) : back[Spot(HEAD, list, TAIL, i + 1)] = Spot(HEAD, list, TAIL, i)
  BY <1>3 DEF IsWhole
<1>7. ASSUME NEW i \in 1 .. Len(list)
      PROVE  /\ Reached(lru_next[list[i]], lru_next) = Behind(list, i)
             /\ lru_prev[list[i]] = HEAD \/ (i # 1 /\ lru_prev[list[i]] = list[i - 1])
  <2>1. Reached(lru_next[list[i]], lru_next) = Behind(list, i)
    BY <1>3, BehindIs DEF Behind
  <2>2. back[list[i]] = IF i = 1 THEN HEAD ELSE list[i - 1]
    <3>1. i - 1 \in 0 .. Len(list) /\ (i - 1) + 1 = i
      BY <1>5
    <3>2. back[Spot(HEAD, list, TAIL, i)] = Spot(HEAD, list, TAIL, i - 1)
      BY <1>6, <3>1
    <3>. QED
      BY <1>5, <3>2 DEF Spot
  <2>3. lru_prev[list[i]] = HEAD \/ lru_prev[list[i]] = back[list[i]]
    <3>1. list[i] \in L
      BY <1>5
    <3>. QED
      BY <1>3, <3>1, Zenon
  <2>. QED
    BY <2>1, <2>2, <2>3
<1>8. lru_prev[TAIL] = HEAD \/ (list # <<>> /\ lru_prev[TAIL] = list[Len(list)])
  <2>1. back[TAIL] = IF Len(list) = 0 THEN HEAD ELSE list[Len(list)]
    <3>1. Len(list) \in 0 .. Len(list)
      BY <1>5
    <3>2. back[Spot(HEAD, list, TAIL, Len(list) + 1)] = Spot(HEAD, list, TAIL, Len(list))
      BY <1>6, <3>1
    <3>. QED
      BY <1>5, <3>2 DEF Spot
  <2>2. lru_prev[TAIL] = HEAD \/ lru_prev[TAIL] = back[TAIL]
    BY <1>3, Zenon
  <2>. QED
    BY <1>5, <2>1, <2>2
<1>9. ASSUME NEW t \in Threads, NEW n \in Evicting(t) PROVE Unlinking /\ n = node[lru_lock]
  <2>1. pc[t] = "purge_unlink" /\ n = node[t]
    BY <1>9 DEF Evicting, If
  <2>2. t = lru_lock
    BY <1>2, <2>1 DEF Sound, LockDiscipline, Consolidating, Purging
  <2>. QED
    BY <2>1, <2>2, ApiAssumption DEF Unlinking
<1>10. \A n \in L : n \in Cached \/ (Unlinking /\ n = node[lru_lock])
  BY <1>2, <1>3, <1>9, LruLinks DEF PlacesOK
<1>11. Unlinking => node[lru_lock] \in L /\ node[lru_lock] \notin Cached
  <2>1. lru_lock \in Threads \cup {NULL}
    BY <1>2 DEF Sound, ControlTypeOK
  <2>2. Unlinking => node[lru_lock] \in Hand(lru_lock) /\ lru_lock \in Threads
    BY <2>1 DEF Unlinking, Hand, If, Filling
  <2>. QED
    BY <1>2, <2>2 DEF OwnersOK, PurgerOK, Unlinking
<1>12. Scanning => scannedTo \in L \cup {HEAD}
  <2>1. lru_lock \in Threads \cup {NULL}
    BY <1>2 DEF Sound, ControlTypeOK
  <2>. QED
    BY <1>2, <2>1 DEF Scanning, scannedTo, PurgerOK, Purging
<1>13. \A t \in Threads : pc[t] \in {"purge_bucket", "purge_unlink"} =>
         prev[t] \in L /\ prev[t] = lru_prev[node[t]]
  BY <1>2 DEF PurgerOK
<1>. QED
  BY <1>3, <1>4, <1>7, <1>8, <1>10, <1>11, <1>12, <1>13 DEF OrderOK

(* ... before and after a step.                                            *)
LEMMA InvOrderNext == (IInv /\ allocated => OrderOK)'
BY InvOrder, PTL

(* What a step of a call makes of the list.                                *)
Moved(t, list, list2) ==
  \/ list2 = list
  \/ \E front \in Seq(Nodes) : list2 = front \o list
  \/ \E i \in 1 .. Len(list) : /\ i # 1 /\ lru_lock = t /\ node[t] = list[i]
                              /\ list2 = RemoveAt(list, i)

(* Every step moves the list in one of the three ways.                     *)
LEMMA StepMoves ==
  ASSUME NEW t \in Threads, IInv, Step(t)
  PROVE  Moved(t, LruOrder, LruOrder')
<1>1. CASE lru_next' = lru_next
  BY <1>1 DEF Moved, LruOrder, Walk
<1>2. CASE lru_next' # lru_next
  <2>1. Sound /\ allocated
    BY StepAllocated DEF IInv
  <2>2. PICK list, back, taken : ListsAre(list, back, taken)
    BY <2>1 DEF IInv, ListsOK
  <2>3. LruOrder = list
    <3>1. Distinct(list, Nodes) /\ IsWhole(HEAD, list, TAIL, lru_next, back)
      BY <2>2 DEF ListsAre, LruIs
    <3>. QED
      BY <3>1, WalkFinds DEF LruOrder
  <2>4. Given(t, list, back, taken)
    BY <2>1, <2>2, OthersStay DEF Given, IInv
  <2>5. PICK list2, back2 :
          /\ LruIs(list2, back2)'
          /\ Moved(t, list, list2)
    BY <1>2, <2>4, StepReorders DEF Reordered, Moved
  <2>6. LruOrder' = list2
    <3>1. Distinct(list2, Nodes) /\ IsWhole(HEAD, list2, TAIL, lru_next', back2)
      BY <2>5 DEF LruIs
    <3>. QED
      BY <3>1, WalkFinds DEF LruOrder
  <2>. QED
    BY <2>3, <2>5, <2>6
<1>. QED
  BY <1>1, <1>2

-----------------------------------------------------------------------------
(* The order that is shown: the list without the node that is evicted.     *)
OrderShown == Distinct(orderNow, Nodes) /\ Range(orderNow) \subseteq Cached

(* It holds cached nodes only, each once ...                               *)
LEMMA InvOrderShown == IInv /\ allocated => OrderShown
<1>. SUFFICES ASSUME IInv, allocated PROVE OrderShown
  OBVIOUS
<1>1. OrderOK
  BY InvOrder
<1>2. CASE Unlinking
  <2>1. PICK i \in 1 .. Len(LruOrder) : LruOrder[i] = node[lru_lock]
    BY <1>1, <1>2 DEF OrderOK, Range, Distinct
  <2>2. orderNow = RemoveAt(LruOrder, i)
    BY <1>1, <1>2, <2>1, WithoutIs DEF OrderOK, orderNow
  <2>3. Distinct(orderNow, Nodes) /\ Range(orderNow) = Range(LruOrder) \ {node[lru_lock]}
    BY <1>1, <2>1, <2>2, RemoveAtDistinct DEF OrderOK
  <2>. QED
    BY <1>1, <2>3 DEF OrderOK, OrderShown
<1>3. CASE ~Unlinking
  <2>1. orderNow = LruOrder
    BY <1>3 DEF orderNow
  <2>. QED
    BY <1>1, <1>3, <2>1 DEF OrderOK, OrderShown
<1>. QED
  BY <1>2, <1>3

(* ... before and after a step.                                            *)
LEMMA InvOrderShownNext == (IInv /\ allocated => OrderShown)'
BY InvOrderShown, PTL

(* What the invariants say before and after a step of a call.              *)
LEMMA StepFacts ==
  ASSUME NEW t \in Threads, IInv, IInv', Step(t)
  PROVE  /\ Sound /\ NodesOK /\ Sound' /\ allocated /\ allocated'
         /\ OrderOK /\ OrderOK' /\ OrderShown /\ OrderShown'
         /\ \A u \in Threads : u # t => Still(u)
<1>1. Sound /\ Sound'
  BY DEF IInv
<1>2. allocated /\ allocated'
  BY <1>1, StepAllocated
<1>3. NodesOK
  BY <1>2 DEF IInv
<1>4. OrderOK /\ OrderShown
  BY <1>2, InvOrder, InvOrderShown
<1>5. OrderOK' /\ OrderShown'
  BY <1>2, InvOrderNext, InvOrderShownNext
<1>6. \A u \in Threads : u # t => Still(u)
  BY <1>1, OthersStay DEF Others
<1>. QED
  BY <1>1, <1>2, <1>3, <1>4, <1>5, <1>6

(* The steps of the other threads leave the eviction under way alone.      *)
Bystands(t) == pc[t] \notin Purging /\ pc'[t] \notin Purging

(* Its thread, its node and its place in purgeOld stay as they are.        *)
LEMMA EvictionStays ==
  ASSUME NEW t \in Threads, IInv, IInv', Step(t), Bystands(t)
  PROVE  /\ (Unlinking' <=> Unlinking) /\ (Scanning' <=> Scanning)
         /\ Unlinking => lru_lock # t /\ node'[lru_lock'] = node[lru_lock]
         /\ Scanning => lru_lock # t /\ scannedTo' = scannedTo
<1>1. /\ Sound /\ Sound' /\ lru_lock \in Threads \cup {NULL} /\ lru_lock' \in Threads \cup {NULL}
      /\ \A u \in Threads : u # t => Still(u)
  BY StepFacts DEF Sound, ControlTypeOK
<1>2. CASE lru_lock # NULL /\ pc[lru_lock] \in Purging
  <2>1. lru_lock \in Threads /\ lru_lock # t
    BY <1>1, <1>2 DEF Bystands
  <2>2. Still(lru_lock)
    BY <1>1, <2>1
  <2>3. lru_lock' = lru_lock /\ pc'[lru_lock] = pc[lru_lock] /\ node'[lru_lock] = node[lru_lock]
        /\ prev'[lru_lock] = prev[lru_lock]
    BY <2>2 DEF Still
  <2>. QED
    BY <2>1, <2>3 DEF Unlinking, Scanning, scannedTo
<1>3. CASE ~(lru_lock # NULL /\ pc[lru_lock] \in Purging)
  <2>1. ASSUME lru_lock' # NULL, pc'[lru_lock'] \in Purging PROVE FALSE
    <3>1. PICK u \in Threads : u = lru_lock'
      BY <1>1, <2>1
    <3>2. u # t
      BY <2>1, <3>1 DEF Bystands
    <3>3. pc[u] \in Purging /\ lru_lock = u
      BY <1>1, <2>1, <3>1, <3>2 DEF Still
    <3>. QED
      BY <1>3, <3>1, <3>3, ApiAssumption
  <2>. QED
    BY <1>3, <2>1 DEF Unlinking, Scanning, Purging
<1>. QED
  BY <1>2, <1>3

(* New nodes at the head do not change what lies behind a node.            *)
LEMMA BehindJoin ==
  ASSUME NEW front \in Seq(Nodes), NEW list \in Seq(Nodes), NEW i \in 1 .. Len(list)
  PROVE  /\ Len(front) + i \in 1 .. Len(front \o list)
         /\ (front \o list)[Len(front) + i] = list[i]
         /\ Behind(front \o list, Len(front) + i) = Behind(list, i)
<1>. DEFINE m == Len(front)
            n == Len(list)
            long == front \o list
<1>1. /\ m \in Nat /\ n \in Nat /\ Len(long) = m + n
      /\ \A k \in 1 .. m + n : long[k] = IF k <= m THEN front[k] ELSE list[k - m]
  BY ConcatProperties
<1>. HIDE DEF long
<1>2. ASSUME NEW j \in 1 .. n PROVE m + j \in 1 .. m + n /\ long[m + j] = list[j]
  <2>1. m + j \in 1 .. m + n /\ ~(m + j <= m) /\ m + j - m = j
    BY <1>1
  <2>. QED
    BY <1>1, <2>1
<1>3. \A j \in i + 1 .. n : m + j \in m + i + 1 .. m + n /\ long[m + j] = list[j]
  BY <1>1, <1>2
<1>4. \A k \in m + i + 1 .. m + n : k - m \in i + 1 .. n /\ long[k] = list[k - m]
  BY <1>1
<1>5. {long[k] : k \in m + i + 1 .. m + n} \subseteq {list[j] : j \in i + 1 .. n}
  BY <1>4, Zenon
<1>6. {list[j] : j \in i + 1 .. n} \subseteq {long[k] : k \in m + i + 1 .. m + n}
  <2>1. \A j \in i + 1 .. n : \E k \in m + i + 1 .. m + n : list[j] = long[k]
    BY <1>3, Zenon
  <2>. QED
    BY <2>1, Zenon
<1>7. Behind(long, m + i) = Behind(list, i)
  BY <1>1, <1>5, <1>6 DEF Behind
<1>. QED
  BY <1>1, <1>2, <1>7 DEF long

(* So does what it has scanned, though nodes are added at the head.        *)
LEMMA ScanStays ==
  ASSUME NEW t \in Threads, IInv, IInv', Step(t), Bystands(t)
  PROVE  scannedNow' = scannedNow
<1>1. /\ OrderOK /\ OrderOK' /\ (Scanning' <=> Scanning)
      /\ Scanning => lru_lock # t /\ scannedTo' = scannedTo
  BY StepFacts, EvictionStays
<1>2. CASE ~Scanning \/ scannedTo = HEAD
  BY <1>1, <1>2, PointersDiffer DEF scannedNow
<1>3. CASE Scanning /\ scannedTo # HEAD
  <2>1. /\ Distinct(LruOrder, Nodes) /\ Distinct(LruOrder', Nodes)
        /\ scannedTo \in Range(LruOrder) /\ Range(LruOrder) \subseteq Nodes
        /\ LruOrder \in Seq(Nodes) /\ lru_lock # t
    BY <1>1, <1>3 DEF OrderOK, Distinct, Range
  <2>2. PICK i \in 1 .. Len(LruOrder) : LruOrder[i] = scannedTo
    BY <2>1 DEF Range
  <2>3. scannedNow = Behind(LruOrder, i)
    BY <1>1, <1>3, <2>1, <2>2 DEF scannedNow, OrderOK
  <2>4. PICK k \in 1 .. Len(LruOrder') :
          LruOrder'[k] = scannedTo /\ Behind(LruOrder', k) = Behind(LruOrder, i)
    <3>1. LruOrder' = LruOrder \/ \E front \in Seq(Nodes) : LruOrder' = front \o LruOrder
      BY <2>1, StepMoves DEF Moved
    <3>2. CASE LruOrder' = LruOrder
      BY <2>2, <3>2
    <3>3. CASE \E front \in Seq(Nodes) : LruOrder' = front \o LruOrder
      <4>1. PICK front \in Seq(Nodes) : LruOrder' = front \o LruOrder
        BY <3>3
      <4>2. /\ Len(front) + i \in 1 .. Len(front \o LruOrder)
            /\ (front \o LruOrder)[Len(front) + i] = LruOrder[i]
            /\ Behind(front \o LruOrder, Len(front) + i) = Behind(LruOrder, i)
        BY <2>1, <2>2, BehindJoin
      <4>. QED
        BY <2>2, <4>1, <4>2
    <3>. QED
      BY <3>1, <3>2, <3>3
  <2>5. Reached(lru_next'[LruOrder'[k]], lru_next') = Behind(LruOrder', k)
    BY <1>1, <2>4 DEF OrderOK, Reached, Walk
  <2>6. scannedNow' = Reached(lru_next'[scannedTo], lru_next')
    BY <1>1, <1>3, <2>1 DEF scannedNow, Reached, Walk
  <2>. QED
    BY <2>3, <2>4, <2>5, <2>6
<1>. QED
  BY <1>2, <1>3

(* The order that is shown changes as the list does.                       *)
LEMMA OrderMoves ==
  ASSUME NEW t \in Threads, IInv, IInv', Step(t), Bystands(t)
  PROVE  /\ LruOrder' = LruOrder => orderNow' = orderNow
         /\ \/ orderNow' = orderNow
            \/ \E front \in Seq(Nodes) : front # <<>> /\ orderNow' = front \o orderNow
            \/ /\ LruOrder' # LruOrder /\ lru_lock = t /\ orderNow = LruOrder
               /\ \E i \in 1 .. Len(orderNow) : /\ node[t] = orderNow[i]
                                               /\ orderNow' = RemoveAt(orderNow, i)
<1>1. /\ OrderOK /\ OrderOK' /\ allocated /\ allocated'
      /\ (Unlinking' <=> Unlinking)
      /\ Unlinking => lru_lock # t /\ node'[lru_lock'] = node[lru_lock]
  BY StepFacts, EvictionStays
<1>2. LruOrder \in Seq(Nodes) /\ Distinct(LruOrder, Nodes) /\ Distinct(LruOrder', Nodes)
  BY <1>1 DEF OrderOK, Distinct
<1>3. orderNow = IF Unlinking THEN Without(LruOrder, node[lru_lock]) ELSE LruOrder
  BY <1>1 DEF orderNow
<1>4. orderNow' = IF Unlinking THEN Without(LruOrder', node[lru_lock]) ELSE LruOrder'
  <2>1. CASE ~Unlinking
    BY <1>1, <2>1 DEF orderNow
  <2>2. CASE Unlinking
    BY <1>1, <2>2, WithoutNext
  <2>. QED
    BY <2>1, <2>2
<1>5. ASSUME NEW other, LruOrder' = other
      PROVE  orderNow' = IF Unlinking THEN Without(other, node[lru_lock]) ELSE other
  BY <1>4, <1>5
<1>6. CASE LruOrder' = LruOrder
  <2>1. orderNow' = IF Unlinking THEN Without(LruOrder, node[lru_lock]) ELSE LruOrder
    BY <1>5, <1>6
  <2>. QED
    BY <1>3, <2>1
<1>7. ASSUME NEW front \in Seq(Nodes), LruOrder' = front \o LruOrder, LruOrder' # LruOrder
      PROVE  front # <<>> /\ orderNow' = front \o orderNow
  <2>1. front # <<>>
    BY <1>2, <1>7, ConcatEmptySeq
  <2>2. CASE Unlinking
    <3>0. node[lru_lock] \in Range(LruOrder)
      BY <1>1, <2>2 DEF OrderOK
    <3>1. PICK i \in 1 .. Len(LruOrder) : LruOrder[i] = node[lru_lock]
      BY <1>2, <3>0 DEF Range
    <3>2. orderNow = RemoveAt(LruOrder, i)
      BY <1>2, <1>3, <2>2, <3>1, WithoutIs
    <3>3. Len(front) + i \in 1 .. Len(LruOrder') /\ LruOrder'[Len(front) + i] = node[lru_lock]
      BY <1>2, <1>7, <3>1, BehindJoin
    <3>4. orderNow' = RemoveAt(LruOrder', Len(front) + i)
      BY <1>2, <1>5, <2>2, <3>3, WithoutIs
    <3>. QED
      BY <1>2, <1>7, <2>1, <3>1, <3>2, <3>4, JoinWithout
  <2>3. CASE ~Unlinking
    BY <1>3, <1>5, <1>7, <2>1, <2>3
  <2>. QED
    BY <2>2, <2>3
<1>8. ASSUME NEW i \in 1 .. Len(LruOrder), lru_lock = t, node[t] = LruOrder[i],
             LruOrder' = RemoveAt(LruOrder, i)
      PROVE  orderNow = LruOrder /\ orderNow' = LruOrder'
  BY <1>1, <1>3, <1>5, <1>8
<1>9. Moved(t, LruOrder, LruOrder')
  BY StepMoves
<1>10. CASE \E front \in Seq(Nodes) : LruOrder' = front \o LruOrder
  BY <1>6, <1>7, <1>10
<1>11. CASE \E i \in 1 .. Len(LruOrder) : /\ i # 1 /\ lru_lock = t /\ node[t] = LruOrder[i]
                                         /\ LruOrder' = RemoveAt(LruOrder, i)
  BY <1>6, <1>8, <1>11
<1>. QED
  BY <1>6, <1>9, <1>10, <1>11 DEF Moved

(* A step on no link leaves the order and what was scanned.                *)
LEMMA OrderStays ==
  ASSUME NEW t \in Threads, IInv, IInv', Step(t), Bystands(t), lru_next' = lru_next
  PROVE  orderNow' = orderNow /\ scannedNow' = scannedNow
<1>1. LruOrder' = LruOrder
  BY DEF LruOrder, Walk
<1>. QED
  BY <1>1, OrderMoves, ScanStays

-----------------------------------------------------------------------------
(* The steps of a thread that is not evicting.                             *)
Shown == [Abstract!Next]_(Abstract!vars)

(* A step that changes nothing that is shown is a stutter ...              *)
LEMMA ShowsNothing ==
  ASSUME SameItems, SameCalls, orderNow' = orderNow, scannedNow' = scannedNow
  PROVE  Shown
BY DEF Shown, SameItems, SameCalls, Abstract!vars, Abstract!items, Abstract!calls

(* A cached node shows its key.                                            *)
LEMMA CachedShown ==
  ASSUME Sound, NodesOK, NEW n \in Nodes
  PROVE  /\ n \in Cached => storedNow[n] = key[n] /\ storedNow[n] \in Keys
         /\ n \notin Cached => storedNow[n] = NoKey
<1>1. /\ key \in [Nodes -> Keys \cup {NoKey}] /\ value = key
      /\ n \in Cached => key[n] # NoKey
  BY DEF Sound, ArrayTypes, NodesOK, ChainsOK
<1>2. key[n] \in Keys \cup {NoKey}
  BY <1>1
<1>3. storedNow[n] = IF n \in Cached THEN value[n] ELSE NoKey
  BY DEF storedNow
<1>. QED
  BY <1>1, <1>2, <1>3

(* ... and one that only adds nodes at the head is PutFirst.               *)
LEMMA ShowsPutFirst ==
  ASSUME Sound, NodesOK, OrderShown, OrderShown', Cached' = Cached,
         SameItems, SameCalls, scannedNow' = scannedNow,
         NEW front \in Seq(Nodes), front # <<>>, orderNow' = front \o orderNow
  PROVE  Shown
<1>. DEFINE long == front \o orderNow
            m == Len(front)
<1>1. /\ Distinct(orderNow, Nodes) /\ orderNow \in Seq(Nodes)
      /\ Distinct(long, Nodes) /\ Range(long) \subseteq Cached
  BY DEF OrderShown, Distinct
<1>2. /\ m \in Nat /\ m >= 1 /\ Len(orderNow) \in Nat /\ Len(long) = m + Len(orderNow)
      /\ \A k \in 1 .. m + Len(orderNow) :
           long[k] = IF k <= m THEN front[k] ELSE orderNow[k - m]
  BY <1>1, ConcatProperties
<1>. HIDE DEF long
<1>3. /\ DOMAIN long = 1 .. m + Len(orderNow) /\ DOMAIN front = 1 .. m
      /\ \A j, k \in 1 .. m + Len(orderNow) : long[j] = long[k] => j = k
  <2>1. long \in Seq(Nodes) /\ IsInjective(long)
    BY <1>1 DEF Distinct
  <2>2. DOMAIN long = 1 .. m + Len(orderNow) /\ DOMAIN front = 1 .. m
    BY <1>2, <2>1
  <2>. QED
    BY <2>1, <2>2 DEF IsInjective
<1>4. IsInjective(front)
  <2>1. ASSUME NEW j \in 1 .. m, NEW k \in 1 .. m, front[j] = front[k] PROVE j = k
    BY <1>2, <1>3, <2>1
  <2>. QED
    BY <1>3, <2>1 DEF IsInjective
<1>5. ASSUME NEW s \in Range(front)
      PROVE  storedNow[s] # NoKey /\ s \notin Range(orderNow)
  <2>1. PICK j \in 1 .. m : front[j] = s
    BY <1>3 DEF Range
  <2>2. j \in 1 .. m + Len(orderNow) /\ long[j] = s
    BY <1>2, <2>1
  <2>3. s \in Cached /\ s \in Nodes
    BY <1>1, <1>3, <2>1, <2>2 DEF Range
  <2>4. ASSUME NEW i \in 1 .. Len(orderNow), orderNow[i] = s PROVE FALSE
    <3>1. PICK k : k = m + i
      OBVIOUS
    <3>2. k \in 1 .. m + Len(orderNow) /\ long[k] = s /\ k # j
      BY <1>2, <2>1, <2>4, <3>1
    <3>3. \A a, b \in 1 .. m + Len(orderNow) : long[a] = long[b] => a = b
      BY <1>3
    <3>. QED
      BY <2>2, <3>2, <3>3, Zenon
  <2>5. s \notin Range(orderNow)
    BY <1>1, <2>4 DEF Range
  <2>. QED
    BY <2>3, <2>5, CachedShown, KeyAssumption
<1>6. SubSeq(long, 1, m) = front
  BY <1>1, <1>2, SubSeqFull, SubSeqOfConcat1 DEF long
<1>7. orderNow' = long
  BY DEF long
<1>8. m \in DOMAIN orderNow'
  BY <1>2, <1>3, <1>7
<1>9. \A s \in Range(front) : ~\E i \in 1 .. Len(orderNow) : orderNow[i] = s
  <2>1. \A i \in 1 .. Len(orderNow) : orderNow[i] \in Range(orderNow)
    BY <1>1, DistinctIn
  <2>. QED
    BY <1>5, <2>1
<1>10. Abstract!PutFirst(front)
  BY <1>4, <1>5, <1>7, <1>9
  DEF Abstract!PutFirst, Abstract!IsInjective, IsInjective, Abstract!Range, Range,
      Abstract!Contains, SameItems, SameCalls, Abstract!calls, long
<1>11. Abstract!PutFirst(SubSeq(orderNow', 1, m))
  BY <1>6, <1>7, <1>10
<1>. QED
  BY <1>8, <1>11 DEF Shown, Abstract!Next

(* A node of the Recent list, or of the slice, is recent.                  *)
LEMMA MarkedIsRecent ==
  ASSUME Sound, NodesOK, NEW n \in Recent \cup SliceSet
  PROVE  n \in recentNow /\ n \in Nodes
<1>1. n \in Cached /\ Cached \subseteq Nodes
  BY DEF Sound, NodesOK, MarksOK, ArrayTypes, Cached, Range
<1>2. recent_next[n] # NULL
  BY <1>1 DEF NodesOK, MarksOK
<1>. QED
  BY <1>1, <1>2 DEF recentNow, markedRecent

(* Of these steps five write a link, one of them takes a node out.         *)
LEMMA LinkWriters ==
  ASSUME NEW t \in Threads, Silent(t), Bystands(t), lru_next' # lru_next
  PROVE  AddFirst(t) \/ AddCas(t) \/ AddCasFails(t) \/ PullUnlink(t) \/ PullLowersFlag(t)
BY DEF Silent, Telling, Bystands, Purging, Goto, Step, Find, Allocate, Fill, AddSublist,
   Purge, Pull,
   MarkCas, MarkCasFails, MarkCount, BelowThreshold, RecentThresholdHit, requestPull,
   InsertBegins, AllocLoad, requestPurge, AllocNext, AllocCas, AllocCasFails, AddBack, FillNode,
   PurgeBegins, NoPurge, PurgeSkip, PurgeChoose, KeepInBucket, PurgeUnlink, DisposeCas,
   DisposeCasFails, PurgeEnds, PurgeLowersFlag, PullBegins, NoPull, PullReset, PullSkip,
   PullFoundNone, PullAdds, TryLock, TryLockFails, UnlockLru, links

(* pullRecent takes out a node of its slice, which is marked.              *)
LEMMA PullTakesRecent ==
  ASSUME NEW t \in Threads, IInv, IInv', Silent(t), Bystands(t), LruOrder' # LruOrder,
         lru_lock = t, node[t] \in Range(LruOrder)
  PROVE  node[t] \in recentNow
<1>1. Sound /\ NodesOK /\ allocated /\ Step(t)
  BY StepFacts DEF Silent
<1>2. lru_next' # lru_next
  BY DEF LruOrder, Walk
<1>3. PICK list, back, taken : ListsAre(list, back, taken)
  BY <1>1 DEF IInv, ListsOK
<1>4. Given(t, list, back, taken)
  BY <1>1, <1>3, OthersStay DEF Given
<1>5. Distinct(list, Nodes) /\ IsWhole(HEAD, list, TAIL, lru_next, back)
  BY <1>3 DEF ListsAre, LruIs
<1>6. LruOrder = list
  BY <1>5, WalkFinds DEF LruOrder
<1>7. CASE AddFirst(t) \/ AddCas(t) \/ AddCasFails(t)
  <2>1. pc[t] \in {"add_first", "add_cas"}
    BY <1>7 DEF AddFirst, AddCas, AddCasFails, Goto
  <2>. QED
    BY <1>4, <1>6, <2>1, AdderHolds
<1>8. CASE PullLowersFlag(t)
  <2>1. \A x \in Range(list) \cup {HEAD} : lru_next'[x] = lru_next[x]
    <3>1. Range(list) \subseteq Nodes
      BY <1>5, DistinctIn
    <3>2. /\ lru_next' = [lru_next EXCEPT ![TEMP] = NULL]
          /\ lru_next \in [Base -> Nodes \cup {TAIL, NULL}]
      BY <1>1, <1>8 DEF PullLowersFlag, Sound, ArrayTypes
    <3>. QED
      BY <3>1, <3>2, PointersDiffer DEF Base
  <2>2. IsWhole(HEAD, list, TAIL, lru_next', back)
    BY <1>5, <2>1, WholeFrame, PointersDiffer
  <2>3. LruOrder' = list
    BY <1>5, <2>2, WalkFinds DEF LruOrder
  <2>. QED
    BY <1>6, <2>3
<1>9. CASE PullUnlink(t)
  <2>1. SliceHead = node[t] /\ node[t] \in Nodes
    BY <1>4, <1>9, PullUnlinkMeets
  <2>2. node[t] \in SliceSet
    BY <1>1, <2>1, PointersDiffer, PathStart DEF NodesOK, MarkListsOK, SliceSet
  <2>. QED
    BY <1>1, <2>2, MarkedIsRecent
<1>. QED
  BY <1>2, <1>7, <1>8, <1>9, LinkWriters

(* Whoever lets the items and the calls be at most adds nodes to the front *)
(* of the list, or takes out one that was used.                            *)
LEMMA SilentShows ==
  ASSUME NEW t \in Threads, IInv, IInv', Ended, Silent(t), Bystands(t)
  PROVE  Shown
<1>1. Sound /\ NodesOK /\ allocated /\ OrderShown /\ OrderShown' /\ Step(t)
  BY StepFacts DEF Silent
<1>2. FinderOK(t)
  BY <1>1 DEF IInv, ListsOK, ListsAre, ThreadOK
<1>3. SameItems /\ Cached' = Cached
  BY <1>1, <1>2, SilentItems
<1>4. SameCalls
  BY <1>1, CallsStay DEF Silent, Ended
<1>5. scannedNow' = scannedNow
  BY <1>1, ScanStays
<1>6. CASE orderNow' = orderNow
  BY <1>3, <1>4, <1>5, <1>6, ShowsNothing
<1>7. CASE \E front \in Seq(Nodes) : front # <<>> /\ orderNow' = front \o orderNow
  BY <1>1, <1>3, <1>4, <1>5, <1>7, ShowsPutFirst
<1>8. ASSUME LruOrder' # LruOrder, lru_lock = t, orderNow = LruOrder,
             NEW i \in 1 .. Len(orderNow), node[t] = orderNow[i], orderNow' = RemoveAt(orderNow, i)
      PROVE  Shown
  <2>1. orderNow \in Seq(Nodes) /\ DOMAIN orderNow = 1 .. Len(orderNow)
        /\ node[t] \in Range(LruOrder)
    BY <1>1, <1>8, DistinctIn DEF OrderShown, Distinct
  <2>2. orderNow[i] \in recentNow
    BY <1>8, <2>1, PullTakesRecent
  <2>3. Abstract!TakeOut(i)
    BY <1>3, <1>4, <1>5, <1>8, <2>2
    DEF Abstract!TakeOut, Abstract!RemoveAt, RemoveAt, SameItems, SameCalls, Abstract!calls
  <2>. QED
    BY <2>1, <2>3 DEF Shown, Abstract!Next
<1>. QED
  BY <1>1, <1>6, <1>7, <1>8, OrderMoves

-----------------------------------------------------------------------------
(* The steps by which a lookup is answered, and an insert takes effect.    *)
LEMMA LookupStays ==
  ASSUME NEW t \in Threads, IInv, IInv', Step(t), Bystands(t), lru_next' = lru_next
  PROVE  /\ Sound /\ Sound' /\ NodesOK /\ FinderOK(t) /\ InserterOK(t)
         /\ orderNow' = orderNow /\ scannedNow' = scannedNow
         /\ wantedNow' = [wantedNow EXCEPT ![t] = wantedOf(t)']
         /\ foundNow' = [foundNow EXCEPT ![t] = foundOf(t)']
         /\ insertingNow' = [insertingNow EXCEPT ![t] = insertingOf(t)']
         /\ wantedNow[t] = wantedOf(t) /\ foundNow[t] = foundOf(t)
         /\ insertingNow[t] = insertingOf(t)
<1>1. Sound /\ Sound' /\ NodesOK /\ allocated
  BY StepFacts
<1>2. FinderOK(t) /\ InserterOK(t)
  BY <1>1 DEF IInv, ListsOK, ListsAre, ThreadOK
<1>3. orderNow' = orderNow /\ scannedNow' = scannedNow
  BY OrderStays
<1>4. /\ wantedNow' = [wantedNow EXCEPT ![t] = wantedOf(t)']
      /\ foundNow' = [foundNow EXCEPT ![t] = foundOf(t)']
      /\ insertingNow' = [insertingNow EXCEPT ![t] = insertingOf(t)']
  BY <1>1, CallsAre
<1>. QED
  BY <1>1, <1>2, <1>3, <1>4 DEF wantedNow, foundNow, insertingNow

(* A key that is cached is found in its bucket.                            *)
LEMMA CachedHits ==
  ASSUME Sound, NodesOK, NEW n \in Cached
  PROVE  Hits(key[n]) # {}
<1>. DEFINE chain == bucket[keyToBucketNr(key[n])]
            S == {i \in DOMAIN chain : key[chain[i]] = key[n]}
<1>1. PICK b \in Buckets : n \in Range(bucket[b])
  BY DEF Cached
<1>2. b = keyToBucketNr(key[n]) /\ bucket[b] \in Seq(Nodes)
  BY <1>1 DEF NodesOK, ChainsOK, Sound, ArrayTypes
<1>3. chain \in Seq(Nodes) /\ DOMAIN chain = 1 .. Len(chain) /\ S \subseteq Nat /\ S # {}
  BY <1>1, <1>2 DEF Range
<1>4. PICK m \in S : \A i \in S : m <= i
  BY <1>3, MinIs
<1>5. ASSUME NEW j \in 1 .. m - 1 PROVE key[chain[j]] # key[n]
  <2>1. j \in DOMAIN chain /\ ~(m <= j)
    BY <1>3
  <2>. QED
    BY <1>4, <2>1
<1>6. m \in Hits(key[n])
  BY <1>3, <1>5 DEF Hits
<1>. QED
  BY <1>6

(* searchBucket finds no node of the key: there is none.                   *)
LEMMA MissShows ==
  ASSUME NEW t \in Threads, IInv, IInv', FindMiss(t)
  PROVE  Shown
<1>1. Sound /\ ControlTypeOK
  BY DEF IInv, Sound
<1>2. /\ Step(t) /\ Bystands(t) /\ lru_next' = lru_next /\ bucket' = bucket
      /\ recent_next' = recent_next /\ pc[t] = "find_lock" /\ Hits(arg[t]) = {}
      /\ pc'[t] = "find_threshold"
      /\ arg' = IF ret[t] = "idle" THEN [arg EXCEPT ![t] = NoKey] ELSE arg
  BY <1>1 DEF FindMiss, Step, Find, Bystands, Purging, Goto, ControlTypeOK, links, table
<1>3. /\ Sound /\ Sound' /\ NodesOK
      /\ orderNow' = orderNow /\ scannedNow' = scannedNow
      /\ wantedNow' = [wantedNow EXCEPT ![t] = wantedOf(t)']
      /\ foundNow' = [foundNow EXCEPT ![t] = foundOf(t)']
      /\ insertingNow' = [insertingNow EXCEPT ![t] = insertingOf(t)']
      /\ wantedNow[t] = wantedOf(t) /\ foundNow[t] = foundOf(t)
      /\ insertingNow[t] = insertingOf(t)
  BY <1>2, LookupStays
<1>4. SameItems
  BY <1>2, <1>3, ItemsStay
<1>5. arg[t] \in Keys /\ arg[t] # NoKey /\ arg \in [Threads -> Keys \cup {NoKey}]
  BY <1>1, <1>2, KeyAssumption DEF ControlTypeOK
<1>6. /\ wantedOf(t) = arg[t] /\ wantedOf(t)' = NoKey
      /\ foundOf(t) = NULL /\ foundOf(t)' = NULL
      /\ insertingOf(t) = NoKey /\ insertingOf(t)' \in {NoKey, arg[t]}
  BY <1>2, <1>5 DEF wantedOf, foundOf, insertingOf, FindLocked
<1>7. foundNow' = foundNow
  BY <1>3, <1>6 DEF foundNow
<1>8. insertingNow' = insertingNow \/ insertingNow' = [insertingNow EXCEPT ![t] = arg[t]]
  BY <1>3, <1>6 DEF insertingNow
<1>9. ASSUME NEW n \in Nodes PROVE storedNow[n] # arg[t]
  BY <1>2, <1>3, <1>5, CachedHits, CachedShown
<1>10. Abstract!Miss(t)
  BY <1>3, <1>4, <1>5, <1>6, <1>7, <1>8, <1>9 DEF Abstract!Miss, Abstract!items, SameItems
<1>. QED
  BY <1>10 DEF Shown, Abstract!Next

(* It finds one: the item is that of the key.                              *)
LEMMA HitShows ==
  ASSUME NEW t \in Threads, IInv, IInv', FindHit(t)
  PROVE  Shown
<1>1. Sound /\ ControlTypeOK
  BY DEF IInv, Sound
<1>2. /\ Step(t) /\ Bystands(t) /\ lru_next' = lru_next /\ bucket' = bucket
      /\ recent_next' = recent_next /\ pc[t] = "find_lock" /\ pc'[t] = "find_copy"
      /\ key' = key /\ arg' = arg
  BY <1>1 DEF FindHit, Step, Find, Bystands, Purging, Goto, ControlTypeOK, links, table,
     items
<1>3. /\ Sound /\ Sound' /\ NodesOK
      /\ orderNow' = orderNow /\ scannedNow' = scannedNow
      /\ wantedNow' = [wantedNow EXCEPT ![t] = wantedOf(t)']
      /\ foundNow' = [foundNow EXCEPT ![t] = foundOf(t)']
      /\ insertingNow' = [insertingNow EXCEPT ![t] = insertingOf(t)']
      /\ wantedNow[t] = wantedOf(t) /\ foundNow[t] = foundOf(t)
      /\ insertingNow[t] = insertingOf(t)
  BY <1>2, LookupStays
<1>4. SameItems
  BY <1>2, <1>3, ItemsStay
<1>5. arg[t] \in Keys /\ arg[t] # NoKey
  BY <1>1, <1>2, KeyAssumption DEF ControlTypeOK
<1>6. /\ wantedOf(t) = arg[t] /\ wantedOf(t)' = NoKey /\ foundOf(t)' = node'[t]
      /\ insertingOf(t) = NoKey /\ insertingOf(t)' = NoKey
  BY <1>2 DEF wantedOf, foundOf, insertingOf, FindLocked
<1>7. insertingNow' = insertingNow
  BY <1>3, <1>6 DEF insertingNow
<1>8. node'[t] \in Nodes /\ storedNow[node'[t]] = arg[t]
  <2>1. PICK i \in Hits(arg[t]) : node' = [node EXCEPT ![t] = bucket[keyToBucketNr(arg[t])][i]]
    BY DEF FindHit
  <2>2. keyToBucketNr(arg[t]) \in Buckets
    BY <1>5, BucketNrInRange
  <2>3. bucket[keyToBucketNr(arg[t])] \in Seq(Nodes)
    BY <1>3, <2>2 DEF Sound, ArrayTypes
  <2>4. node'[t] = bucket[keyToBucketNr(arg[t])][i]
    BY <1>1, <2>1 DEF Sound, LocalTypes
  <2>5. i \in DOMAIN bucket[keyToBucketNr(arg[t])] /\ key[node'[t]] = arg[t]
    BY <2>4 DEF Hits
  <2>6. node'[t] \in Range(bucket[keyToBucketNr(arg[t])]) /\ node'[t] \in Nodes
    BY <2>3, <2>4, <2>5 DEF Range
  <2>7. node'[t] \in Cached
    BY <2>2, <2>6 DEF Cached
  <2>. QED
    BY <1>3, <2>5, <2>6, <2>7, CachedShown
<1>9. Abstract!Hit(t, node'[t])
  BY <1>3, <1>4, <1>5, <1>6, <1>7, <1>8 DEF Abstract!Hit, Abstract!items, SameItems
<1>. QED
  BY <1>8, <1>9 DEF Shown, Abstract!Next

(* The value is copied, and the node is marked, together.                  *)
LEMMA CopyShows ==
  ASSUME NEW t \in Threads, IInv, IInv', FindCopyMarked(t) \/ FindCopyUnmarked(t)
  PROVE  Shown
<1>1. Sound /\ ControlTypeOK /\ LocalTypes /\ ArrayTypes
  BY DEF IInv, Sound
<1>2. /\ Step(t) /\ Bystands(t) /\ lru_next' = lru_next /\ bucket' = bucket
      /\ pc[t] = "find_copy" /\ pc'[t] \in {"find_threshold", "mark_cas"}
      /\ pc'[t] = "find_threshold" => arg'[t] = NoKey
  BY <1>1 DEF FindCopyMarked, FindCopyUnmarked, Step, Find, Bystands, Purging, Goto,
     ControlTypeOK, links, table, unlockBucket
<1>3. /\ Sound /\ Sound' /\ NodesOK /\ FinderOK(t)
      /\ orderNow' = orderNow /\ scannedNow' = scannedNow
      /\ wantedNow' = [wantedNow EXCEPT ![t] = wantedOf(t)']
      /\ foundNow' = [foundNow EXCEPT ![t] = foundOf(t)']
      /\ insertingNow' = [insertingNow EXCEPT ![t] = insertingOf(t)']
      /\ wantedNow[t] = wantedOf(t) /\ foundNow[t] = foundOf(t)
      /\ insertingNow[t] = insertingOf(t)
  BY <1>2, LookupStays
<1>4. node[t] \in Cached /\ node[t] \in Nodes
  BY <1>2, <1>3, HeldNodes DEF FindLocked
<1>5. /\ wantedOf(t) = NoKey /\ wantedOf(t)' = NoKey
      /\ foundOf(t) = node[t] /\ foundOf(t)' = NULL
      /\ insertingOf(t) = NoKey /\ insertingOf(t)' = NoKey
  BY <1>2 DEF wantedOf, foundOf, insertingOf, FindLocked
<1>6. wantedNow' = wantedNow /\ insertingNow' = insertingNow
  BY <1>3, <1>5 DEF wantedNow, insertingNow
<1>7. storedNow' = storedNow /\ recentNow' = recentNow \cup {node[t]}
  <2>1. CASE FindCopyMarked(t)
    <3>1. recent_next' = recent_next /\ recent_next[node[t]] # NULL
      BY <2>1 DEF FindCopyMarked, markedRecent
    <3>2. SameItems
      BY <1>2, <1>3, <3>1, ItemsStay
    <3>3. node[t] \in recentNow
      BY <1>4, <3>1 DEF recentNow, markedRecent
    <3>. QED
      BY <3>2, <3>3 DEF SameItems
  <2>2. CASE FindCopyUnmarked(t)
    <3>1. recent_next' = [recent_next EXCEPT ![node[t]] = recent_head]
      BY <2>2 DEF FindCopyUnmarked, LinkToRecentHead
    <3>2. recent_head \in Nodes \cup {DUMMY}
      BY <1>1 DEF ArrayTypes
    <3>. QED
      BY <1>2, <1>3, <1>4, <3>1, <3>2, MarkComes
  <2>. QED
    BY <2>1, <2>2
<1>8. Abstract!Take(t)
  BY <1>3, <1>4, <1>5, <1>6, <1>7, PointersDiffer DEF Abstract!Take
<1>. QED
  BY <1>8 DEF Shown, Abstract!Next

(* addNodeToBucket makes the item, which is new and marked.                *)
LEMMA InsertShows ==
  ASSUME NEW t \in Threads, IInv, IInv', Ended, addNodeToBucket(t)
  PROVE  Shown
<1>1. Sound /\ ControlTypeOK /\ ArrayTypes /\ CallOK
  BY DEF IInv, Sound
<1>2. /\ Step(t) /\ Bystands(t) /\ lru_next' = lru_next /\ recent_next' = recent_next
      /\ pc[t] = "add_to_bucket" /\ pc'[t] = "add_first" /\ arg' = arg /\ value' = value
  BY <1>1 DEF addNodeToBucket, Step, Fill, Bystands, Purging, Goto, ControlTypeOK, links,
     call,
     items
<1>3. /\ Sound /\ Sound' /\ NodesOK /\ InserterOK(t)
      /\ orderNow' = orderNow /\ scannedNow' = scannedNow
      /\ wantedNow' = [wantedNow EXCEPT ![t] = wantedOf(t)']
      /\ foundNow' = [foundNow EXCEPT ![t] = foundOf(t)']
      /\ insertingNow' = [insertingNow EXCEPT ![t] = insertingOf(t)']
      /\ wantedNow[t] = wantedOf(t) /\ foundNow[t] = foundOf(t)
      /\ insertingNow[t] = insertingOf(t)
  BY <1>2, LookupStays
<1>4. arg[t] = NoKey
  BY <1>1, <1>2 DEF Ended, KeyGone, CallOK, ReturnsOK, Filling, FindLocked
<1>5. /\ key[node[t]] \in Keys /\ recent_next[node[t]] = DUMMY
      /\ node[t] \in Nodes
  <2>1. node[t] \in Hand(t) /\ node[t] \in Falsely(t)
    BY <1>2 DEF Hand, If, Filling, Falsely, Filled
  <2>. QED
    BY <1>2, <1>3, <2>1 DEF InserterOK, NodesOK, OwnersOK
<1>6. Cached' = Cached \cup {node[t]} /\ node[t] \notin Cached
  <2>1. allocated
    BY <1>1, <1>2, StepAllocated
  <2>2. PICK list, back, taken : ListsAre(list, back, taken)
    BY <2>1 DEF IInv, ListsOK
  <2>3. Given(t, list, back, taken)
    BY <1>1, <1>2, <1>3, <2>2, OthersStay DEF Given
  <2>. QED
    BY <2>3, CachedGrows
<1>7. /\ wantedOf(t) = NoKey /\ wantedOf(t)' = NoKey
      /\ foundOf(t) = NULL /\ foundOf(t)' = NULL
      /\ insertingOf(t) = key[node[t]] /\ insertingOf(t)' = NoKey
  BY <1>1, <1>2, <1>4 DEF wantedOf, foundOf, insertingOf, FindLocked, ArrayTypes
<1>8. wantedNow' = wantedNow /\ foundNow' = foundNow
  BY <1>3, <1>7 DEF wantedNow, foundNow
<1>9. storedNow' = [storedNow EXCEPT ![node[t]] = key[node[t]]]
  BY <1>1, <1>2, <1>5, <1>6 DEF storedNow, ArrayTypes
<1>10. recentNow' = recentNow \cup {node[t]}
  BY <1>2, <1>5, <1>6, PointersDiffer DEF recentNow, markedRecent
<1>11. storedNow[node[t]] = NoKey
  BY <1>3, <1>5, <1>6, CachedShown
<1>12. Abstract!Insert(t, node[t])
  BY <1>3, <1>5, <1>7, <1>8, <1>9, <1>10, <1>11, KeyAssumption DEF Abstract!Insert
<1>. QED
  BY <1>5, <1>12 DEF Shown, Abstract!Next

(* The mark of a new node goes when the insert returns, that of another    *)
(* when pullRecent is done with it.                                        *)
LEMMA ForgetShows ==
  ASSUME NEW t \in Threads, IInv, IInv', Ended,
         InsertReturns(t) \/ PullSkipClear(t) \/ PullClear(t)
  PROVE  Shown
<1>1. Sound /\ ControlTypeOK /\ CallOK /\ LockDiscipline
  BY DEF IInv, Sound
<1>2. ret[t] \in {"idle", "ins_begin", "alloc_load"}
  BY <1>1 DEF ControlTypeOK
<1>3. /\ Step(t) /\ Bystands(t) /\ lru_next' = lru_next /\ bucket' = bucket /\ ~Telling(t)
      /\ pc[t] \in {"ins_done", "pull_skip", "pull_clear"}
      /\ recent_next' = [recent_next EXCEPT ![node[t]] = NULL]
  BY <1>1, <1>2 DEF InsertReturns, PullSkipClear, PullClear, Step, Fill, Pull, Bystands,
     Purging,
     Goto, Return, ControlTypeOK, links, table, TakeNextRecent, Telling, FindMiss, FindHit,
     FindCopyMarked, FindCopyUnmarked, addNodeToBucket
<1>4. /\ NodesOK /\ InserterOK(t) /\ orderNow' = orderNow /\ scannedNow' = scannedNow
  BY <1>3, LookupStays
<1>5. SameCalls
  BY <1>1, <1>3, <1>4, CallsStay DEF Ended
<1>6. node[t] \in Cached /\ recent_next[node[t]] # NULL
  <2>1. CASE pc[t] = "ins_done"
    <3>1. node[t] \in Late(t) /\ node[t] \in Falsely(t)
      BY <2>1 DEF Late, Falsely, If
    <3>. QED
      BY <1>4, <3>1, PointersDiffer DEF NodesOK, OwnersOK, InserterOK
  <2>2. CASE pc[t] \in {"pull_skip", "pull_clear"}
    <3>1. lru_lock = t /\ lru_lock # NULL
      BY <1>1, <2>2, PullerHolds DEF Consolidating, Pulling
    <3>2. SliceHead = node[t]
      BY <2>2, <3>1 DEF SliceHead, Consolidates
    <3>3. node[t] \in Nodes
      <4>1. PullerOK(t)
        <5>1. allocated
          BY <1>1, <1>3, StepAllocated
        <5>. QED
          BY <5>1 DEF IInv, ListsOK, ListsAre, ThreadOK
      <4>. QED
        BY <2>2, <4>1 DEF PullerOK
    <3>4. node[t] \in SliceSet
      BY <1>4, <3>2, <3>3, PointersDiffer, PathStart DEF NodesOK, MarkListsOK, SliceSet
    <3>. QED
      BY <1>1, <1>4, <3>4, MarkedIsRecent DEF recentNow, markedRecent
  <2>. QED
    BY <1>3, <2>1, <2>2
<1>7. storedNow' = storedNow /\ node[t] \in recentNow /\ recentNow' = recentNow \ {node[t]}
  BY <1>1, <1>3, <1>4, <1>6, MarkGoes
<1>8. node[t] \in Nodes
  BY <1>1, <1>6 DEF Sound, ArrayTypes, Cached, Range
<1>9. Abstract!Forget(node[t])
  BY <1>4, <1>5, <1>7 DEF Abstract!Forget, Abstract!calls, SameCalls
<1>. QED
  BY <1>8, <1>9 DEF Shown, Abstract!Next

-----------------------------------------------------------------------------
(* The steps of an eviction.  It has scanned what lies behind the node     *)
(* that it visits next.                                                    *)
ScannedOK ==
  /\ ~Scanning => scannedNow = {}
  /\ Scanning /\ scannedTo = HEAD => scannedNow = {}
  /\ Scanning => \A i \in 1 .. Len(LruOrder) :
       LruOrder[i] = scannedTo => scannedNow = Behind(LruOrder, i)

(* It follows from what is known of the order ...                          *)
LEMMA OrderScanned == OrderOK => ScannedOK
<1>. SUFFICES ASSUME OrderOK PROVE ScannedOK
  OBVIOUS
<1>1. ~Scanning => scannedNow = {}
  BY DEF scannedNow
<1>2. Scanning /\ scannedTo = HEAD => scannedNow = {}
  BY PointersDiffer DEF scannedNow
<1>3. ASSUME Scanning, NEW i \in 1 .. Len(LruOrder), LruOrder[i] = scannedTo
      PROVE  scannedNow = Behind(LruOrder, i)
  <2>1. scannedTo \in Nodes
    BY <1>3 DEF OrderOK, Distinct
  <2>. QED
    BY <1>3, <2>1 DEF scannedNow, OrderOK
<1>. QED
  BY <1>1, <1>2, <1>3 DEF ScannedOK

(* ... before and after a step.                                            *)
LEMMA OrderScannedNext == (OrderOK => ScannedOK)'
BY OrderScanned, PTL

(* What is known at a step of purgeOld.                                    *)
LEMMA PurgeFacts ==
  ASSUME NEW t \in Threads, IInv, IInv', Ended, Step(t),
         pc[t] \in Purging \cup {"cons_purge"}, lru_lock' = lru_lock
  PROVE  /\ Sound /\ NodesOK /\ OrderOK /\ OrderOK' /\ ScannedOK /\ ScannedOK'
         /\ allocated /\ allocated' /\ lru_lock = t /\ lru_lock' = t /\ t # NULL
         /\ FinderOK(t) /\ (~Telling(t) => SameCalls)
         /\ LruOrder \in Seq(Nodes) /\ Distinct(LruOrder, Nodes)
         /\ \A i, j \in 1 .. Len(LruOrder) : LruOrder[i] = LruOrder[j] => i = j
         /\ ~Unlinking => orderNow = LruOrder /\ Range(LruOrder) \subseteq Cached
         /\ ~Unlinking' => orderNow' = LruOrder'
<1>1. Sound /\ NodesOK /\ OrderOK /\ OrderOK' /\ allocated /\ allocated'
  BY StepFacts
<1>2. ScannedOK /\ ScannedOK'
  BY <1>1, OrderScanned, OrderScannedNext
<1>3. lru_lock = t /\ lru_lock # NULL
  BY <1>1, PullerHolds DEF Consolidating
<1>4. FinderOK(t)
  BY <1>1 DEF IInv, ListsOK, ListsAre, ThreadOK
<1>5. ~Telling(t) => SameCalls
  BY <1>1, CallsStay DEF Ended
<1>6. LruOrder \in Seq(Nodes) /\ Distinct(LruOrder, Nodes)
      /\ \A i, j \in 1 .. Len(LruOrder) : LruOrder[i] = LruOrder[j] => i = j
  BY <1>1 DEF OrderOK, Distinct, IsInjective
<1>7. ~Unlinking => orderNow = LruOrder /\ Range(LruOrder) \subseteq Cached
  BY <1>1 DEF orderNow, OrderOK
<1>8. ~Unlinking' => orderNow' = LruOrder'
  BY <1>1 DEF orderNow
<1>. QED
  BY <1>1, <1>2, <1>3, <1>4, <1>5, <1>6, <1>7, <1>8

(* Most of them leave the list and the node to visit, or end the visits.   *)
LEMMA PurgeStaysShows ==
  ASSUME NEW t \in Threads, IInv, IInv', Ended,
         PurgeBegins(t) \/ PurgeChoose(t) \/ DisposeCas(t) \/ PurgeEnds(t) \/ PurgeLowersFlag(t)
  PROVE  Shown
<1>1. Sound /\ ControlTypeOK /\ LocalTypes
  BY DEF IInv, Sound
<1>2. /\ Step(t) /\ Silent(t) /\ lru_next' = lru_next /\ lru_lock' = lru_lock
      /\ pc[t] \in Purging \cup {"cons_purge"}
      /\ pc[t] # "purge_unlink" /\ pc'[t] # "purge_unlink"
  BY <1>1 DEF PurgeBegins, PurgeChoose, DisposeCas, PurgeEnds, PurgeLowersFlag, Step, Purge,
     Goto, Purging, ControlTypeOK, links, Silent, Telling, FindMiss, FindHit, FindCopyMarked,
     FindCopyUnmarked, addNodeToBucket, InsertReturns, removeNodeFromBucket, PullSkipClear,
     PullClear
<1>3. /\ Sound /\ NodesOK /\ OrderOK /\ OrderOK' /\ ScannedOK /\ ScannedOK'
      /\ lru_lock = t /\ lru_lock' = t /\ t # NULL /\ FinderOK(t) /\ SameCalls
      /\ ~Unlinking => orderNow = LruOrder
      /\ ~Unlinking' => orderNow' = LruOrder'
  BY <1>2, PurgeFacts DEF Silent
<1>4. LruOrder' = LruOrder
  BY <1>2 DEF LruOrder, Walk
<1>5. orderNow' = orderNow
  BY <1>2, <1>3, <1>4 DEF Unlinking
<1>6. SameItems
  BY <1>2, <1>3, SilentItems
<1>7. CASE PurgeChoose(t) \/ DisposeCas(t)
  <2>1. scannedTo' = scannedTo /\ (Scanning' <=> Scanning)
    BY <1>1, <1>3, <1>7 DEF PurgeChoose, DisposeCas, Goto, scannedTo, Scanning, Purging,
       ControlTypeOK, LocalTypes
  <2>2. scannedNow' = scannedNow
    BY <1>2, <2>1 DEF scannedNow, Reached, Walk
  <2>. QED
    BY <1>3, <1>5, <1>6, <2>2, ShowsNothing
<1>8. CASE PurgeLowersFlag(t)
  <2>1. ~Scanning /\ ~Scanning'
    BY <1>1, <1>3, <1>8 DEF PurgeLowersFlag, Goto, Scanning, Purging, ControlTypeOK
  <2>. QED
    BY <1>3, <1>5, <1>6, <2>1, ShowsNothing DEF ScannedOK
<1>9. CASE PurgeBegins(t)
  <2>1. ~Scanning /\ Scanning' /\ scannedTo' = lru_prev[TAIL]
    BY <1>1, <1>3, <1>9 DEF PurgeBegins, Goto, Scanning, scannedTo, Purging, ControlTypeOK,
       LocalTypes
  <2>2. scannedNow' = {}
    <3>1. CASE lru_prev[TAIL] = HEAD
      BY <1>3, <2>1, <3>1 DEF ScannedOK
    <3>2. CASE lru_prev[TAIL] # HEAD
      <4>1. LruOrder # <<>> /\ LruOrder[Len(LruOrder)] = lru_prev[TAIL] /\ LruOrder \in Seq(Nodes)
        BY <1>3, <3>2 DEF OrderOK, Distinct
      <4>2. Len(LruOrder) \in 1 .. Len(LruOrder)
        BY <4>1
      <4>3. scannedNow' = Behind(LruOrder', Len(LruOrder'))
        BY <1>3, <1>4, <2>1, <4>1, <4>2 DEF ScannedOK
      <4>4. Len(LruOrder) \in Nat
        BY <4>1
      <4>5. Behind(LruOrder, Len(LruOrder)) = {}
        BY <4>4 DEF Behind
      <4>. QED
        BY <1>4, <4>3, <4>5
    <3>. QED
      BY <3>1, <3>2
  <2>. QED
    BY <1>3, <1>5, <1>6, <2>1, <2>2, ShowsNothing DEF ScannedOK
<1>10. CASE PurgeEnds(t)
  <2>1. ~Scanning'
    BY <1>1, <1>3, <1>10 DEF PurgeEnds, Goto, Scanning, Purging, ControlTypeOK
  <2>2. Abstract!EvictionEnds
    BY <1>3, <1>5, <1>6, <2>1
    DEF Abstract!EvictionEnds, Abstract!items, Abstract!calls, SameItems, SameCalls, ScannedOK
  <2>. QED
    BY <2>2 DEF Shown, Abstract!Next
<1>. QED
  BY <1>7, <1>8, <1>9, <1>10

(* One that passes over a node goes on with the one before it.             *)
LEMMA PassShows ==
  ASSUME NEW t \in Threads, IInv, IInv', Ended, PurgeSkip(t) \/ KeepInBucket(t)
  PROVE  Shown
<1>1. Sound /\ ControlTypeOK /\ LocalTypes
  BY DEF IInv, Sound
<1>2. /\ Step(t) /\ Silent(t) /\ lru_next' = lru_next /\ lru_lock' = lru_lock
      /\ pc[t] \in {"purge_visit", "purge_bucket"} /\ pc'[t] = "purge_visit"
  BY <1>1 DEF PurgeSkip, KeepInBucket, Step, Purge,
     Goto, Purging, ControlTypeOK, links, Silent, Telling, FindMiss, FindHit, FindCopyMarked,
     FindCopyUnmarked, addNodeToBucket, InsertReturns, removeNodeFromBucket, PullSkipClear,
     PullClear
<1>3. /\ Sound /\ NodesOK /\ OrderOK /\ OrderOK' /\ ScannedOK /\ ScannedOK'
      /\ lru_lock = t /\ lru_lock' = t /\ t # NULL /\ FinderOK(t) /\ SameCalls
      /\ LruOrder \in Seq(Nodes) /\ allocated
      /\ ~Unlinking => orderNow = LruOrder /\ Range(LruOrder) \subseteq Cached
      /\ ~Unlinking' => orderNow' = LruOrder'
  BY <1>2, PurgeFacts DEF Silent, Purging
<1>4. LruOrder' = LruOrder
  BY <1>2 DEF LruOrder, Walk
<1>5. /\ ~Unlinking /\ ~Unlinking' /\ Scanning /\ Scanning'
      /\ scannedTo = node[t] /\ scannedTo' = node'[t]
  BY <1>2, <1>3 DEF Unlinking, Scanning, scannedTo, Purging
<1>6. orderNow = LruOrder /\ orderNow' = orderNow /\ Range(LruOrder) \subseteq Cached
  BY <1>3, <1>4, <1>5
<1>7. SameItems
  BY <1>2, <1>3, SilentItems
<1>8. node'[t] = lru_prev[node[t]] /\ node[t] \in Range(LruOrder) /\ lru_prev[node[t]] # HEAD
  <2>1. CASE PurgeSkip(t)
    BY <1>1, <1>3, <1>5, <2>1 DEF PurgeSkip, PurgeDone, OrderOK, LocalTypes
  <2>2. CASE KeepInBucket(t)
    <3>1. pc[t] = "purge_bucket" /\ node'[t] = prev[t]
      BY <1>1, <2>2 DEF KeepInBucket, Goto, LocalTypes
    <3>2. /\ prev[t] = lru_prev[node[t]] /\ prev[t] \in Range(LruOrder)
          /\ Range(LruOrder) \subseteq Nodes
      BY <1>3, <3>1 DEF OrderOK, Range
    <3>3. node[t] \in Range(LruOrder)
      <4>1. ListsOK
        BY <1>3 DEF IInv
      <4>2. node[t] \in Nodes
        BY <1>3, <3>1, <4>1, NodesHeld
      <4>. QED
        BY <1>3, <1>5, <4>2, PointersDiffer DEF OrderOK
    <3>. QED
      BY <3>1, <3>2, <3>3, PointersDiffer
  <2>. QED
    BY <2>1, <2>2
<1>9. PICK i \in 1 .. Len(LruOrder) : LruOrder[i] = node[t]
  BY <1>3, <1>8 DEF Range
<1>10. i # 1 /\ lru_prev[node[t]] = LruOrder[i - 1]
  BY <1>3, <1>8, <1>9 DEF OrderOK
<1>11. node[t] \in recentNow
  <2>1. node[t] \in Cached
    BY <1>6, <1>8
  <2>2. markedRecent(node[t])
    <3>1. CASE PurgeSkip(t)
      BY <3>1 DEF PurgeSkip
    <3>2. CASE KeepInBucket(t)
      <4>1. node[t] \in Range(bucket[keyToBucketNr(key[node[t]])])
        BY <1>3, <2>1 DEF Cached, NodesOK, ChainsOK
      <4>. QED
        BY <3>2, <4>1 DEF KeepInBucket
    <3>. QED
      BY <3>1, <3>2
  <2>. QED
    BY <2>1, <2>2 DEF recentNow
<1>12. scannedNow = Behind(LruOrder, i)
  BY <1>3, <1>5, <1>9 DEF ScannedOK
<1>13. Len(LruOrder) \in Nat /\ i - 1 \in 1 .. Len(LruOrder) /\ (i - 1) + 1 = i
  BY <1>3, <1>10
<1>14. scannedNow' = Behind(LruOrder, i - 1)
  BY <1>3, <1>4, <1>5, <1>8, <1>10, <1>13 DEF ScannedOK
<1>15. Behind(LruOrder, i - 1) = Behind(LruOrder, i) \cup {LruOrder[i]}
  <2>1. i .. Len(LruOrder) = (i + 1 .. Len(LruOrder)) \cup {i}
    BY <1>13
  <2>2. Behind(LruOrder, i - 1) = {LruOrder[j] : j \in i .. Len(LruOrder)}
    BY <1>13 DEF Behind
  <2>. QED
    BY <2>1, <2>2 DEF Behind
<1>16. Abstract!Colder(i) = Behind(LruOrder, i)
  BY <1>6 DEF Abstract!Colder, Behind
<1>17. Abstract!Pass(i)
  BY <1>3, <1>6, <1>7, <1>9, <1>11, <1>12, <1>14, <1>15, <1>16
  DEF Abstract!Pass, Abstract!items, Abstract!calls, SameItems, SameCalls
<1>18. i \in DOMAIN orderNow
  BY <1>3, <1>6
<1>. QED
  BY <1>17, <1>18 DEF Shown, Abstract!Next

(* A node leaves its bucket while it is not recent, no lookup has found it *)
(* and all behind it are passed over.                                      *)
LEMMA EvictShows ==
  ASSUME NEW t \in Threads, IInv, IInv', Ended, removeNodeFromBucket(t)
  PROVE  Shown
<1>1. Sound /\ ControlTypeOK /\ LocalTypes
  BY DEF IInv, Sound
<1>2. /\ Step(t) /\ ~Telling(t) /\ lru_next' = lru_next /\ lru_lock' = lru_lock
      /\ pc[t] = "purge_bucket" /\ pc'[t] = "purge_unlink"
      /\ node' = node /\ recent_next' = recent_next /\ value' = value
      /\ Unlocked(keyToBucketNr(key[node[t]])) /\ recent_next[node[t]] = NULL
  BY <1>1 DEF removeNodeFromBucket, Step, Purge, Goto, ControlTypeOK, links, Telling,
     FindMiss,
     FindHit, FindCopyMarked, FindCopyUnmarked, addNodeToBucket, locals, items, markedRecent
<1>3. /\ Sound /\ NodesOK /\ OrderOK /\ OrderOK' /\ ScannedOK
      /\ lru_lock = t /\ lru_lock' = t /\ t # NULL /\ SameCalls
      /\ allocated /\ allocated'
      /\ LruOrder \in Seq(Nodes) /\ Distinct(LruOrder, Nodes)
      /\ ~Unlinking => orderNow = LruOrder
  BY <1>2, PurgeFacts DEF Purging
<1>4. LruOrder' = LruOrder
  BY <1>2 DEF LruOrder, Walk
<1>5. /\ ~Unlinking /\ Unlinking' /\ Scanning /\ Scanning'
      /\ scannedTo = node[t] /\ scannedTo' = node[t]
  BY <1>2, <1>3 DEF Unlinking, Scanning, scannedTo, Purging
<1>6. orderNow = LruOrder
  BY <1>3, <1>5
<1>7. node[t] \in Range(LruOrder) /\ lru_prev[node[t]] # HEAD
  <2>1. Range(LruOrder) \subseteq Nodes
    BY <1>3, DistinctIn
  <2>2. prev[t] \in Range(LruOrder) /\ prev[t] = lru_prev[node[t]]
    BY <1>2, <1>3 DEF OrderOK
  <2>3. node'[lru_lock'] \in Range(LruOrder')
    BY <1>3, <1>5 DEF OrderOK
  <2>. QED
    BY <1>2, <1>3, <1>4, <2>1, <2>2, <2>3, PointersDiffer
<1>8. PICK i \in 1 .. Len(LruOrder) : LruOrder[i] = node[t]
  BY <1>3, <1>7 DEF Range
<1>9. i # 1
  BY <1>3, <1>7, <1>8 DEF OrderOK
<1>10. orderNow' = RemoveAt(LruOrder, i)
  <2>1. orderNow' = Without(LruOrder, LruOrder[i])
    BY <1>2, <1>3, <1>4, <1>5, <1>8, WithoutNext
  <2>. QED
    BY <1>3, <2>1, WithoutIs
<1>11. Cached' = Cached \ {node[t]} /\ node[t] \in Cached
  <2>1. PICK list, back, taken : ListsAre(list, back, taken)
    BY <1>3 DEF IInv, ListsOK
  <2>2. Given(t, list, back, taken)
    BY <1>2, <1>3, <2>1, OthersStay DEF Given
  <2>. QED
    BY <2>2, CachedShrinks
<1>12. node[t] \in Nodes
  BY <1>3, <1>8
<1>13. storedNow' = [storedNow EXCEPT ![node[t]] = NoKey]
  BY <1>2, <1>11, <1>12 DEF storedNow
<1>14. recentNow' = recentNow /\ node[t] \notin recentNow
  BY <1>2, <1>11 DEF recentNow, markedRecent
<1>15. scannedNow = Behind(LruOrder, i) /\ scannedNow' = scannedNow
  <2>1. scannedNow = Behind(LruOrder, i)
    BY <1>3, <1>5, <1>8 DEF ScannedOK
  <2>2. scannedNow' = scannedNow
    BY <1>2, <1>5 DEF scannedNow, Reached, Walk
  <2>. QED
    BY <2>1, <2>2
<1>16. ASSUME NEW u \in Threads PROVE foundNow[u] # node[t]
  <2>1. CASE pc[u] = "find_copy"
    <3>1. FinderOK(u)
      BY <1>3 DEF IInv, ListsOK, ListsAre, ThreadOK
    <3>2. node[u] = node[t] => bucket_lock[LockOf(keyToBucketNr(key[node[t]]))] = u
      BY <1>1, <2>1, <3>1 DEF FinderOK, FindLocked, Sound, LockDiscipline
    <3>3. bucket_lock[LockOf(keyToBucketNr(key[node[t]]))] = NULL
      BY <1>2 DEF Unlocked
    <3>4. foundNow[u] = node[u]
      BY <2>1 DEF foundNow, foundOf
    <3>. QED
      BY <3>2, <3>3, <3>4, ApiAssumption
  <2>2. CASE pc[u] # "find_copy"
    BY <1>12, <2>2, PointersDiffer DEF foundNow, foundOf
  <2>. QED
    BY <2>1, <2>2
<1>17. Abstract!Colder(i) = Behind(LruOrder, i)
  BY <1>6 DEF Abstract!Colder, Behind
<1>18. Abstract!Evict(i)
  BY <1>3, <1>6, <1>8, <1>9, <1>10, <1>13, <1>14, <1>15, <1>16, <1>17
  DEF Abstract!Evict, Abstract!calls, SameCalls, Abstract!RemoveAt, RemoveAt
<1>19. i \in DOMAIN orderNow
  BY <1>3, <1>6
<1>. QED
  BY <1>18, <1>19 DEF Shown, Abstract!Next

(* It leaves the list for good one step later, and goes to the pool.       *)
LEMMA UnlinkShows ==
  ASSUME NEW t \in Threads, IInv, IInv', Ended, PurgeUnlink(t)
  PROVE  Shown
<1>1. Sound /\ ControlTypeOK /\ LocalTypes
  BY DEF IInv, Sound
<1>2. /\ Step(t) /\ Silent(t) /\ lru_lock' = lru_lock
      /\ pc[t] = "purge_unlink" /\ pc'[t] = "dispose" /\ node' = node /\ prev' = prev
  BY <1>1 DEF PurgeUnlink, Step, Purge, Goto, ControlTypeOK, Silent, Telling, FindMiss,
     FindHit,
     FindCopyMarked, FindCopyUnmarked, addNodeToBucket, InsertReturns, removeNodeFromBucket,
     PullSkipClear, PullClear
<1>3. /\ Sound /\ NodesOK /\ OrderOK /\ OrderOK' /\ ScannedOK /\ ScannedOK'
      /\ lru_lock = t /\ lru_lock' = t /\ t # NULL /\ FinderOK(t) /\ SameCalls /\ allocated
      /\ LruOrder \in Seq(Nodes) /\ Distinct(LruOrder, Nodes)
      /\ \A i, j \in 1 .. Len(LruOrder) : LruOrder[i] = LruOrder[j] => i = j
      /\ ~Unlinking' => orderNow' = LruOrder'
  BY <1>2, PurgeFacts DEF Silent, Purging
<1>4. SameItems /\ Cached' = Cached
  BY <1>2, <1>3, SilentItems
<1>5. /\ Unlinking /\ ~Unlinking' /\ Scanning /\ Scanning'
      /\ scannedTo = node[t] /\ scannedTo' = prev[t]
  BY <1>2, <1>3 DEF Unlinking, Scanning, scannedTo, Purging
<1>6. node[t] \in Range(LruOrder) /\ node[t] \notin Cached /\ prev[t] \in Range(LruOrder)
      /\ prev[t] = lru_prev[node[t]] /\ prev[t] # HEAD
  <2>1. Range(LruOrder) \subseteq Nodes
    BY <1>3, DistinctIn
  <2>2. node[t] \in Range(LruOrder) /\ node[t] \notin Cached /\ prev[t] \in Range(LruOrder)
        /\ prev[t] = lru_prev[node[t]]
    BY <1>2, <1>3, <1>5 DEF OrderOK
  <2>. QED
    BY <2>1, <2>2, PointersDiffer
<1>7. PICK i \in 1 .. Len(LruOrder) : LruOrder[i] = node[t]
  BY <1>3, <1>6 DEF Range
<1>8. i # 1 /\ prev[t] = LruOrder[i - 1]
  BY <1>3, <1>6, <1>7 DEF OrderOK
<1>9. node[t] \notin Range(LruOrder')
  BY <1>3, <1>4, <1>5, <1>6 DEF OrderOK
<1>10. LruOrder' = RemoveAt(LruOrder, i)
  <2>1. LruOrder' # LruOrder
    BY <1>6, <1>9
  <2>2. ASSUME NEW front \in Seq(Nodes), LruOrder' = front \o LruOrder PROVE FALSE
    <3>1. /\ Len(front) + i \in 1 .. Len(front \o LruOrder)
          /\ (front \o LruOrder)[Len(front) + i] = node[t]
      BY <1>3, <1>7, BehindJoin
    <3>2. Distinct(LruOrder', Nodes)
      BY <1>3 DEF OrderOK
    <3>3. LruOrder'[Len(front) + i] \in Range(LruOrder')
      BY <2>2, <3>1, <3>2, DistinctIn
    <3>. QED
      BY <1>9, <2>2, <3>1, <3>3
  <2>3. Moved(t, LruOrder, LruOrder')
    BY <1>2, StepMoves
  <2>4. PICK k \in 1 .. Len(LruOrder) : node[t] = LruOrder[k] /\ LruOrder' = RemoveAt(LruOrder, k)
    BY <2>1, <2>2, <2>3 DEF Moved
  <2>. QED
    BY <1>3, <1>7, <2>4
<1>11. orderNow = RemoveAt(LruOrder, i)
  <2>1. orderNow = Without(LruOrder, node[t])
    BY <1>3, <1>5 DEF orderNow
  <2>. QED
    BY <1>3, <1>7, <2>1, WithoutIs
<1>12. orderNow' = orderNow
  BY <1>3, <1>5, <1>10, <1>11
<1>13. scannedNow = Behind(LruOrder, i)
  BY <1>3, <1>5, <1>7 DEF ScannedOK
<1>. DEFINE short == RemoveAt(LruOrder, i)
            n == Len(LruOrder)
<1>14. /\ n \in Nat /\ Len(short) = n - 1 /\ i - 1 \in 1 .. n - 1
       /\ \A j \in 1 .. n - 1 : short[j] = IF j < i THEN LruOrder[j] ELSE LruOrder[j + 1]
  <2>1. /\ LruOrder \in Seq(Nodes) /\ Len(LruOrder) \in Nat /\ i \in 1 .. Len(LruOrder)
        /\ i # 1
    BY <1>3, <1>7, <1>8, DistinctIn
  <2>2. /\ Len(short) = Len(LruOrder) - 1
        /\ \A j \in 1 .. Len(LruOrder) - 1 :
             short[j] = IF j < i THEN LruOrder[j] ELSE LruOrder[j + 1]
    BY <2>1, RemoveAtIs
  <2>. HIDE DEF short
  <2>. QED
    BY <2>1, <2>2
<1>. HIDE DEF short
<1>15. short[i - 1] = prev[t]
  BY <1>8, <1>14
<1>16. LruOrder' = short
  BY <1>10 DEF short
<1>17. scannedNow' = Behind(short, i - 1)
  <2>1. LruOrder'[i - 1] = scannedTo' /\ i - 1 \in 1 .. Len(LruOrder')
    BY <1>5, <1>14, <1>15, <1>16
  <2>2. scannedNow' = Behind(LruOrder', i - 1)
    BY <1>3, <1>5, <2>1 DEF ScannedOK
  <2>. QED
    BY <1>16, <2>2
<1>18. Behind(short, i - 1) = Behind(LruOrder, i)
  <2>0. (i - 1) + 1 = i /\ Len(short) = n - 1
    BY <1>14
  <2>1. Behind(short, i - 1) = {short[j] : j \in i .. n - 1}
    BY <2>0 DEF Behind
  <2>2. \A j \in i .. n - 1 : j + 1 \in i + 1 .. n /\ short[j] = LruOrder[j + 1]
    BY <1>14
  <2>3. \A k \in i + 1 .. n : k - 1 \in i .. n - 1 /\ LruOrder[k] = short[k - 1]
    BY <1>14
  <2>4. {short[j] : j \in i .. n - 1} \subseteq {LruOrder[k] : k \in i + 1 .. n}
    BY <2>2, Zenon
  <2>5. {LruOrder[k] : k \in i + 1 .. n} \subseteq {short[j] : j \in i .. n - 1}
    BY <2>3, Zenon
  <2>. QED
    BY <2>1, <2>4, <2>5 DEF Behind
<1>. QED
  BY <1>3, <1>4, <1>12, <1>13, <1>17, <1>18, ShowsNothing

(* A failed compare_exchange links the node to the pool's new head.        *)
LEMMA DisposeShows ==
  ASSUME NEW t \in Threads, IInv, IInv', Ended, DisposeCasFails(t)
  PROVE  Shown
<1>1. Sound /\ ControlTypeOK /\ LocalTypes /\ ArrayTypes
  BY DEF IInv, Sound
<1>2. /\ Step(t) /\ Silent(t) /\ lru_lock' = lru_lock
      /\ pc[t] = "dispose" /\ pc'[t] = "dispose" /\ node' = node /\ prev' = prev
      /\ lru_next' = [lru_next EXCEPT ![node[t]] = empty_head]
  BY <1>1 DEF DisposeCasFails, Step, Purge, Goto, ControlTypeOK, Silent, Telling, FindMiss,
     FindHit, FindCopyMarked, FindCopyUnmarked, addNodeToBucket, InsertReturns,
     removeNodeFromBucket, PullSkipClear, PullClear
<1>3. /\ Sound /\ NodesOK /\ OrderOK /\ OrderOK' /\ ScannedOK /\ ScannedOK'
      /\ lru_lock = t /\ lru_lock' = t /\ t # NULL /\ FinderOK(t) /\ SameCalls /\ allocated
      /\ LruOrder \in Seq(Nodes)
      /\ ~Unlinking => orderNow = LruOrder /\ Range(LruOrder) \subseteq Cached
      /\ ~Unlinking' => orderNow' = LruOrder'
  BY <1>2, PurgeFacts DEF Silent, Purging
<1>4. SameItems
  BY <1>2, <1>3, SilentItems
<1>5. /\ ~Unlinking /\ ~Unlinking' /\ Scanning /\ Scanning'
      /\ scannedTo = prev[t] /\ scannedTo' = prev[t]
  BY <1>2, <1>3 DEF Unlinking, Scanning, scannedTo, Purging
<1>6. LruOrder' = LruOrder
  <2>1. PICK list, back, taken : ListsAre(list, back, taken)
    BY <1>3 DEF IInv, ListsOK
  <2>2. Distinct(list, Nodes) /\ IsWhole(HEAD, list, TAIL, lru_next, back)
    BY <2>1 DEF ListsAre, LruIs
  <2>3. LruOrder = list
    BY <2>2, WalkFinds DEF LruOrder
  <2>4. node[t] \notin Range(list) /\ node[t] \in Nodes
    <3>1. node[t] \in Hand(t)
      BY <1>2 DEF Hand, If
    <3>. QED
      BY <1>3, <1>5, <2>3, <3>1 DEF NodesOK, OwnersOK
  <2>5. \A x \in Range(list) \cup {HEAD} : lru_next'[x] = lru_next[x]
    <3>1. Range(list) \subseteq Nodes
      BY <2>2, DistinctIn
    <3>. QED
      BY <1>1, <1>2, <2>4, <3>1, PointersDiffer DEF ArrayTypes, Base
  <2>6. IsWhole(HEAD, list, TAIL, lru_next', back)
    BY <2>2, <2>5, WholeFrame, PointersDiffer
  <2>. QED
    BY <2>2, <2>3, <2>6, WalkFinds DEF LruOrder
<1>7. orderNow' = orderNow
  BY <1>3, <1>5, <1>6
<1>8. scannedNow' = scannedNow
  <2>1. scannedTo = HEAD \/ scannedTo \in Range(LruOrder)
    BY <1>3, <1>5 DEF OrderOK
  <2>2. CASE scannedTo = HEAD
    BY <1>3, <1>5, <2>2 DEF ScannedOK
  <2>3. CASE scannedTo \in Range(LruOrder)
    <3>1. PICK i \in 1 .. Len(LruOrder) : LruOrder[i] = scannedTo
      BY <1>3, <2>3 DEF Range
    <3>2. scannedNow = Behind(LruOrder, i)
      BY <1>3, <1>5, <3>1 DEF ScannedOK
    <3>3. scannedNow' = Behind(LruOrder', i)
      BY <1>3, <1>5, <1>6, <3>1 DEF ScannedOK
    <3>. QED
      BY <1>6, <3>2, <3>3
  <2>. QED
    BY <2>1, <2>2, <2>3
<1>. QED
  BY <1>3, <1>4, <1>7, <1>8, ShowsNothing

-----------------------------------------------------------------------------
(* Every other step of a call is a bystander's.                            *)
LEMMA StepBystands ==
  ASSUME NEW t \in Threads, Sound, Step(t)
  PROVE  \/ Bystands(t) \/ PurgeBegins(t) \/ PurgeSkip(t) \/ PurgeChoose(t)
         \/ removeNodeFromBucket(t) \/ KeepInBucket(t) \/ PurgeUnlink(t) \/ DisposeCas(t)
         \/ DisposeCasFails(t) \/ PurgeEnds(t) \/ PurgeLowersFlag(t)
<1>1. pc \in [Threads -> PCs] /\ ret[t] \in {"idle", "ins_begin", "alloc_load"}
  BY DEF Sound, ControlTypeOK
<1>. USE <1>1 DEF Bystands, Goto, Return, Purging
<1>2. CASE Find(t)
  BY <1>2 DEF Find, FindMiss, FindHit, FindCopyMarked, FindCopyUnmarked, MarkCas,
     MarkCasFails, MarkCount, BelowThreshold, RecentThresholdHit, requestPull
<1>3. CASE Allocate(t)
  BY <1>3 DEF Allocate, InsertBegins, AllocLoad, requestPurge, AllocNext, AllocCas,
     AllocCasFails
<1>4. CASE Fill(t) \/ AddSublist(t)
  BY <1>4 DEF Fill, FillNode, addNodeToBucket, InsertReturns, AddSublist, AddFirst, AddCas,
       AddCasFails, AddBack
<1>5. CASE Purge(t)
  BY <1>5 DEF Purge, NoPurge
<1>6. CASE Pull(t)
  BY <1>6 DEF Pull, PullBegins, NoPull, PullReset, PullSkip, PullSkipClear, PullUnlink,
       PullClear, PullFoundNone, PullAdds, PullLowersFlag
<1>7. CASE TryLock(t) \/ TryLockFails(t) \/ UnlockLru(t)
  BY <1>7 DEF TryLock, TryLockFails, UnlockLru
<1>. QED
  BY <1>2, <1>3, <1>4, <1>5, <1>6, <1>7 DEF Step

(* So every step of a call is one of EvictingCache, or a stutter.          *)
LEMMA StepShows ==
  ASSUME NEW t \in Threads, IInv, IInv', Ended, Step(t)
  PROVE  Shown
<1>1. Sound
  BY DEF IInv
<1>2. CASE Bystands(t)
  <2>1. Silent(t) \/ Telling(t) \/ InsertReturns(t) \/ removeNodeFromBucket(t)
        \/ PullSkipClear(t) \/ PullClear(t)
    BY DEF Silent
  <2>. QED
    BY <1>2, <2>1, SilentShows, MissShows, HitShows, CopyShows, InsertShows, ForgetShows,
       EvictShows DEF Telling
<1>3. CASE ~Bystands(t)
  BY <1>1, <1>3, StepBystands, PurgeStaysShows, PassShows, EvictShows, UnlinkShows,
     DisposeShows
<1>. QED
  BY <1>2, <1>3

(* An idle thread shows no call, and no thread evicts while all are idle.  *)
LEMMA IdleShown ==
  ASSUME Sound, Ended, NEW t \in Threads, pc[t] = "idle"
  PROVE  /\ wantedNow[t] = NoKey /\ foundNow[t] = NULL /\ insertingNow[t] = NoKey
         /\ lru_lock # t /\ arg[t] = NoKey
<1>1. ret[t] = "idle"
  BY DEF Sound, CallOK, ReturnsOK
<1>2. arg[t] = NoKey
  BY <1>1 DEF Ended, KeyGone, FindLocked
<1>3. lru_lock # t
  BY ApiAssumption DEF Sound, LockDiscipline, Consolidating, Adding, Purging, Pulling
<1>. QED
  BY <1>2, <1>3 DEF wantedNow, foundNow, insertingNow, wantedOf, foundOf, insertingOf,
     FindLocked

(* A call that begins is a Lookup or an Offer.                             *)
LEMMA StartShows ==
  ASSUME NEW t \in Threads, IInv, Ended, StartAny(t)
  PROVE  Shown
<1>1. Sound /\ ControlTypeOK /\ LocalTypes
  BY DEF IInv, Sound
<1>2. PICK op \in Calls, k \in Keys : Start(t, op, k)
  BY DEF StartAny
<1>3. /\ pc[t] = "idle"
      /\ pc' = [pc EXCEPT ![t] = IF op = "insert" THEN "ins_begin" ELSE "find_lock"]
      /\ arg' = [arg EXCEPT ![t] = k]
      /\ UNCHANGED <<items, links, recent_next, table, lru_lock, allocated, locals>>
  BY <1>2 DEF Start, Goto
<1>4. /\ wantedNow[t] = NoKey /\ foundNow[t] = NULL /\ insertingNow[t] = NoKey
      /\ lru_lock # t /\ arg[t] = NoKey
  BY <1>1, <1>3, IdleShown
<1>5. /\ pc \in [Threads -> PCs] /\ arg \in [Threads -> Keys \cup {NoKey}]
      /\ lru_lock \in Threads \cup {NULL}
  BY <1>1 DEF ControlTypeOK
<1>6. \A u \in Threads : u # t => pc'[u] = pc[u] /\ arg'[u] = arg[u]
  BY <1>3, <1>5
<1>7. /\ bucket' = bucket /\ value' = value /\ recent_next' = recent_next /\ lru_next' = lru_next
      /\ lru_lock' = lru_lock /\ allocated' = allocated /\ node' = node /\ prev' = prev
  BY <1>3 DEF items, links, table, locals
<1>8. storedNow' = storedNow /\ recentNow' = recentNow
  BY <1>7 DEF storedNow, recentNow, markedRecent, Cached
<1>9. lru_lock # NULL => pc'[lru_lock] = pc[lru_lock]
  BY <1>4, <1>5, <1>6
<1>10. /\ (Unlinking' <=> Unlinking) /\ (Scanning' <=> Scanning)
       /\ Scanning => scannedTo' = scannedTo
  BY <1>7, <1>9 DEF Unlinking, Scanning, scannedTo
<1>11. scannedNow' = scannedNow
  BY <1>7, <1>10 DEF scannedNow, Reached, Walk
<1>12. LruOrder' = LruOrder
  BY <1>7 DEF LruOrder, Walk
<1>13. orderNow' = orderNow
  <2>1. CASE ~allocated \/ ~Unlinking
    BY <1>7, <1>10, <1>12, <2>1 DEF orderNow
  <2>2. CASE allocated /\ Unlinking
    <3>1. orderNow = Without(LruOrder, node[lru_lock])
      BY <2>2 DEF orderNow
    <3>. QED
      BY <1>7, <1>10, <1>12, <2>2, <3>1, WithoutNext
  <2>. QED
    BY <2>1, <2>2
<1>14. /\ wantedNow' = [wantedNow EXCEPT ![t] = wantedOf(t)']
       /\ foundNow' = [foundNow EXCEPT ![t] = foundOf(t)']
       /\ insertingNow' = [insertingNow EXCEPT ![t] = insertingOf(t)']
  <2>1. \A u \in Threads : u # t => /\ wantedOf(u)' = wantedOf(u) /\ foundOf(u)' = foundOf(u)
                                    /\ insertingOf(u)' = insertingOf(u)
    BY <1>6, <1>7 DEF wantedOf, foundOf, insertingOf
  <2>2. /\ wantedNow' = [u \in Threads |-> wantedOf(u)']
        /\ foundNow' = [u \in Threads |-> foundOf(u)']
        /\ insertingNow' = [u \in Threads |-> insertingOf(u)']
    BY DEF wantedNow, foundNow, insertingNow
  <2>. QED
    BY <2>1, <2>2 DEF wantedNow, foundNow, insertingNow
<1>15. CASE op = "insert"
  <2>1. pc'[t] = "ins_begin" /\ arg'[t] = k
    BY <1>3, <1>5, <1>15
  <2>2. wantedOf(t)' = NoKey /\ foundOf(t)' = NULL /\ insertingOf(t)' = k
    BY <2>1 DEF wantedOf, foundOf, insertingOf, FindLocked
  <2>3. wantedNow' = wantedNow /\ foundNow' = foundNow
    BY <1>4, <1>14, <2>2 DEF wantedNow, foundNow
  <2>4. Abstract!Offer(t, k)
    BY <1>4, <1>8, <1>11, <1>13, <1>14, <2>2, <2>3
       DEF Abstract!Offer, Abstract!Idle, Abstract!items
  <2>. QED
    BY <2>4 DEF Shown, Abstract!Next
<1>16. CASE op # "insert"
  <2>1. pc'[t] = "find_lock" /\ arg'[t] = k
    BY <1>3, <1>5, <1>16
  <2>2. wantedOf(t)' = k /\ foundOf(t)' = NULL /\ insertingOf(t)' = NoKey
    BY <2>1 DEF wantedOf, foundOf, insertingOf, FindLocked
  <2>3. insertingNow' = insertingNow /\ foundNow' = foundNow
    BY <1>4, <1>14, <2>2 DEF insertingNow, foundNow
  <2>4. Abstract!Lookup(t, k)
    BY <1>4, <1>8, <1>11, <1>13, <1>14, <2>2, <2>3
       DEF Abstract!Lookup, Abstract!Idle, Abstract!items
  <2>. QED
    BY <2>4 DEF Shown, Abstract!Next
<1>. QED
  BY <1>15, <1>16

-----------------------------------------------------------------------------
(* The steps of no call.                                                   *)

(* Without a node in a bucket there is no item.                            *)
LEMMA EmptyShown ==
  ASSUME bucket = [b \in Buckets |-> <<>>]
  PROVE  storedNow = [n \in Nodes |-> NoKey] /\ recentNow = {}
<1>1. Cached = {}
  BY DEF Cached, Range
<1>. QED
  BY <1>1 DEF storedNow, recentNow

(* The same after a step.                                                  *)
LEMMA EmptyShownNext ==
  (bucket = [b \in Buckets |-> <<>>] => storedNow = [n \in Nodes |-> NoKey] /\ recentNow = {})'
BY EmptyShown, PTL

(* Memory just allocated shows an empty cache ...                          *)
LEMMA FreshShown ==
  ASSUME FreshState
  PROVE  /\ storedNow = [n \in Nodes |-> NoKey] /\ recentNow = {}
         /\ orderNow = <<>> /\ scannedNow = {}
<1>1. bucket = [b \in Buckets |-> <<>>] /\ lru_next[HEAD] = TAIL /\ lru_lock = NULL
  <2>1. /\ bucket = [b \in Buckets |-> <<>>] /\ lru_lock = NULL
        /\ lru_next = [n \in Base |-> CASE n = HEAD -> TAIL
                                         [] n \in 1 .. Capacity - 1 -> n + 1
                                         [] OTHER -> NULL]
    BY DEF FreshState, Fresh
  <2>2. HEAD \in Base /\ HEAD \notin 1 .. Capacity - 1
    BY PointersDiffer, SizeAssumption DEF Base, Nodes
  <2>. QED
    BY <2>1, <2>2
<1>2. LruOrder = <<>>
  BY <1>1, EndsAtOnce, PointersDiffer DEF LruOrder, Walk
<1>3. orderNow = <<>> /\ scannedNow = {}
  BY <1>1, <1>2 DEF orderNow, scannedNow, Unlinking, Scanning
<1>. QED
  BY <1>1, <1>3, EmptyShown

(* ... before and after a step.                                            *)
LEMMA FreshShownNext ==
  (FreshState => /\ storedNow = [n \in Nodes |-> NoKey] /\ recentNow = {}
                 /\ orderNow = <<>> /\ scannedNow = {})'
BY FreshShown, PTL

(* The initial state is that of EvictingCache.                             *)
LEMMA InitShows ==
  ASSUME Init
  PROVE  Abstract!Init
<1>1. FreshState
  BY DEF Init, FreshState
<1>2. /\ wantedNow = [t \in Threads |-> NoKey] /\ foundNow = [t \in Threads |-> NULL]
      /\ insertingNow = [t \in Threads |-> NoKey]
  BY DEF Init, wantedNow, foundNow, insertingNow, wantedOf, foundOf, insertingOf, FindLocked
<1>. QED
  BY <1>1, <1>2, FreshShown DEF Abstract!Init

(* Between calls nothing is evicted, looked up or inserted.                *)
LEMMA AllIdleShown ==
  ASSUME Sound, Ended, AllIdle
  PROVE  /\ lru_lock = NULL /\ ~Unlinking /\ scannedNow = {}
         /\ \A t \in Threads : /\ wantedNow[t] = NoKey /\ foundNow[t] = NULL
                               /\ insertingNow[t] = NoKey
<1>1. /\ \A t \in Threads : lru_lock # t
      /\ \A t \in Threads : /\ wantedNow[t] = NoKey /\ foundNow[t] = NULL
                            /\ insertingNow[t] = NoKey
  BY IdleShown DEF AllIdle
<1>2. lru_lock = NULL
  BY <1>1 DEF Sound, ControlTypeOK
<1>. QED
  BY <1>1, <1>2 DEF Unlinking, scannedNow, Scanning

(* Nor does memory given back or allocated change that.                    *)
LEMMA IdleCallsStay ==
  ASSUME AllIdle, pc' = pc, arg' = arg
  PROVE  SameCalls
<1>1. \A t \in Threads : /\ wantedOf(t)' = wantedOf(t) /\ foundOf(t)' = foundOf(t)
                         /\ insertingOf(t)' = insertingOf(t)
  BY DEF AllIdle, wantedOf, foundOf, insertingOf, FindLocked
<1>. QED
  BY <1>1 DEF SameCalls, wantedNow, foundNow, insertingNow

(* releaseMemory is Clear ...                                              *)
LEMMA ReleaseShows ==
  ASSUME IInv, Ended, releaseMemory
  PROVE  Shown
<1>1. Sound /\ AllIdle /\ pc' = pc /\ arg' = arg /\ lru_lock' = lru_lock /\ ~allocated'
      /\ bucket' = [b \in Buckets |-> <<>>]
  BY DEF IInv, releaseMemory, call, Fresh
<1>2. SameCalls
  BY <1>1, IdleCallsStay
<1>3. lru_lock = NULL /\ scannedNow = {}
      /\ \A t \in Threads : /\ wantedNow[t] = NoKey /\ foundNow[t] = NULL
                            /\ insertingNow[t] = NoKey
  BY <1>1, AllIdleShown
<1>4. scannedNow' = {} /\ orderNow' = <<>>
  BY <1>1, <1>3 DEF scannedNow, Scanning, orderNow
<1>5. storedNow' = [n \in Nodes |-> NoKey] /\ recentNow' = {}
  BY <1>1, EmptyShownNext
<1>6. Abstract!Clear
  BY <1>2, <1>3, <1>4, <1>5 DEF Abstract!Clear, Abstract!Idle, Abstract!calls, SameCalls
<1>. QED
  BY <1>6 DEF Shown, Abstract!Next

(* ... and allocateMemory shows nothing new.                               *)
LEMMA AllocateShows ==
  ASSUME IInv, Ended, allocateMemory
  PROVE  Shown
<1>1. Sound /\ AllIdle /\ pc' = pc /\ arg' = arg /\ ~allocated
      /\ bucket = [b \in Buckets |-> <<>>]
  BY DEF IInv, Sound, ControlTypeOK, allocateMemory, call, Ended
<1>2. SameCalls
  BY <1>1, IdleCallsStay
<1>3. scannedNow = {} /\ orderNow = <<>>
  BY <1>1, AllIdleShown DEF orderNow
<1>4. storedNow = [n \in Nodes |-> NoKey] /\ recentNow = {}
  BY <1>1, EmptyShown
<1>5. FreshState'
  BY AllocateFresh
<1>6. /\ storedNow' = [n \in Nodes |-> NoKey] /\ recentNow' = {}
      /\ orderNow' = <<>> /\ scannedNow' = {}
  BY <1>5, FreshShownNext
<1>. QED
  BY <1>2, <1>3, <1>4, <1>6, ShowsNothing DEF SameItems

(* A step of no part of the cache is a stutter.                            *)
LEMMA StutterShows ==
  ASSUME UNCHANGED vars
  PROVE  Shown
<1>. USE DEF vars, items, links, table, call, locals
<1>1. SameItems
  BY DEF SameItems, storedNow, recentNow, Cached, markedRecent
<1>2. SameCalls
  BY DEF SameCalls, wantedNow, foundNow, insertingNow, wantedOf, foundOf, insertingOf
<1>3. scannedNow' = scannedNow
  BY DEF scannedNow, Scanning, scannedTo, Reached, Walk
<1>4. orderNow' = orderNow
  BY DEF orderNow, Unlinking, LruOrder, Walk, Without
<1>. QED
  BY <1>1, <1>2, <1>3, <1>4, ShowsNothing

(* Every step is a step of EvictingCache, or a stutter.                    *)
LEMMA NextShows ==
  ASSUME IInv, IInv', Ended, [Next]_vars
  PROVE  [Abstract!Next]_(Abstract!vars)
BY StepShows, StartShows, ReleaseShows, AllocateShows, StutterShows DEF Next, Shown

-----------------------------------------------------------------------------
(* As long as the pool is not deceived, the cache does what EvictingCache  *)
(* says: lookups, inserts and evictions take effect one at a time, and an  *)
(* eviction passes over recent nodes only (find, insert, purgeOld).        *)
THEOREM SpecImplementsEvictingCache == Spec /\ []PoolUndeceived => ImplementsEvictingCache
<1>1. IInv /\ IInv' /\ Ended /\ [Next]_vars => [Abstract!Next]_(Abstract!vars)
  BY NextShows
<1>2. IInv /\ Ended /\ [Next]_vars => Ended'
  BY NextEnded
<1>. QED
  BY <1>1, <1>2, InitShows, InitEnded, SpecInvariant, PTL
  DEF Spec, ImplementsEvictingCache, Abstract!Spec

(* So it does, whatever the lookups, when one thread inserts.              *)
THEOREM OneInserterImplements == OneInserter => (Spec => ImplementsEvictingCache)
BY SpecImplementsEvictingCache, OneInserterUndeceived, PTL

(* And when several threads insert, while few inserts have begun.          *)
THEOREM FewInsertsImplement == CountedSpec /\ []FewInserts => ImplementsEvictingCache
BY SpecImplementsEvictingCache, CountedIsSpec, FewInsertsUndeceived, PTL
=============================================================================
