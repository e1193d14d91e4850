---------------------- MODULE DeferredLRUSafetyProofs -----------------------
(***************************************************************************)
(* The invariant of DeferredLRUInvariant for the steps on the LRU list and *)
(* so for every step, and the theorems that follow from it: what the cache *)
(* must get right, in every behaviour in which the compare_exchange of the *)
(* pool is not deceived, and so whenever one thread inserts, or few inserts *)
(* have begun.                                                             *)
(***************************************************************************)
EXTENDS DeferredLRUProofs, CountedInserts, FiniteSetTheorems

(* What a step makes of the LRU list: it puts nodes before it, or the      *)
(* consolidating thread takes its node out of it.                          *)
Reordered(t, list) ==
  \E list2, back2 :
    /\ LruIs(list2, back2)'
    /\ \/ list2 = list
       \/ \E front \in Seq(Nodes) : list2 = front \o list
       \/ \E i \in 1 .. Len(list) : /\ i # 1 /\ lru_lock = t /\ node[t] = list[i]
                                   /\ list2 = RemoveAt(list, i)

-----------------------------------------------------------------------------
(* A step on the links of the LRU list leaves every node where it is.      *)
LEMMA NodesStay ==
  ASSUME NodesOK, UNCHANGED <<key, bucket, empty_head, recent_head, recent_next>>,
         SliceHead' = SliceHead, \A n \in Pool : lru_next'[n] = lru_next[n],
         \A u \in Threads : /\ Hand(u)' = Hand(u) /\ Late(u)' = Late(u) /\ Filled(u)' = Filled(u)
                            /\ Marking(u)' = Marking(u) /\ Evicting(u)' = Evicting(u)
  PROVE  NodesOK' /\ Cached' = Cached /\ SliceSet' = SliceSet /\ Pool' = Pool
<1>1. Cached' = Cached
  BY CachedFrame
<1>2. PoolOK' /\ Pool' = Pool
  BY PoolFrame DEF NodesOK
<1>3. OwnersOK'
  BY <1>1, <1>2, OwnersFrame DEF NodesOK
<1>4. ChainsOK'
  BY ChainsFrame DEF NodesOK
<1>5. MarkListsOK' /\ MarksOK' /\ SliceSet' = SliceSet
  BY <1>1, MarksFrame DEF NodesOK
<1>. QED
  BY <1>1, <1>2, <1>3, <1>4, <1>5 DEF NodesOK

(* The lists are whole after a step if the step leaves them whole and each *)
(* thread knows what it needs of them.                                     *)
LEMMA ThreadsStay ==
  ASSUME NEW t \in Threads, Others(t), NEW list, NEW back, NEW taken, ListsAre(list, back, taken),
         NEW list2, NEW back2, NEW taken2, LruIs(list2, back2)', TakenIs(taken2)',
         PlacesOK(Range(list2), Range(taken2))', ThreadOK(t, Range(list2), Range(taken2))',
         recent_next' = recent_next,
         \A u \in Threads : u # t =>
           /\ pc[u] \in FindLocked \cup {"add_to_bucket"} => key'[node[u]] = key[node[u]]
           /\ AdderOK(u, Range(list2), Range(taken2))' /\ PurgerOK(u, Range(list2))'
  PROVE  ListsAre(list2, back2, taken2)'
<1>1. ASSUME NEW u \in Threads, u # t
      PROVE  ThreadOK(u, Range(list2), Range(taken2))'
  <2>1. Still(u) /\ ThreadOK(u, Range(list), Range(taken))
    BY <1>1 DEF Others, ListsAre
  <2>2. FinderOK(u)' /\ InserterOK(u)' /\ PullerOK(u)'
    BY <1>1, <2>1, FinderFrame, InserterFrame, PullerFrame DEF ThreadOK
  <2>. QED
    BY <1>1, <2>2 DEF ThreadOK
<1>. QED
  BY <1>1 DEF ListsAre

(* The nodes that a thread is about to put into the LRU list are not in it *)
(* yet, and no other thread's.                                             *)
LEMMA AdderHolds ==
  ASSUME NEW s \in Threads, NEW list, NEW back, NEW taken, Given(s, list, back, taken),
         NEW t \in Threads, pc[t] \in {"add_first", "add_cas"}, NEW n \in {node[t], prev[t]}
  PROVE  /\ n \in Nodes /\ n \notin Range(list) /\ n \in Cached /\ n \notin Pool
         /\ \A u \in Threads : u # t => n \notin Owned(u)
         /\ lru_lock # t => n \notin Range(taken) /\ n \in Owned(t)
         /\ lru_lock = t => n \in Range(taken) /\ \A u \in Threads : n \notin Owned(u)
<1>. DEFINE L == Range(list)
            K == Range(taken)
<1>1. Sound /\ OwnersOK /\ PlacesOK(L, K) /\ AdderOK(t, L, K)
  BY DEF Given, ListsAre, NodesOK, ThreadOK
<1>2. CASE lru_lock # t
  <2>1. n \in Late(t) /\ n \in Unlinked(t) /\ n \in Owned(t)
    BY <1>1, <1>2 DEF AdderOK, Late, Unlinked, Owned, If, Adding
  <2>2. n \in Cached /\ n \in Nodes /\ n \notin K
    BY <1>1, <2>1, ClaimedNodes DEF OwnersOK, PlacesOK
  <2>. QED
    BY <1>1, <1>2, <2>1, <2>2 DEF OwnersOK, PlacesOK
<1>3. CASE lru_lock = t
  <2>1. n \in K
    BY <1>1, <1>3 DEF AdderOK
  <2>2. n \in Cached /\ n \in Nodes
    BY <1>1, <2>1, ClaimedNodes DEF PlacesOK
  <2>. QED
    BY <1>1, <1>3, <2>1, <2>2 DEF OwnersOK, PlacesOK
<1>. QED
  BY <1>2, <1>3

(* The turn of addSublistToLruHead's loop before its compare_exchange.     *)
LEMMA LinkHeadKeeps ==
  ASSUME NEW t \in Threads, NEW list, NEW back, NEW taken, Given(t, list, back, taken),
         pc[t] \in {"add_first", "add_cas"}, pc' = [pc EXCEPT ![t] = "add_cas"],
         LinkToLruHead(t), lru_prev' = [lru_prev EXCEPT ![node[t]] = HEAD],
         UNCHANGED <<items, recent_next, bucket, lru_lock, empty_head, recent, requests, call, node,
                     prev, freed>>
  PROVE  Kept /\ Reordered(t, list)
<1>. DEFINE L == Range(list)
            K == Range(taken)
            f == node[t]
            l == prev[t]
<1>1. /\ Sound /\ Others(t) /\ NodesOK /\ ListsAre(list, back, taken) /\ PlacesOK(L, K)
      /\ pc \in [Threads -> PCs] /\ ArrayTypes /\ LocalTypes
      /\ LruIs(list, back) /\ TakenIs(taken) /\ \A u \in Threads : ThreadOK(u, L, K)
  BY DEF Given, ListsAre, Sound, ControlTypeOK
<1>2. /\ pc'[t] = "add_cas" /\ next' = [next EXCEPT ![t] = lru_next[HEAD]]
      /\ lru_next' = [lru_next EXCEPT ![l] = lru_next[HEAD]]
  BY <1>1 DEF LinkToLruHead
<1>3. /\ f \in Nodes /\ f \notin L /\ f \notin Pool /\ l \in Nodes /\ l \notin L /\ l \notin Pool
      /\ \A u \in Threads : u # t => f \notin Owned(u) /\ l \notin Owned(u)
      /\ lru_lock # t => f \notin K /\ l \notin K
      /\ lru_lock = t => f \in K /\ l \in K
  BY AdderHolds
<1>4. /\ \A x \in Base : x # l => lru_next'[x] = lru_next[x]
      /\ \A x \in Base : x # f => lru_prev'[x] = lru_prev[x]
      /\ lru_next'[l] = lru_next[HEAD] /\ lru_prev'[f] = HEAD
      /\ next'[t] = lru_next[HEAD] /\ node' = node /\ prev' = prev
  BY <1>1, <1>2, <1>3 DEF ArrayTypes, LocalTypes, Base
<1>5. /\ L \subseteq Nodes /\ K \subseteq Nodes /\ Pool \subseteq Nodes
      /\ lru_next[HEAD] \in L \cup {TAIL}
  <2>1. Pool \subseteq Nodes
    BY <1>1, PathStart, PointersDiffer DEF NodesOK, PoolOK, Pool
  <2>. QED
    BY <1>1, <2>1, LruLinks, TakenLinks
<1>6. /\ \A u \in Threads : SameClaims(u) /\ Owned(u)' = Owned(u)
  <2>1. SameClaims(t)
    BY <1>2, <1>4 DEF SameClaims, Hand, Late, Filled, Marking, Evicting, Unlinked,
       Pending, If,
         Filling, Adding
  <2>2. \A u \in Threads : SameClaims(u)
    BY <1>1, <2>1 DEF Others
  <2>. QED
    BY <2>2 DEF SameClaims, Owned
<1>7. /\ SliceHead' = SliceHead /\ Clearing' = Clearing /\ LastTaken' = LastTaken
      /\ lru_lock # t => Joining' = Joining
      /\ lru_lock = t => LastTaken = l /\ Joining \subseteq {f} /\ Joining' = {f}
                         /\ f = lru_next[TEMP]
  <2>1. CASE lru_lock = t
    <3>1. lru_lock # NULL
      BY <2>1, ApiAssumption
    <3>2. f = lru_next[TEMP]
      BY <1>1, <2>1 DEF ThreadOK, AdderOK
    <3>. QED
      BY <1>2, <1>4, <2>1, <3>1, <3>2 DEF SliceHead, Clearing, LastTaken, Joining,
         Consolidates, If
  <2>2. CASE lru_lock # t
    BY <1>1, <2>2, SameTakenByOthers DEF SameTaken
  <2>. QED
    BY <2>1, <2>2
<1>8. NodesOK' /\ Cached' = Cached /\ SliceSet' = SliceSet /\ Pool' = Pool
  BY <1>1, <1>3, <1>4, <1>5, <1>6, <1>7, NodesFrame DEF items, recent, Base
<1>9. LruIs(list, back)'
  <2>1. /\ \A x \in L \cup {HEAD} : x \in Base /\ x # l
        /\ \A x \in L \cup {TAIL} : x \in Base /\ x # f
    BY <1>3, <1>5, PointersDiffer DEF Base
  <2>. QED
    BY <1>1, <1>4, <1>6, <2>1, LruFrame DEF SameClaims
<1>10. TakenIs(taken)'
  <2>0. K \subseteq Base /\ TEMP \in Base /\ TAIL \in Base /\ l # TEMP /\ f # TEMP /\ f # TAIL
    BY <1>3, <1>5, PointersDiffer DEF Base
  <2>1. CASE lru_lock # t
    BY <1>1, <1>3, <1>4, <1>7, <2>0, <2>1, TakenFrame
  <2>2. CASE lru_lock = t
    <3>1. \A x \in K \cup {TEMP} : TakenNext'[x] = TakenNext[x]
      BY <1>4, <1>7, <2>0, <2>2 DEF TakenNext
    <3>2. TakenPrev[f] = TEMP
      BY <1>1, <1>3, <1>7, <2>0, <2>2, TakenLinks
    <3>3. \A x \in K \cup {TAIL} : TakenPrev'[x] = TakenPrev[x]
      BY <1>4, <1>7, <2>0, <2>2, <3>2 DEF TakenPrev
    <3>4. Distinct(taken, Nodes) /\ IsWhole(TEMP, taken, TAIL, TakenNext, TakenPrev)
      BY <1>1 DEF TakenIs
    <3>5. IsWhole(TEMP, taken, TAIL, TakenNext', TakenPrev')
      BY <3>1, <3>3, <3>4, PointersDiffer, WholeFrame
    <3>. QED
      BY <3>4, <3>5 DEF TakenIs
  <2>. QED
    BY <2>1, <2>2
<1>11. PlacesOK(L, K)'
  BY <1>1, <1>6, <1>7, <1>8, PlacesFrame
<1>12. ThreadOK(t, L, K)'
  <2>1. AdderOK(t, L, K)
    BY <1>1 DEF ThreadOK
  <2>2. lru_next'[TEMP] = lru_next[TEMP]
    BY <1>3, <1>4, PointersDiffer DEF Base
  <2>3. AdderOK(t, L, K)'
    BY <1>2, <1>4, <1>5, <2>1, <2>2 DEF AdderOK, Adding
  <2>4. InserterOK(t)'
    <3>1. Falsely(t)' = Falsely(t)
      BY <1>6 DEF SameClaims, Falsely
    <3>. QED
      BY <1>1, <1>2, <3>1 DEF ThreadOK, InserterOK
  <2>. QED
    BY <1>2, <2>3, <2>4 DEF ThreadOK, FinderOK, PurgerOK, PullerOK, FindLocked
<1>13. ASSUME NEW u \in Threads, u # t
       PROVE  AdderOK(u, L, K)' /\ PurgerOK(u, L)'
  <2>1. Still(u) /\ AdderOK(u, L, K) /\ PurgerOK(u, L)
    BY <1>1, <1>13 DEF Others, ThreadOK
  <2>2. lru_next'[TEMP] = lru_next[TEMP]
    BY <1>3, <1>4, PointersDiffer DEF Base
  <2>3. pc[u] \in {"add_cas", "add_back"} => prev[u] \in Nodes /\ prev[u] # l
    <3>1. CASE pc[u] = "add_back"
      BY <1>3, <1>5, <2>1, <3>1 DEF AdderOK
    <3>2. CASE pc[u] = "add_cas"
      <4>0. prev[u] \in {node[u], prev[u]} /\ pc[u] \in {"add_first", "add_cas"}
        BY <3>2
      <4>1. /\ prev[u] \in Nodes
            /\ lru_lock # u => prev[u] \in Owned(u)
            /\ lru_lock = u => prev[u] \in K
        BY <4>0, AdderHolds
      <4>. QED
        BY <1>3, <1>13, <4>1
    <3>. QED
      BY <3>1, <3>2
  <2>4. AdderOK(u, L, K)'
    <3>1. pc[u] \in {"add_cas", "add_back"} => lru_next'[prev[u]] = lru_next[prev[u]]
      BY <1>4, <2>3 DEF Base
    <3>2. pc[u] = "add_cas" => lru_prev'[node[u]] = lru_prev[node[u]] \/ lru_prev'[node[u]] = HEAD
      <4>0. node[u] \in {node[u], prev[u]}
        OBVIOUS
      <4>1. pc[u] = "add_cas" => node[u] \in Nodes
        BY <4>0, AdderHolds
      <4>. QED
        BY <1>4, <4>1 DEF Base
    <3>3. pc[u] = "add_back" => lru_prev'[next[u]] = lru_prev[next[u]]
      <4>1. pc[u] = "add_back" => next[u] \in L \cup {TAIL}
        BY <2>1 DEF AdderOK
      <4>. QED
        BY <1>3, <1>4, <1>5, <4>1, PointersDiffer DEF Base
    <3>. QED
      BY <1>6, <2>1, <2>2, <3>1, <3>2, <3>3 DEF AdderOK, Still
  <2>5. PurgerOK(u, L)'
    <3>1. pc[u] \in {"purge_bucket", "purge_unlink"} => lru_prev'[node[u]] = lru_prev[node[u]]
      BY <1>3, <1>4, <1>5, <2>1 DEF PurgerOK, Base
    <3>2. pc[u] = "dispose" => lru_next'[node[u]] = lru_next[node[u]]
      <4>1. pc[u] = "dispose" => node[u] \in Owned(u)
        BY DEF Owned, Hand, If
      <4>. QED
        BY <1>3, <1>4, <1>13, <4>1, ClaimedNodes DEF Base
    <3>. QED
      BY <2>1, <3>1, <3>2, PurgerFrame DEF items
  <2>. QED
    BY <2>4, <2>5
<1>14. ListsAre(list, back, taken)'
  BY <1>1, <1>9, <1>10, <1>11, <1>12, <1>13, ThreadsStay DEF items
<1>15. ArrayTypes'
  BY <1>1, <1>2, <1>3, <1>5 DEF ArrayTypes, items, recent, requests, Base
<1>16. LocalTypes'
  BY <1>1, <1>2, <1>4, <1>5 DEF LocalTypes
<1>9a. Reordered(t, list)
  BY <1>9 DEF Reordered
<1>. QED
  BY <1>9a, <1>8, <1>14, <1>15, <1>16 DEF Kept, ListsOK

(* addSublistToLruHead links its nodes to the first one of the list.       *)
LEMMA AddFirstKeeps ==
  ASSUME NEW t \in Threads, NEW list, NEW back, NEW taken, Given(t, list, back, taken),
         AddFirst(t)
  PROVE  Kept /\ Reordered(t, list)
<1>1. /\ pc[t] = "add_first" /\ pc' = [pc EXCEPT ![t] = "add_cas"] /\ LinkToLruHead(t)
      /\ lru_prev' = [lru_prev EXCEPT ![node[t]] = HEAD]
      /\ UNCHANGED <<items, recent_next, bucket, lru_lock, empty_head, recent, requests, call, node,
                     prev, freed>>
  BY DEF AddFirst, Goto, table
<1>. QED
  BY <1>1, LinkHeadKeeps

(* When its compare_exchange fails it does so again.                       *)
LEMMA AddCasFailsKeeps ==
  ASSUME NEW t \in Threads, NEW list, NEW back, NEW taken, Given(t, list, back, taken),
         AddCasFails(t)
  PROVE  Kept /\ Reordered(t, list)
<1>1. /\ pc[t] = "add_cas" /\ pc' = [pc EXCEPT ![t] = "add_cas"] /\ LinkToLruHead(t)
      /\ lru_prev' = lru_prev
      /\ UNCHANGED <<items, recent_next, bucket, lru_lock, empty_head, recent, requests, call, node,
                     prev, freed>>
  BY DEF AddCasFails, Goto, table
<1>2. lru_prev[node[t]] = HEAD /\ ArrayTypes
  BY <1>1 DEF Given, ListsAre, ThreadOK, AdderOK, Sound
<1>3. lru_prev' = [lru_prev EXCEPT ![node[t]] = HEAD]
  BY <1>1, <1>2 DEF ArrayTypes
<1>. QED
  BY <1>1, <1>3, LinkHeadKeeps

(* The back link of the node that was first is stored at last.             *)
LEMMA AddBackKeeps ==
  ASSUME NEW t \in Threads, NEW list, NEW back, NEW taken, Given(t, list, back, taken),
         AddBack(t)
  PROVE  Kept
<1>. DEFINE L == Range(list)
            K == Range(taken)
            l == prev[t]
            x == next[t]
<1>1. /\ Sound /\ Others(t) /\ NodesOK /\ ListsAre(list, back, taken) /\ PlacesOK(L, K)
      /\ pc \in [Threads -> PCs] /\ ArrayTypes /\ LocalTypes /\ OwnersOK
      /\ LruIs(list, back) /\ TakenIs(taken) /\ \A u \in Threads : ThreadOK(u, L, K)
  BY DEF Given, ListsAre, Sound, ControlTypeOK, NodesOK
<1>2. /\ pc[t] = "add_back" /\ pc'[t] = IF lru_lock = t THEN "pull_done" ELSE "ins_done"
      /\ lru_prev' = [lru_prev EXCEPT ![x] = l] /\ next' = [next EXCEPT ![t] = NULL]
      /\ UNCHANGED <<items, lru_next, recent_next, bucket, lru_lock, empty_head, recent, requests,
                     call, node, prev, freed>>
  BY <1>1 DEF AddBack, Goto, table
<1>3. /\ node[t] \in L /\ l \in L /\ x \in L \cup {TAIL} /\ lru_next[l] = x /\ lru_prev[x] = HEAD
      /\ lru_lock # t => l = node[t] /\ l \in Owned(t)
      /\ lru_lock = t => \A u \in Threads : l \notin Owned(u)
  <2>1. AdderOK(t, L, K)
    BY <1>1 DEF ThreadOK
  <2>2. lru_lock # t => node[t] \in Owned(t)
    BY <1>2 DEF Owned, Late, If, Adding
  <2>. QED
    BY <1>2, <2>1, <2>2 DEF AdderOK, Adding
<1>4. /\ L \subseteq Nodes /\ K \subseteq Nodes /\ back[x] = l
      /\ \A y \in L \cup {TAIL} : lru_next[back[y]] = y
  BY <1>1, <1>3, LruLinks, TakenLinks
<1>5. x \in Base /\ (\A y \in Base : y # x => lru_prev'[y] = lru_prev[y]) /\ lru_prev'[x] = l
  BY <1>1, <1>2, <1>3, <1>4 DEF ArrayTypes, Base
<1>6. /\ Pending(t) = {<<l, x>>} /\ Hand(t)' = Hand(t) /\ Late(t)' = Late(t)
      /\ Filled(t)' = Filled(t) /\ Marking(t)' = Marking(t) /\ Evicting(t)' = Evicting(t)
      /\ Unlinked(t)' = Unlinked(t)
  BY <1>2 DEF Hand, Late, Filled, Marking, Evicting, Unlinked, Pending, If, Filling, Adding
<1>7. /\ \A u \in Threads : /\ Hand(u)' = Hand(u) /\ Late(u)' = Late(u) /\ Filled(u)' = Filled(u)
                            /\ Marking(u)' = Marking(u) /\ Evicting(u)' = Evicting(u)
                            /\ Unlinked(u)' = Unlinked(u) /\ Owned(u)' = Owned(u)
      /\ \A u \in Threads : u # t => Pending(u)' = Pending(u)
  BY <1>1, <1>6 DEF Others, SameClaims, Owned
<1>8. SameTaken
  <2>1. CASE lru_lock = t
    <3>1. lru_lock # NULL
      BY <2>1, ApiAssumption
    <3>. QED
      BY <1>2, <2>1, <3>1 DEF SameTaken, SliceHead, Clearing, LastTaken, Joining,
         Consolidates, If
  <2>2. CASE lru_lock # t
    BY <1>1, <1>2, <2>2, SameTakenByOthers
  <2>. QED
    BY <2>1, <2>2
<1>9. NodesOK' /\ Cached' = Cached /\ SliceSet' = SliceSet
  BY <1>1, <1>2, <1>7, <1>8, NodesStay DEF items, recent, SameTaken
<1>10. LruIs(list, back)'
  <2>1. Distinct(list, Nodes) /\ IsWhole(HEAD, list, TAIL, lru_next, back)
    BY <1>1 DEF LruIs
  <2>2. ASSUME NEW m \in L \cup {TAIL}
        PROVE  \/ lru_prev'[m] = back[m]
               \/ lru_prev'[m] = HEAD /\ \E u \in Threads : <<back[m], m>> \in Pending(u)'
    <3>1. CASE m = x
      BY <1>4, <1>5, <3>1
    <3>2. CASE m # x
      <4>1. lru_prev'[m] = lru_prev[m]
        BY <1>4, <1>5, <3>2 DEF Base
      <4>2. <<back[m], m>> \notin Pending(t)
        BY <1>6, <3>2
      <4>. QED
        BY <1>1, <1>7, <4>1, <4>2 DEF LruIs
    <3>. QED
      BY <3>1, <3>2
  <2>. QED
    BY <1>2, <2>1, <2>2 DEF LruIs
<1>11. \A n \in Nodes : n \notin L => lru_prev'[n] = lru_prev[n]
  BY <1>3, <1>5, PointersDiffer DEF Base
<1>12. \A n \in K : n \notin L
  BY <1>1, <1>4 DEF PlacesOK
<1>13. TakenIs(taken)'
  BY <1>1, <1>2, <1>4, <1>8, <1>11, <1>12, TakenFrame DEF SameTaken
<1>14. PlacesOK(L, K)'
  BY <1>1, <1>7, <1>8, <1>9 DEF PlacesOK, SameTaken
<1>15. ThreadOK(t, L, K)'
  <2>1. Falsely(t)' = Falsely(t)
    BY <1>6 DEF Falsely
  <2>2. AdderOK(t, L, K)'
    BY <1>2 DEF AdderOK, Adding
  <2>3. InserterOK(t)'
    BY <1>1, <1>2, <2>1 DEF ThreadOK, InserterOK
  <2>. QED
    BY <1>2, <2>2, <2>3 DEF ThreadOK, FinderOK, PurgerOK, PullerOK, FindLocked
<1>16. ASSUME NEW u \in Threads, u # t
       PROVE  AdderOK(u, L, K)' /\ PurgerOK(u, L)'
  <2>1. Still(u) /\ AdderOK(u, L, K) /\ PurgerOK(u, L)
    BY <1>1, <1>16 DEF Others, ThreadOK
  <2>2. pc[u] = "add_cas" => lru_prev'[node[u]] = lru_prev[node[u]]
    <3>1. node[u] \in {node[u], prev[u]}
      OBVIOUS
    <3>2. pc[u] = "add_cas" => node[u] \in Nodes /\ node[u] \notin L
      BY <3>1, AdderHolds
    <3>. QED
      BY <1>11, <3>2
  <2>3. pc[u] = "add_back" => lru_prev'[next[u]] = lru_prev[next[u]]
    <3>1. SUFFICES ASSUME pc[u] = "add_back" PROVE next[u] \in Base /\ next[u] # x
      BY <1>5
    <3>2. prev[u] \in L /\ next[u] \in L \cup {TAIL} /\ lru_next[prev[u]] = next[u]
      BY <2>1, <3>1 DEF AdderOK
    <3>3. back[next[u]] = prev[u]
      BY <1>1, <3>2, LruLinks
    <3>4. prev[u] # l
      <4>1. lru_lock # u => prev[u] \in Owned(u)
        <5>1. lru_lock # u => node[u] \in Owned(u)
          BY <3>1 DEF Owned, Late, If, Adding
        <5>. QED
          BY <2>1, <3>1, <5>1 DEF AdderOK, Adding
      <4>2. lru_lock = u => prev[u] \notin Owned(t)
        BY <2>1, <3>1 DEF AdderOK
      <4>3. CASE lru_lock = u
        BY <1>3, <1>16, <4>2, <4>3
      <4>4. CASE lru_lock # u
        BY <1>1, <1>3, <1>16, <4>1, <4>4 DEF OwnersOK
      <4>. QED
        BY <4>3, <4>4
    <3>. QED
      BY <1>4, <3>2, <3>3, <3>4 DEF Base
  <2>4. AdderOK(u, L, K)'
    BY <1>2, <1>7, <2>1, <2>2, <2>3 DEF AdderOK, Still
  <2>5. pc[u] \in {"purge_bucket", "purge_unlink"} => lru_prev'[node[u]] = lru_prev[node[u]]
    <3>1. SUFFICES ASSUME pc[u] \in {"purge_bucket", "purge_unlink"}
                   PROVE  node[u] \in Base /\ node[u] # x
      BY <1>5
    <3>2. node[u] \in L /\ lru_prev[node[u]] \in L
      BY <2>1, <3>1 DEF PurgerOK
    <3>. QED
      BY <1>3, <1>4, <3>2, PointersDiffer DEF Base
  <2>6. PurgerOK(u, L)'
    BY <1>2, <2>1, <2>5, PurgerFrame DEF items
  <2>. QED
    BY <2>4, <2>6
<1>17. ListsAre(list, back, taken)'
  BY <1>1, <1>2, <1>10, <1>13, <1>14, <1>15, <1>16, ThreadsStay DEF items
<1>18. ArrayTypes'
  BY <1>1, <1>2, <1>3, <1>4 DEF ArrayTypes, items, recent, requests, Base
<1>19. LocalTypes'
  BY <1>1, <1>2 DEF LocalTypes
<1>. QED
  BY <1>9, <1>17, <1>18, <1>19 DEF Kept, ListsOK

(* A step on the next link of a node in neither list nor in the pool, by   *)
(* the consolidating thread.                                               *)
LEMMA LooseLinkKeeps ==
  ASSUME NEW t \in Threads, NEW list, NEW back, NEW taken, Given(t, list, back, taken),
         lru_lock = t, lru_lock' = t, SameTaken, SameClaims(t), LastTaken = TEMP,
         NEW n, n \notin Range(list), n \notin Pool, n # HEAD,
         \A u \in Threads : u # t => n \notin Owned(u),
         \A x \in Base : x # n => lru_next'[x] = lru_next[x], lru_prev' = lru_prev,
         UNCHANGED <<items, recent_next, bucket, empty_head, recent_head>>,
         ThreadOK(t, Range(list), Range(taken))'
  PROVE  NodesOK' /\ ListsOK' /\ Reordered(t, list)
<1>. DEFINE L == Range(list)
            K == Range(taken)
<1>1. /\ Sound /\ Others(t) /\ NodesOK /\ ListsAre(list, back, taken) /\ PlacesOK(L, K)
      /\ LruIs(list, back) /\ TakenIs(taken) /\ \A u \in Threads : ThreadOK(u, L, K)
  BY DEF Given, ListsAre
<1>2. \A u \in Threads : SameClaims(u)
  BY <1>1 DEF Others
<1>3. L \subseteq Nodes /\ K = {} /\ Pool \subseteq Nodes
  <2>1. Pool \subseteq Nodes
    BY <1>1, PathStart, PointersDiffer DEF NodesOK, PoolOK, Pool
  <2>. QED
    BY <1>1, <2>1, LruLinks, TakenLinks
<1>4. NodesOK' /\ Cached' = Cached /\ SliceSet' = SliceSet
  BY <1>1, <1>2, <1>3, NodesFrame DEF items, SameTaken, Base
<1>5. LruIs(list, back)'
  <2>1. \A x \in L \cup {HEAD} : x \in Base /\ x # n
    BY <1>3 DEF Base
  <2>. QED
    BY <1>1, <1>2, <2>1, LruFrame DEF SameClaims
<1>6. TakenIs(taken)'
  BY <1>1, <1>3, TakenFrame DEF SameTaken
<1>7. PlacesOK(L, K)'
  BY <1>1, <1>2, <1>4, PlacesFrame DEF SameTaken
<1>8. ASSUME NEW u \in Threads, u # t
      PROVE  AdderOK(u, L, K)' /\ PurgerOK(u, L)'
  <2>1. Still(u) /\ AdderOK(u, L, K) /\ PurgerOK(u, L) /\ lru_lock # u
    BY <1>1, <1>8 DEF Others, ThreadOK
  <2>2. pc[u] \notin Purging
    BY <1>1, <2>1 DEF Sound, LockDiscipline, Consolidating
  <2>3. pc[u] \in {"add_cas", "add_back"} => prev[u] \in Base /\ prev[u] # n
    <3>1. pc[u] = "add_back" => prev[u] \in L
      BY <2>1 DEF AdderOK
    <3>2. prev[u] \in {node[u], prev[u]}
      OBVIOUS
    <3>3. pc[u] = "add_cas" => prev[u] \in Nodes /\ prev[u] \in Owned(u)
      BY <2>1, <3>2, AdderHolds
    <3>. QED
      BY <1>3, <1>8, <3>1, <3>3 DEF Base
  <2>4. AdderOK(u, L, K)'
    BY <2>1, <2>3 DEF AdderOK, Still
  <2>5. PurgerOK(u, L)'
    BY <2>1, <2>2 DEF PurgerOK, Still, Purging
  <2>. QED
    BY <2>4, <2>5
<1>9. ListsAre(list, back, taken)'
  BY <1>1, <1>5, <1>6, <1>7, <1>8, ThreadsStay DEF items
<1>. QED
  BY <1>4, <1>5, <1>9 DEF ListsOK, Reordered

(* disposeNode links its node to the pool's head as it is now.             *)
LEMMA DisposeCasFailsKeeps ==
  ASSUME NEW t \in Threads, NEW list, NEW back, NEW taken, Given(t, list, back, taken),
         DisposeCasFails(t)
  PROVE  Kept /\ Reordered(t, list)
<1>. DEFINE L == Range(list)
            K == Range(taken)
<1>1. /\ Sound /\ Others(t) /\ NodesOK /\ ListsAre(list, back, taken) /\ PlacesOK(L, K)
      /\ pc \in [Threads -> PCs] /\ ArrayTypes /\ LocalTypes /\ OwnersOK
      /\ ThreadOK(t, L, K)
  BY DEF Given, ListsAre, Sound, ControlTypeOK, NodesOK
<1>2. /\ pc[t] = "dispose" /\ pc'[t] = "dispose" /\ lru_lock' = lru_lock
      /\ next' = [next EXCEPT ![t] = empty_head]
      /\ lru_next' = [lru_next EXCEPT ![node[t]] = empty_head] /\ lru_prev' = lru_prev
      /\ UNCHANGED <<items, recent_next, bucket, empty_head, recent, requests, node, prev, freed>>
  BY <1>1 DEF DisposeCasFails, Goto, table
<1>3. /\ SameTaken /\ lru_lock = t /\ LastTaken = TEMP
  BY <1>1, <1>2, SameTakenByPurger DEF Purging
<1>4. SameClaims(t)
  BY <1>2 DEF SameClaims, Hand, Late, Filled, Marking, Evicting, Unlinked, Pending, If,
     Filling,
       Adding
<1>5. node[t] \in Hand(t) /\ node[t] \in Owned(t)
  BY <1>2 DEF Hand, If, Owned
<1>6. /\ node[t] \in Nodes /\ node[t] \notin Cached /\ node[t] \notin Pool
      /\ \A u \in Threads : u # t => node[t] \notin Owned(u)
  BY <1>1, <1>5 DEF OwnersOK
<1>7. node[t] \notin L
  <2>1. \A u \in Threads : node[t] \notin Evicting(u)
    <3>1. Evicting(t) = {}
      BY <1>2 DEF Evicting, If
    <3>. QED
      BY <1>6, <3>1, ClaimFacts DEF Owned
  <2>. QED
    BY <1>1, <1>6, <2>1 DEF PlacesOK
<1>8. /\ \A x \in Base : x # node[t] => lru_next'[x] = lru_next[x]
      /\ lru_next'[node[t]] = empty_head /\ next'[t] = empty_head
      /\ empty_head \in Nodes \cup {NULL}
  BY <1>1, <1>2, <1>6 DEF ArrayTypes, LocalTypes, Base
<1>9. ThreadOK(t, L, K)'
  <2>1. PurgerOK(t, L)
    BY <1>1 DEF ThreadOK
  <2>2. PurgerOK(t, L)'
    BY <1>2, <1>8, <2>1 DEF PurgerOK
  <2>3. AdderOK(t, L, K)' /\ InserterOK(t)'
    BY <1>2 DEF AdderOK, InserterOK, Falsely, Filled, Late, If, Adding
  <2>. QED
    BY <1>2, <2>2, <2>3 DEF ThreadOK, FinderOK, PullerOK, FindLocked
<1>10. NodesOK' /\ ListsOK' /\ Reordered(t, list)
  BY <1>2, <1>3, <1>4, <1>6, <1>7, <1>8, <1>9, LooseLinkKeeps, PointersDiffer DEF recent
<1>11. ArrayTypes' /\ LocalTypes'
  BY <1>1, <1>2, <1>8 DEF ArrayTypes, LocalTypes, items, recent, requests
<1>. QED
  BY <1>10, <1>11 DEF Kept

(* pullRecent returns, and its stack is gone.                              *)
LEMMA PullLowersFlagKeeps ==
  ASSUME NEW t \in Threads, NEW list, NEW back, NEW taken, Given(t, list, back, taken),
         PullLowersFlag(t)
  PROVE  Kept /\ Reordered(t, list)
<1>. DEFINE L == Range(list)
            K == Range(taken)
<1>1. /\ Sound /\ Others(t) /\ NodesOK /\ ListsAre(list, back, taken)
      /\ pc \in [Threads -> PCs] /\ ArrayTypes /\ LocalTypes /\ OwnersOK /\ LruIs(list, back)
  BY DEF Given, ListsAre, Sound, ControlTypeOK, NodesOK
<1>2. /\ pc[t] = "pull_done" /\ pc'[t] = "unlock" /\ lru_lock' = lru_lock
      /\ lru_next' = [lru_next EXCEPT ![TEMP] = NULL] /\ lru_prev' = lru_prev
      /\ node' = [node EXCEPT ![t] = NULL] /\ prev' = [prev EXCEPT ![t] = NULL]
      /\ pull_request' = FALSE
      /\ UNCHANGED <<items, recent_next, bucket, empty_head, recent, purge_request, next, freed>>
  BY <1>1 DEF PullLowersFlag, Goto, table
<1>3. lru_lock = t /\ lru_lock # NULL
  BY <1>1, <1>2, PullerHolds DEF Consolidating, Pulling
<1>4. SameTaken /\ LastTaken = TEMP
  BY <1>2, <1>3 DEF SameTaken, SliceHead, Clearing, LastTaken, Joining, Consolidates, If
<1>5. SameClaims(t)
  BY <1>2 DEF SameClaims, Hand, Late, Filled, Marking, Evicting, Unlinked, Pending, If,
     Filling,
       Adding
<1>6. TEMP \notin L /\ TEMP \notin Pool /\ TEMP # HEAD /\ \A u \in Threads : TEMP \notin Owned(u)
  <2>1. L \subseteq Nodes /\ Pool \subseteq Nodes /\ \A u \in Threads : Owned(u) \subseteq Nodes
    BY <1>1, LruLinks, ClaimedNodes, PathStart, PointersDiffer DEF NodesOK, PoolOK, Pool
  <2>. QED
    BY <2>1, PointersDiffer
<1>7. \A x \in Base : x # TEMP => lru_next'[x] = lru_next[x]
  BY <1>1, <1>2 DEF ArrayTypes
<1>8. ThreadOK(t, L, K)'
  BY <1>2 DEF ThreadOK, FinderOK, InserterOK, AdderOK, PurgerOK, PullerOK, Falsely, Filled,
       Late, If, Adding, FindLocked
<1>9. NodesOK' /\ ListsOK' /\ Reordered(t, list)
  BY <1>2, <1>3, <1>4, <1>5, <1>6, <1>7, <1>8, LooseLinkKeeps DEF recent
<1>10. ArrayTypes' /\ LocalTypes'
  BY <1>1, <1>2 DEF ArrayTypes, LocalTypes, items, recent
<1>. QED
  BY <1>9, <1>10 DEF Kept

(* The compare_exchange of addSublistToLruHead puts a list of nodes, front, *)
(* before the others; the back link of the node that was first is pending. *)
LEMMA AddCasJoins ==
  ASSUME NEW t \in Threads, NEW list, NEW back, NEW taken, Given(t, list, back, taken),
         AddCas(t), NEW front, Distinct(front, Nodes), front # <<>>,
         Range(front) \cap Range(list) = {},
         NEW ahead, NEW behind, IsWhole(TEMP, front, TAIL, ahead, behind),
         ahead[TEMP] = node[t], behind[TAIL] = prev[t],
         \A x \in Range(front) : x # prev[t] => lru_next[x] = ahead[x],
         \A x \in Range(front) : x # node[t] => lru_prev[x] = behind[x]
  PROVE  \E back2 : LruIs(front \o list, back2)'
<1>. DEFINE L == Range(list)
            S == Range(front)
            f == node[t]
            l == prev[t]
            q == next[t]
<1>0. PICK back2 : back2 = [x \in Base |-> IF x = q THEN l ELSE IF x = f THEN HEAD
                                          ELSE IF x \in S THEN behind[x] ELSE back[x]]
  OBVIOUS
<1>1. /\ Sound /\ Others(t) /\ LruIs(list, back) /\ ThreadOK(t, L, Range(taken))
      /\ pc \in [Threads -> PCs] /\ ArrayTypes
  BY DEF Given, ListsAre, Sound, ControlTypeOK
<1>2. /\ pc[t] = "add_cas" /\ pc'[t] = "add_back" /\ lru_next[HEAD] = q
      /\ lru_next' = [lru_next EXCEPT ![HEAD] = f] /\ lru_prev' = lru_prev
      /\ UNCHANGED <<node, prev, next>>
  BY <1>1 DEF AddCas, Goto, locals
<1>3. lru_next[l] = q /\ lru_prev[f] = HEAD
  BY <1>1, <1>2 DEF ThreadOK, AdderOK
<1>4. /\ Distinct(list, Nodes) /\ IsWhole(HEAD, list, TAIL, lru_next, back)
      /\ L \subseteq Nodes /\ S \subseteq Nodes /\ q \in L \cup {TAIL} /\ back[q] = HEAD
      /\ \A x \in L \cup {TAIL} : lru_prev[x] = HEAD \/ lru_prev[x] = back[x]
  <2>1. S \subseteq Nodes
    BY DistinctIn
  <2>2. L \subseteq Nodes /\ q \in L \cup {TAIL} /\ back[q] = HEAD
        /\ \A x \in L \cup {TAIL} : lru_prev[x] = HEAD \/ lru_prev[x] = back[x]
    BY <1>1, <1>2, LruLinks
  <2>. QED
    BY <1>1, <2>1, <2>2 DEF LruIs
<1>5. f \in S /\ l \in S
  <2>1. /\ Spot(TEMP, front, TAIL, 0) = TEMP /\ Spot(TEMP, front, TAIL, 1) = front[1]
        /\ Spot(TEMP, front, TAIL, Len(front)) = front[Len(front)]
        /\ Spot(TEMP, front, TAIL, Len(front) + 1) = TAIL
        /\ 0 \in 0 .. Len(front) /\ Len(front) \in 0 .. Len(front)
        /\ 1 \in 1 .. Len(front) /\ Len(front) \in 1 .. Len(front)
    <3>1. front \in Seq(Nodes) /\ Len(front) \in Nat /\ Len(front) >= 1
      BY DistinctIn, EmptySeq
    <3>. QED
      BY <3>1 DEF Spot
  <2>2. ahead[TEMP] = front[1] /\ behind[TAIL] = front[Len(front)]
    <3>1. /\ ahead[Spot(TEMP, front, TAIL, 0)] = Spot(TEMP, front, TAIL, 0 + 1)
          /\ behind[Spot(TEMP, front, TAIL, Len(front) + 1)] = Spot(TEMP, front, TAIL, Len(front))
      BY <2>1 DEF IsWhole
    <3>. QED
      BY <2>1, <3>1
  <2>3. front[1] \in S /\ front[Len(front)] \in S
    BY <2>1, DistinctIn
  <2>. QED
    BY <2>2, <2>3
<1>6. /\ \A x \in Base : x # HEAD => lru_next'[x] = lru_next[x]
      /\ lru_next'[HEAD] = f
  BY <1>1, <1>2 DEF ArrayTypes, Base
<1>7. S \subseteq Base /\ L \subseteq Base /\ TAIL \in Base /\ HEAD \notin S /\ HEAD \notin L
      /\ TAIL \notin S /\ q \notin S /\ q \in Base
  BY <1>4, PointersDiffer DEF Base
<1>8. /\ back2[q] = l /\ back2[f] = HEAD
      /\ \A x \in S : x # f => back2[x] = behind[x]
      /\ \A x \in L \cup {TAIL} : x # q => back2[x] = back[x]
  <2>1. back2[q] = l /\ back2[f] = HEAD
    BY <1>0, <1>5, <1>7
  <2>2. \A x \in S : x # f => back2[x] = behind[x]
    BY <1>0, <1>7
  <2>3. \A x \in L \cup {TAIL} : x # q => back2[x] = back[x]
    BY <1>0, <1>4, <1>5, <1>7
  <2>. QED
    BY <2>1, <2>2, <2>3
<1>9. IsWhole(HEAD, front \o list, TAIL, lru_next', back2)
  <2>1. lru_next'[HEAD] = f /\ lru_next'[l] = q
    BY <1>3, <1>5, <1>6, <1>7
  <2>2. \A x \in S : x # l => lru_next'[x] = ahead[x]
    BY <1>6, <1>7
  <2>3. \A x \in L : lru_next'[x] = lru_next[x]
    BY <1>6, <1>7
  <2>4. HEAD \notin Nodes /\ TAIL \notin Nodes
    BY PointersDiffer
  <2>5. /\ lru_next'[HEAD] = ahead[TEMP] /\ lru_next'[behind[TAIL]] = lru_next[HEAD]
        /\ \A x \in Range(front) : x # behind[TAIL] => lru_next'[x] = ahead[x]
        /\ back2[ahead[TEMP]] = HEAD /\ back2[lru_next[HEAD]] = behind[TAIL]
        /\ \A x \in Range(front) : x # ahead[TEMP] => back2[x] = behind[x]
        /\ \A x \in Range(list) \cup {TAIL} : x # lru_next[HEAD] => back2[x] = back[x]
    BY <1>2, <1>8, <2>1, <2>2
  <2>. QED
    BY <1>4, <2>3, <2>4, <2>5, WholeJoin
<1>10. Distinct(front \o list, Nodes) /\ Range(front \o list) = S \cup L
  BY <1>4, ConcatDistinct
<1>11. /\ \A u \in Threads : u # t => Pending(u)' = Pending(u)
       /\ Pending(t) = {} /\ Pending(t)' = {<<l, q>>}
  BY <1>1, <1>2 DEF Others, SameClaims, Pending, If
<1>12. ASSUME NEW m \in Range(front \o list) \cup {TAIL}
       PROVE  \/ lru_prev'[m] = back2[m]
              \/ lru_prev'[m] = HEAD /\ \E u \in Threads : <<back2[m], m>> \in Pending(u)'
  <2>1. CASE m = q
    <3>1. lru_prev[q] = HEAD
      BY <1>4
    <3>. QED
      BY <1>2, <1>8, <1>11, <2>1, <3>1
  <2>2. CASE m \in S /\ m = f
    BY <1>2, <1>3, <1>8, <2>2
  <2>3. CASE m \in S /\ m # f
    BY <1>2, <1>8, <2>3
  <2>4. CASE m \in L \cup {TAIL} /\ m # q
    <3>1. back2[m] = back[m]
      BY <1>8, <2>4
    <3>. QED
      BY <1>1, <1>2, <1>11, <2>4, <3>1 DEF LruIs
  <2>. QED
    BY <1>10, <2>1, <2>2, <2>3, <2>4
<1>13. LruIs(front \o list, back2)'
  BY <1>9, <1>10, <1>12 DEF LruIs
<1>. QED
  BY <1>13

(* What the others know stays true.                                        *)
LEMMA AddCasOthers ==
  ASSUME NEW t \in Threads, NEW list, NEW back, NEW taken, Given(t, list, back, taken),
         AddCas(t), NEW L2, Range(list) \subseteq L2, NEW K2, lru_lock # t => K2 = Range(taken),
         \A v \in Threads : Owned(v)' = Owned(v), NEW u \in Threads, u # t
  PROVE  AdderOK(u, L2, K2)' /\ PurgerOK(u, L2)'
<1>. DEFINE L == Range(list)
            K == Range(taken)
<1>1. /\ Sound /\ Others(t) /\ ListsAre(list, back, taken) /\ ArrayTypes
      /\ L \subseteq Nodes
  BY ClaimedNodes DEF Given, Sound
<1>2. /\ lru_next' = [lru_next EXCEPT ![HEAD] = node[t]] /\ lru_prev' = lru_prev /\ key' = key
      /\ pc[t] = "add_cas"
  BY DEF AddCas, Goto, items
<1>3. \A x \in Base : x # HEAD => lru_next'[x] = lru_next[x]
  BY <1>1, <1>2 DEF ArrayTypes
<1>4. Still(u) /\ AdderOK(u, L, K) /\ PurgerOK(u, L)
  BY <1>1 DEF Others, ListsAre, ThreadOK
<1>5. pc[u] \in {"add_cas", "add_back"} => prev[u] \in Nodes
  <2>1. prev[u] \in {node[u], prev[u]}
    OBVIOUS
  <2>2. pc[u] = "add_cas" => prev[u] \in Nodes
    BY <2>1, AdderHolds
  <2>. QED
    BY <1>1, <1>4, <2>2 DEF AdderOK
<1>6. lru_next'[TEMP] = lru_next[TEMP]
  BY <1>3, PointersDiffer DEF Base
<1>7. pc[u] \in {"add_cas", "add_back"} => lru_next'[prev[u]] = lru_next[prev[u]]
  BY <1>3, <1>5, PointersDiffer DEF Base
<1>8. lru_lock = u => K2 = K
  OBVIOUS
<1>9. AdderOK(u, L2, K2)'
  BY <1>2, <1>4, <1>6, <1>7, <1>8 DEF AdderOK, Still
<1>10. PurgerOK(u, L2)'
  <2>1. pc[u] = "dispose" => node[u] \in Owned(u)
    BY DEF Owned, Hand, If
  <2>2. pc[u] = "dispose" => node[u] \in Nodes
    BY <2>1, ClaimedNodes
  <2>3. pc[u] = "dispose" => lru_next'[node[u]] = lru_next[node[u]]
    BY <1>3, <2>2, PointersDiffer DEF Base
  <2>. QED
    BY <1>2, <1>4, <2>3, PurgerFrame
<1>. QED
  BY <1>9, <1>10

(* The compare_exchange succeeds: the nodes are in the LRU list.           *)
LEMMA AddCasKeeps ==
  ASSUME NEW t \in Threads, NEW list, NEW back, NEW taken, Given(t, list, back, taken),
         AddCas(t)
  PROVE  Kept /\ Reordered(t, list)
<1>. DEFINE L == Range(list)
            K == Range(taken)
            f == node[t]
            l == prev[t]
<1>1. /\ Sound /\ Others(t) /\ NodesOK /\ ListsAre(list, back, taken) /\ PlacesOK(L, K)
      /\ pc \in [Threads -> PCs] /\ ArrayTypes /\ LocalTypes /\ OwnersOK
      /\ LruIs(list, back) /\ TakenIs(taken) /\ ThreadOK(t, L, K)
  BY DEF Given, ListsAre, Sound, ControlTypeOK, NodesOK
<1>2. /\ pc[t] = "add_cas" /\ pc'[t] = "add_back" /\ lru_next[HEAD] = next[t]
      /\ lru_next' = [lru_next EXCEPT ![HEAD] = f] /\ lru_prev' = lru_prev
      /\ UNCHANGED <<items, recent_next, bucket, lru_lock, empty_head, recent, requests, node, prev,
                     next, freed>>
  BY <1>1 DEF AddCas, Goto, locals, table
<1>3. /\ f \in Nodes /\ f \notin L /\ l \in Nodes /\ l \notin L
      /\ f \in Cached
      /\ \A u \in Threads : u # t => f \notin Owned(u) /\ l \notin Owned(u)
      /\ lru_lock # t => f \notin K /\ f \in Owned(t)
      /\ lru_lock = t => f \in K /\ l \in K /\ \A u \in Threads : l \notin Owned(u)
  BY <1>2, AdderHolds
<1>4. AdderOK(t, L, K)
  BY <1>1 DEF ThreadOK
<1>5. /\ L \subseteq Nodes /\ K \subseteq Nodes /\ Pool \subseteq Nodes
      /\ next[t] \in L \cup {TAIL}
  <2>1. Pool \subseteq Nodes
    BY <1>1, PathStart, PointersDiffer DEF NodesOK, PoolOK, Pool
  <2>. QED
    BY <1>1, <1>2, <2>1, LruLinks, TakenLinks
<1>6. \A x \in Base : x # HEAD => lru_next'[x] = lru_next[x]
  BY <1>1, <1>2 DEF ArrayTypes
<1>7. /\ Hand(t)' = Hand(t) /\ Late(t)' = Late(t) /\ Filled(t)' = Filled(t)
      /\ Marking(t)' = Marking(t) /\ Evicting(t)' = Evicting(t) /\ Unlinked(t)' = {}
      /\ Unlinked(t) = IF lru_lock # t THEN {f} ELSE {}
  BY <1>2 DEF Hand, Late, Filled, Marking, Evicting, Unlinked, If, Filling, Adding
<1>8. /\ \A u \in Threads : /\ Hand(u)' = Hand(u) /\ Late(u)' = Late(u) /\ Filled(u)' = Filled(u)
                            /\ Marking(u)' = Marking(u) /\ Evicting(u)' = Evicting(u)
                            /\ Owned(u)' = Owned(u)
      /\ \A u \in Threads : u # t => Unlinked(u)' = Unlinked(u)
  BY <1>1, <1>7 DEF Others, SameClaims, Owned
<1>9. /\ SliceHead' = SliceHead /\ Clearing' = Clearing
      /\ lru_lock # t => LastTaken' = LastTaken /\ Joining' = Joining
      /\ lru_lock = t => LastTaken = l /\ LastTaken' = TEMP /\ Joining = {f} /\ Clearing = {}
                         /\ f = lru_next[TEMP]
  <2>1. CASE lru_lock = t
    <3>1. lru_lock # NULL
      BY <2>1, ApiAssumption
    <3>. QED
      BY <1>2, <1>4, <2>1, <3>1 DEF SliceHead, Clearing, LastTaken, Joining,
         Consolidates, If, AdderOK
  <2>2. CASE lru_lock # t
    BY <1>1, <1>2, <2>2, SameTakenByOthers DEF SameTaken
  <2>. QED
    BY <2>1, <2>2
<1>10. NodesOK' /\ Cached' = Cached /\ SliceSet' = SliceSet
  BY <1>1, <1>2, <1>5, <1>6, <1>8, <1>9, NodesStay, PointersDiffer DEF items, recent, Base
<1>11. InserterOK(t)'
  <2>1. Falsely(t)' = Falsely(t)
    BY <1>8 DEF Falsely
  <2>. QED
    BY <1>1, <1>2, <2>1 DEF ThreadOK, InserterOK
<1>12. ASSUME NEW L2, NEW K2, L \subseteq L2, f \in L2, l \in L2
       PROVE  ThreadOK(t, L2, K2)'
  <2>1. lru_next'[l] = next[t]
    BY <1>2, <1>3, <1>4, <1>6, PointersDiffer DEF AdderOK, Base
  <2>2. lru_prev[next[t]] = HEAD
    BY <1>1, <1>2, <1>5, LruLinks
  <2>3. AdderOK(t, L2, K2)'
    BY <1>2, <1>3, <1>4, <1>5, <1>8, <1>12, <2>1, <2>2 DEF AdderOK, Adding
  <2>. QED
    BY <1>2, <1>11, <2>3 DEF ThreadOK, FinderOK, PurgerOK, PullerOK, FindLocked
<1>13. ASSUME lru_lock # t PROVE ListsOK' /\ Reordered(t, list)
  <2>0. PICK front : front = <<f>>
    OBVIOUS
  <2>. DEFINE ahead == [x \in {TEMP, f} |-> IF x = TEMP THEN f ELSE TAIL]
              behind == [x \in {TAIL, f} |-> IF x = TAIL THEN f ELSE TEMP]
  <2>1. l = f
    BY <1>2, <1>4, <1>13 DEF AdderOK, Adding
  <2>2. /\ Distinct(front, Nodes) /\ front # <<>> /\ Range(front) = {f}
    BY <1>3, <2>0 DEF Distinct, IsInjective, Range
  <2>3. /\ ahead[TEMP] = f /\ ahead[f] = TAIL /\ behind[TAIL] = f /\ behind[f] = TEMP
    BY <1>3, PointersDiffer
  <2>4. IsWhole(TEMP, front, TAIL, ahead, behind)
    <3>1. /\ Spot(TEMP, front, TAIL, 0) = TEMP /\ Spot(TEMP, front, TAIL, 1) = f
          /\ Spot(TEMP, front, TAIL, 2) = TAIL /\ Len(front) = 1
      BY <2>0 DEF Spot
    <3>. HIDE DEF ahead, behind
    <3>2. \A i \in 0 .. 1 : /\ ahead[Spot(TEMP, front, TAIL, i)] = Spot(TEMP, front, TAIL, i + 1)
                            /\ behind[Spot(TEMP, front, TAIL, i + 1)] = Spot(TEMP, front, TAIL, i)
      <4>1. \A i \in 0 .. 1 : (i = 0 /\ i + 1 = 1) \/ (i = 1 /\ i + 1 = 2)
        OBVIOUS
      <4>. QED
        BY <2>3, <3>1, <4>1
    <3>. QED
      BY <3>1, <3>2 DEF IsWhole
  <2>. HIDE DEF ahead, behind
  <2>5. PICK back2 : LruIs(front \o list, back2)'
    BY <1>3, <2>1, <2>2, <2>3, <2>4, AddCasJoins
  <2>6. Range(front \o list) = L \cup {f}
    BY <1>1, <2>2, <1>3, ConcatDistinct DEF LruIs
  <2>7. TakenIs(taken)'
    <3>1. \A x \in K \cup {TEMP} : x \in Base /\ x # HEAD
      BY <1>5, PointersDiffer DEF Base
    <3>. QED
      BY <1>1, <1>2, <1>6, <1>9, <1>13, <3>1, TakenFrame
  <2>8. PlacesOK(L \cup {f}, K)'
    <3>1. ASSUME NEW n \in Nodes
          PROVE  n \in L \cup {f} <=> /\ n \in Cached' \/ \E u \in Threads : n \in Evicting(u)'
                                      /\ n \notin K /\ \A u \in Threads : n \notin Unlinked(u)'
      <4>1. CASE n = f
        <5>1. \A u \in Threads : u # t => f \notin Unlinked(u)
          BY <1>3, ClaimFacts DEF Owned
        <5>. QED
          BY <1>3, <1>7, <1>8, <1>10, <1>13, <4>1, <5>1
      <4>2. CASE n # f
        <5>1. \A u \in Threads : n \in Unlinked(u)' <=> n \in Unlinked(u)
          BY <1>7, <1>8, <1>13, <4>2
        <5>. QED
          BY <1>1, <1>8, <1>10, <4>2, <5>1 DEF PlacesOK
      <4>. QED
        BY <4>1, <4>2
    <3>2. /\ K \subseteq Cached' /\ \A u \in Threads : (Owned(u) \cap K)' = {}
          /\ (SliceSet \cap K \subseteq Clearing)'
      BY <1>1, <1>8, <1>9, <1>10 DEF PlacesOK
    <3>. QED
      BY <1>2, <3>1, <3>2 DEF PlacesOK
  <2>9. ThreadOK(t, L \cup {f}, K)'
    <3>1. PICK L2 : L2 = L \cup {f}
      OBVIOUS
    <3>2. ThreadOK(t, L2, K)'
      BY <1>12, <2>1, <3>1
    <3>. QED
      BY <1>2, <3>1, <3>2
  <2>10. \A u \in Threads : u # t => AdderOK(u, L \cup {f}, K)' /\ PurgerOK(u, L \cup {f})'
    BY <1>8, AddCasOthers
  <2>11. ListsAre(front \o list, back2, taken)'
    BY <1>1, <1>2, <2>5, <2>6, <2>7, <2>8, <2>9, <2>10, ThreadsStay DEF items
  <2>. QED
    BY <2>2, <2>5, <2>11 DEF ListsOK, Reordered, Distinct
<1>14. ASSUME lru_lock = t PROVE ListsOK' /\ Reordered(t, list)
  <2>1. /\ Distinct(taken, Nodes) /\ IsWhole(TEMP, taken, TAIL, TakenNext, TakenPrev)
        /\ taken # <<>> /\ K \cap L = {}
    <3>1. Range(<<>>) = {}
      BY DEF Range
    <3>2. taken # <<>>
      BY <1>3, <1>14, <3>1
    <3>. QED
      BY <1>1, <1>5, <3>2 DEF TakenIs, PlacesOK
  <2>2. /\ TakenNext[TEMP] = f /\ TakenPrev[TAIL] = l
        /\ \A x \in K : x # l => lru_next[x] = TakenNext[x]
        /\ \A x \in K : x # f => lru_prev[x] = TakenPrev[x]
    <3>1. K \subseteq Base /\ TEMP \in Base /\ TAIL \in Base /\ TEMP # l /\ TAIL \notin K
      BY <1>3, <1>5, PointersDiffer DEF Base
    <3>. QED
      BY <1>9, <1>14, <3>1 DEF TakenNext, TakenPrev
  <2>3. PICK back2 : LruIs(taken \o list, back2)'
    BY <2>1, <2>2, AddCasJoins
  <2>4. Range(taken \o list) = L \cup K
    BY <1>1, <2>1, ConcatDistinct DEF LruIs
  <2>5. Range(<<>>) = {} /\ Distinct(<<>>, Nodes)
    BY DEF Range, Distinct, IsInjective
  <2>6. TakenIs(<<>>)'
    <3>1. TakenNext'[TEMP] = TAIL /\ TakenPrev'[TAIL] = TEMP
      BY <1>9, <1>14 DEF TakenNext, TakenPrev, Base
    <3>2. IsWhole(TEMP, <<>>, TAIL, TakenNext', TakenPrev')
      BY <3>1 DEF IsWhole, Spot
    <3>. QED
      BY <2>5, <3>2 DEF TakenIs
  <2>7. PlacesOK(L \cup K, {})'
    <3>1. ASSUME NEW n \in Nodes
          PROVE  n \in L \cup K <=> /\ n \in Cached' \/ \E u \in Threads : n \in Evicting(u)'
                                    /\ n \notin {} /\ \A u \in Threads : n \notin Unlinked(u)'
      <4>1. \A u \in Threads : Unlinked(u)' = Unlinked(u)
        BY <1>7, <1>8, <1>14
      <4>2. CASE n \in K
        <5>1. \A u \in Threads : n \notin Owned(u)
          BY <1>1, <4>2 DEF PlacesOK
        <5>2. \A u \in Threads : n \notin Unlinked(u)
          BY <5>1, ClaimFacts DEF Owned
        <5>. QED
          BY <1>1, <1>10, <4>1, <4>2, <5>2 DEF PlacesOK
      <4>3. CASE n \notin K
        BY <1>1, <1>8, <1>10, <4>1, <4>3 DEF PlacesOK
      <4>. QED
        BY <4>2, <4>3
    <3>. QED
      BY <3>1 DEF PlacesOK
  <2>8. ThreadOK(t, L \cup K, {})'
    BY <1>3, <1>12, <1>14
  <2>9. \A u \in Threads : u # t => AdderOK(u, L \cup K, {})' /\ PurgerOK(u, L \cup K)'
    BY <1>8, <1>14, AddCasOthers
  <2>10. ListsAre(taken \o list, back2, <<>>)'
    BY <1>1, <1>2, <2>3, <2>4, <2>5, <2>6, <2>7, <2>8, <2>9, ThreadsStay DEF items
  <2>. QED
    BY <2>1, <2>3, <2>10 DEF ListsOK, Reordered, Distinct
<1>15. ArrayTypes'
  BY <1>1, <1>2, <1>3 DEF ArrayTypes, items, recent, requests
<1>16. LocalTypes'
  BY <1>1, <1>2 DEF LocalTypes
<1>. QED
  BY <1>10, <1>13, <1>14, <1>15, <1>16 DEF Kept

-----------------------------------------------------------------------------
(* A node that is not next to the head is taken out of the LRU list.       *)
LEMMA LruWithout ==
  ASSUME NEW list, NEW back, LruIs(list, back), NEW n \in Range(list), lru_prev[n] # HEAD,
         lru_next'[lru_prev[n]] = lru_next[n],
         \A x \in Range(list) \cup {HEAD} : x # n /\ x # lru_prev[n] => lru_next'[x] = lru_next[x],
         lru_prev'[lru_next[n]] = lru_prev[n],
         \A x \in Range(list) \cup {TAIL} : x # n /\ x # lru_next[n] => lru_prev'[x] = lru_prev[x],
         \A u \in Threads : Pending(u)' = Pending(u)
  PROVE  \E list2, back2 :
           /\ LruIs(list2, back2)' /\ Range(list2) = Range(list) \ {n}
           /\ \E i \in 1 .. Len(list) : i # 1 /\ list[i] = n /\ list2 = RemoveAt(list, i)
<1>. DEFINE L == Range(list)
            p == lru_prev[n]
            m == lru_next[n]
<1>1. /\ Distinct(list, Nodes) /\ IsWhole(HEAD, list, TAIL, lru_next, back)
      /\ L \subseteq Nodes /\ p = back[n] /\ p \in L /\ m \in L \cup {TAIL} /\ m # n /\ p # n
      /\ back[m] = n
      /\ \A x \in L \cup {TAIL} : back[x] \in L \cup {HEAD}
  <2>1. p = back[n] /\ back[n] \in L \cup {HEAD}
    BY LruLinks
  <2>. QED
    BY <2>1, LruLinks DEF LruIs
<1>2. PICK i \in 1 .. Len(list) : list[i] = n
  BY <1>1 DEF Distinct, Range
<1>3. PICK next2 : next2 = [x \in Base |-> IF x = p THEN m ELSE lru_next[x]]
  OBVIOUS
<1>4. PICK back2 : back2 = [x \in Base |-> IF x = m THEN p ELSE back[x]]
  OBVIOUS
<1>5. /\ next2[p] = m /\ \A x \in Nodes \cup {HEAD} : x # p => next2[x] = lru_next[x]
      /\ back2[m] = p /\ \A x \in Nodes \cup {TAIL} : x # m => back2[x] = back[x]
  BY <1>1, <1>3, <1>4 DEF Base
<1>6. PICK list2 : list2 = RemoveAt(list, i)
  OBVIOUS
<1>7. IsWhole(HEAD, list2, TAIL, next2, back2)
  <2>1. HEAD \notin Nodes /\ TAIL \notin Nodes
    BY PointersDiffer
  <2>. QED
    BY <1>1, <1>2, <1>5, <1>6, <2>1, WholeRemove
<1>8. Distinct(list2, Nodes) /\ Range(list2) = L \ {n}
  BY <1>1, <1>2, <1>6, RemoveAtDistinct
<1>9. IsWhole(HEAD, list2, TAIL, lru_next', back2)
  <2>1. \A x \in Range(list2) \cup {HEAD} : lru_next'[x] = next2[x]
    BY <1>1, <1>5, <1>8, PointersDiffer
  <2>. QED
    BY <1>7, <1>8, <2>1, PointersDiffer, WholeFrame
<1>10. ASSUME NEW x \in Range(list2) \cup {TAIL}
       PROVE  \/ lru_prev'[x] = back2[x]
              \/ lru_prev'[x] = HEAD /\ \E u \in Threads : <<back2[x], x>> \in Pending(u)'
  <2>1. CASE x = m
    BY <1>5, <2>1
  <2>2. CASE x # m
    <3>1. x \in L \cup {TAIL} /\ x # n /\ x \in Nodes \cup {TAIL}
      BY <1>1, <1>8, PointersDiffer
    <3>2. back2[x] = back[x] /\ lru_prev'[x] = lru_prev[x]
      BY <1>5, <2>2, <3>1
    <3>3. \/ lru_prev[x] = back[x]
          \/ lru_prev[x] = HEAD /\ \E u \in Threads : <<back[x], x>> \in Pending(u)
      BY <3>1 DEF LruIs
    <3>. QED
      BY <3>2, <3>3
  <2>. QED
    BY <2>1, <2>2
<1>11. LruIs(list2, back2)'
  BY <1>8, <1>9, <1>10 DEF LruIs
<1>12. i # 1
  <2>1. ASSUME i = 1 PROVE FALSE
    <3>1. 0 \in 0 .. Len(list) /\ Spot(HEAD, list, TAIL, 0) = HEAD
      BY <1>2 DEF Spot
    <3>2. Spot(HEAD, list, TAIL, 0 + 1) = n
      BY <1>2, <2>1 DEF Spot
    <3>3. back[n] = HEAD
      BY <1>1, <3>1, <3>2 DEF IsWhole
    <3>. QED
      BY <1>1, <3>3
  <2>. QED
    BY <2>1
<1>. QED
  BY <1>2, <1>6, <1>8, <1>11, <1>12

(* What the inserters know of the list stays true, for the two nodes next  *)
(* to the one taken out are not the ones between which they add theirs.    *)
LEMMA WithoutOthers ==
  ASSUME NEW t \in Threads, NEW list, NEW back, NEW taken, Given(t, list, back, taken),
         lru_lock = t, NEW n \in Range(list), lru_prev[n] # HEAD,
         NEW a, a = n \/ a \notin Range(list),
         \A x \in Base : x # a /\ x # lru_prev[n] => lru_next'[x] = lru_next[x],
         \A x \in Base : x # n /\ x # lru_next[n] => lru_prev'[x] = lru_prev[x],
         NEW u \in Threads, u # t, n \notin Owned(u), a \notin Owned(u),
         NEW L2, L2 = Range(list) \ {n}, NEW K2
  PROVE  AdderOK(u, L2, K2)' /\ PurgerOK(u, L2)'
<1>. DEFINE L == Range(list)
            K == Range(taken)
            p == lru_prev[n]
            m == lru_next[n]
<1>1. /\ Sound /\ Others(t) /\ LruIs(list, back) /\ AdderOK(u, L, K)
      /\ L \subseteq Nodes /\ L \subseteq Base /\ TAIL \in Base /\ TAIL \notin Nodes
  BY ClaimedNodes, PointersDiffer DEF Given, ListsAre, ThreadOK, Base
<1>2. /\ p \in L /\ p = back[n] /\ lru_next[p] = n /\ m \in L \cup {TAIL} /\ back[m] = n
      /\ p # n /\ m # n
  <2>1. p = back[n] /\ back[n] \in L \cup {HEAD} /\ lru_next[back[n]] = n
    BY <1>1, LruLinks
  <2>. QED
    BY <1>1, <2>1, LruLinks
<1>3. Still(u) /\ lru_lock # u /\ lru_lock' # u /\ pc[u] \notin Purging
  BY <1>1 DEF Others, Still, Sound, LockDiscipline, Consolidating
<1>4. pc[u] \in Adding => prev[u] = node[u] /\ prev[u] \in Owned(u)
  BY <1>1, <1>3 DEF AdderOK, Owned, Late, If
<1>5. pc[u] \in Adding => prev[u] # n /\ prev[u] # a /\ prev[u] \in Base
  <2>1. Owned(u) \subseteq Nodes
    BY ClaimedNodes
  <2>. QED
    BY <1>4, <2>1 DEF Base
<1>6. ASSUME pc[u] = "add_cas"
      PROVE  lru_next'[prev[u]] = next[u] /\ next[u] \in Nodes \cup {TAIL} /\ lru_prev'[node[u]] = HEAD
  <2>1. node[u] \in {node[u], prev[u]} /\ pc[u] \in {"add_first", "add_cas"} /\ pc[u] \in Adding
    BY <1>6 DEF Adding
  <2>2. node[u] \notin L /\ node[u] \in Nodes
    BY <2>1, AdderHolds
  <2>3. prev[u] # p /\ node[u] # m
    BY <1>1, <1>2, <1>4, <2>1, <2>2
  <2>4. lru_next[prev[u]] = next[u] /\ next[u] \in Nodes \cup {TAIL} /\ lru_prev[node[u]] = HEAD
    BY <1>1, <1>6 DEF AdderOK
  <2>. QED
    BY <1>4, <1>5, <2>1, <2>2, <2>3, <2>4 DEF Base
<1>7. ASSUME pc[u] = "add_back"
      PROVE  /\ node[u] \in L2 /\ prev[u] \in L2 /\ next[u] \in L2 \cup {TAIL}
             /\ lru_next'[prev[u]] = next[u] /\ lru_prev'[next[u]] = HEAD
  <2>1. /\ node[u] \in L /\ prev[u] \in L /\ next[u] \in L \cup {TAIL}
        /\ lru_next[prev[u]] = next[u] /\ lru_prev[next[u]] = HEAD
        /\ pc[u] \in Adding
    BY <1>1, <1>7 DEF AdderOK, Adding
  <2>2. next[u] # n /\ prev[u] # p
    BY <1>2, <2>1
  <2>3. back[next[u]] = prev[u]
    BY <1>1, <2>1, LruLinks
  <2>4. next[u] # m
    BY <1>2, <1>5, <2>1, <2>3
  <2>. QED
    BY <1>1, <1>4, <1>5, <2>1, <2>2, <2>4
<1>8. AdderOK(u, L2, K2)'
  BY <1>3, <1>4, <1>6, <1>7 DEF AdderOK, Still, Adding
<1>9. PurgerOK(u, L2)'
  BY <1>3 DEF PurgerOK, Still, Purging
<1>. QED
  BY <1>8, <1>9

(* purgeOld takes the evicted node out of the list, hands its item to      *)
(* onDelete and links the node to the pool's head.                         *)
LEMMA PurgeUnlinkKeeps ==
  ASSUME NEW t \in Threads, NEW list, NEW back, NEW taken, Given(t, list, back, taken),
         PurgeUnlink(t)
  PROVE  Kept /\ Reordered(t, list)
<1>. DEFINE L == Range(list)
            K == Range(taken)
            n == node[t]
            p == prev[t]
            m == lru_next[n]
<1>1. /\ Sound /\ Others(t) /\ NodesOK /\ ListsAre(list, back, taken) /\ PlacesOK(L, K)
      /\ pc \in [Threads -> PCs] /\ ArrayTypes /\ LocalTypes /\ OwnersOK /\ ChainsOK
      /\ LruIs(list, back) /\ TakenIs(taken) /\ \A u \in Threads : ThreadOK(u, L, K)
  BY DEF Given, ListsAre, Sound, ControlTypeOK, NodesOK
<1>2. /\ pc[t] = "purge_unlink" /\ pc'[t] = "dispose" /\ lru_lock' = lru_lock
      /\ next' = [next EXCEPT ![t] = empty_head]
      /\ lru_next' = [NextWithout(n) EXCEPT ![n] = empty_head] /\ lru_prev' = PrevWithout(n)
      /\ key' = [key EXCEPT ![n] = NoKey] /\ value' = [value EXCEPT ![n] = NoKey]
      /\ UNCHANGED <<recent_next, bucket, empty_head, recent, requests, node, prev, freed>>
  BY <1>1 DEF PurgeUnlink, Goto, table
<1>3. /\ SameTaken /\ lru_lock = t /\ LastTaken = TEMP
  BY <1>1, <1>2, SameTakenByPurger DEF Purging
<1>4. K = {}
  BY <1>1, <1>3, TakenLinks
<1>5. n \in L /\ p \in L /\ p = lru_prev[n] /\ freed[t] < PurgeThreshold /\ L \subseteq Nodes
  BY <1>1, <1>2, ClaimedNodes DEF ThreadOK, PurgerOK
<1>6. lru_prev[n] # HEAD /\ n \in Nodes /\ p \in Nodes
  BY <1>5, PointersDiffer
<1>7. p = back[n] /\ m \in L \cup {TAIL} /\ m # n /\ p # n
  <2>1. p = back[n]
    BY <1>1, <1>5, <1>6, LruLinks
  <2>. QED
    BY <1>1, <1>5, <2>1, LruLinks
<1>8. /\ lru_next'[p] = m /\ lru_next'[n] = empty_head
      /\ \A x \in Base : x # n /\ x # p => lru_next'[x] = lru_next[x]
      /\ lru_prev'[m] = p
      /\ \A x \in Base : x # m => lru_prev'[x] = lru_prev[x]
      /\ lru_next' \in [Base -> Nodes \cup {TAIL, NULL}]
      /\ lru_prev' \in [Base -> Nodes \cup {HEAD, TEMP, NULL}]
      /\ empty_head \in Nodes \cup {NULL} /\ next'[t] = empty_head
  <2>1. lru_next' = [[lru_next EXCEPT ![p] = m] EXCEPT ![n] = empty_head]
    BY <1>2, <1>5 DEF NextWithout
  <2>2. lru_prev' = [lru_prev EXCEPT ![m] = p]
    BY <1>2, <1>5 DEF PrevWithout
  <2>3. /\ lru_next \in [Base -> Nodes \cup {TAIL, NULL}]
        /\ lru_prev \in [Base -> Nodes \cup {HEAD, TEMP, NULL}]
        /\ empty_head \in Nodes \cup {NULL} /\ p \in Base /\ n \in Base /\ m \in Base
        /\ m \in Nodes \cup {TAIL}
    BY <1>1, <1>5, <1>6, <1>7 DEF ArrayTypes, Base
  <2>4. next'[t] = empty_head
    BY <1>1, <1>2 DEF LocalTypes
  <2>. QED
    BY <1>6, <1>7, <2>1, <2>2, <2>3, <2>4
<1>. HIDE DEF m
<1>9. /\ Hand(t) = {n} /\ Hand(t)' = Hand(t) /\ Late(t)' = Late(t) /\ Filled(t)' = Filled(t)
      /\ Marking(t)' = Marking(t) /\ Evicting(t) = {n} /\ Evicting(t)' = {}
      /\ Unlinked(t)' = Unlinked(t) /\ Pending(t)' = Pending(t) /\ Filled(t) = {}
  BY <1>2 DEF Hand, Late, Filled, Marking, Evicting, Unlinked, Pending, If, Filling, Adding
<1>10. /\ \A u \in Threads : /\ Hand(u)' = Hand(u) /\ Late(u)' = Late(u) /\ Filled(u)' = Filled(u)
                             /\ Marking(u)' = Marking(u) /\ Unlinked(u)' = Unlinked(u)
                             /\ Pending(u)' = Pending(u) /\ Owned(u)' = Owned(u)
       /\ \A u \in Threads : u # t => Evicting(u)' = Evicting(u) /\ Keyed(u)' = Keyed(u)
       /\ Keyed(t)' = {} /\ Keyed(t) = {n} /\ n \in Owned(t)
  BY <1>1, <1>9 DEF Others, SameClaims, Owned, Keyed
<1>11. /\ n \notin Cached /\ n \notin Pool
       /\ \A u \in Threads : u # t => n \notin Owned(u) /\ n \notin Keyed(u) /\ n \notin Evicting(u)
  <2>1. \A u \in Threads : u # t => n \notin Owned(u)
    BY <1>1, <1>10 DEF OwnersOK
  <2>. QED
    BY <1>1, <1>9, <2>1, ClaimFacts DEF OwnersOK, Keyed, Owned
<1>12. p \notin Pool
  BY <1>1, <1>5, <1>6, ClaimFacts DEF PlacesOK, OwnersOK
<1>13. Cached' = Cached /\ PoolOK' /\ Pool' = Pool
  <2>1. Pool \subseteq Nodes
    BY <1>1, PathStart, PointersDiffer DEF NodesOK, PoolOK, Pool
  <2>2. \A x \in Pool : lru_next'[x] = lru_next[x]
    BY <1>8, <1>11, <1>12, <2>1 DEF Base
  <2>. QED
    BY <1>1, <1>2, <2>2, CachedFrame, PoolFrame DEF NodesOK
<1>14. OwnersOK'
  BY <1>1, <1>10, <1>13, OwnersFrame
<1>15. \A x \in Nodes : key'[x] = IF x = n THEN NoKey ELSE key[x]
  BY <1>1, <1>2 DEF ArrayTypes
<1>16. ChainsOK'
  <2>1. /\ \A b \in Buckets : Distinct(bucket'[b], Nodes)
        /\ \A b \in Buckets : \A x \in Range(bucket'[b]) : x \in Nodes /\ x # n
    BY <1>1, <1>2, <1>11, ClaimedNodes DEF ChainsOK, Cached
  <2>2. \A b \in Buckets : \A x \in Range(bucket'[b]) : keyToBucketNr(key'[x]) = b
    BY <1>1, <1>2, <1>15, <2>1 DEF ChainsOK
  <2>3. ASSUME NEW x \in Nodes
        PROVE  key'[x] # NoKey <=> x \in Cached' \/ \E u \in Threads : x \in Keyed(u)'
    <3>1. CASE x = n
      BY <1>10, <1>11, <1>13, <1>15, <3>1
    <3>2. CASE x # n
      <4>1. \A u \in Threads : x \in Keyed(u)' <=> x \in Keyed(u)
        BY <1>10, <3>2
      <4>. QED
        BY <1>1, <1>13, <1>15, <3>2, <4>1 DEF ChainsOK
    <3>. QED
      BY <3>1, <3>2
  <2>. QED
    BY <2>1, <2>2, <2>3 DEF ChainsOK, keyToBucketNr
<1>17. MarkListsOK' /\ MarksOK' /\ SliceSet' = SliceSet
  BY <1>1, <1>2, <1>3, <1>10, <1>13, MarksFrame DEF NodesOK, SameTaken, recent
<1>18. PICK list2, back2 :
         /\ LruIs(list2, back2)' /\ Range(list2) = L \ {n}
         /\ \E i \in 1 .. Len(list) : i # 1 /\ list[i] = n /\ list2 = RemoveAt(list, i)
  <2>1. \A x \in L \cup {HEAD} : x # n /\ x # lru_prev[n] => lru_next'[x] = lru_next[x]
    BY <1>5, <1>8 DEF Base
  <2>2. \A x \in L \cup {TAIL} : x # n /\ x # lru_next[n] => lru_prev'[x] = lru_prev[x]
    BY <1>5, <1>8 DEF Base, m
  <2>3. lru_next'[lru_prev[n]] = lru_next[n] /\ lru_prev'[lru_next[n]] = lru_prev[n]
    BY <1>5, <1>8 DEF m
  <2>. QED
    BY <1>1, <1>5, <1>6, <1>10, <2>1, <2>2, <2>3, LruWithout
<1>19. TakenIs(taken)'
  BY <1>1, <1>3, <1>4, <1>6, <1>8, PointersDiffer, TakenFrame DEF SameTaken, Base
<1>20. PlacesOK(Range(list2), K)'
  <2>1. ASSUME NEW x \in Nodes
        PROVE  x \in Range(list2) <=> /\ x \in Cached' \/ \E u \in Threads : x \in Evicting(u)'
                                      /\ x \notin K /\ \A u \in Threads : x \notin Unlinked(u)'
    <3>1. CASE x = n
      BY <1>9, <1>10, <1>11, <1>13, <1>18, <3>1
    <3>2. CASE x # n
      <4>1. \A u \in Threads : x \in Evicting(u)' <=> x \in Evicting(u)
        BY <1>9, <1>10, <3>2
      <4>. QED
        BY <1>1, <1>10, <1>13, <1>18, <3>2, <4>1 DEF PlacesOK
    <3>. QED
      BY <3>1, <3>2
  <2>. QED
    BY <1>4, <2>1 DEF PlacesOK
<1>21. ThreadOK(t, Range(list2), K)'
  <2>1. PurgerOK(t, Range(list2))'
    BY <1>2, <1>5, <1>7, <1>8, <1>18 DEF PurgerOK
  <2>2. InserterOK(t)' /\ AdderOK(t, Range(list2), K)'
    BY <1>2 DEF InserterOK, AdderOK, Falsely, Filled, Late, If, Adding
  <2>. QED
    BY <1>2, <2>1, <2>2 DEF ThreadOK, FinderOK, PullerOK, FindLocked
<1>22. ASSUME NEW u \in Threads, u # t
       PROVE  /\ pc[u] \in FindLocked \cup {"add_to_bucket"} => key'[node[u]] = key[node[u]]
              /\ AdderOK(u, Range(list2), K)' /\ PurgerOK(u, Range(list2))'
  <2>1. pc[u] \in FindLocked => node[u] \in Nodes /\ node[u] # n
    BY <1>11, ClaimedNodes
  <2>2. pc[u] = "add_to_bucket" => node[u] \in Nodes /\ node[u] # n
    <3>1. pc[u] = "add_to_bucket" => node[u] \in Owned(u)
      BY DEF Owned, Hand, If, Filling
    <3>. QED
      BY <1>11, <1>22, <3>1, ClaimedNodes
  <2>3. pc[u] \in FindLocked \cup {"add_to_bucket"} => key'[node[u]] = key[node[u]]
    BY <1>15, <2>1, <2>2
  <2>4. /\ \A x \in Base : x # n /\ x # lru_prev[n] => lru_next'[x] = lru_next[x]
        /\ \A x \in Base : x # n /\ x # lru_next[n] => lru_prev'[x] = lru_prev[x]
    BY <1>5, <1>8 DEF m
  <2>5. AdderOK(u, Range(list2), K)' /\ PurgerOK(u, Range(list2))'
    <3>1. LruIs(list2, back2)' /\ Range(list2) = L \ {n}
      BY <1>18
    <3>2. /\ lru_lock = t /\ n \in Range(list) /\ lru_prev[n] # HEAD /\ n \notin Owned(u)
          /\ Given(t, list, back, taken)
      BY <1>3, <1>5, <1>6, <1>11, <1>22
    <3>. QED
      BY <1>22, <2>4, <3>1, <3>2, WithoutOthers, SMTT(20)
  <2>. QED
    BY <2>3, <2>5
<1>23. ListsAre(list2, back2, taken)'
  BY <1>1, <1>2, <1>18, <1>19, <1>20, <1>21, <1>22, ThreadsStay
<1>24. NodesOK'
  BY <1>13, <1>14, <1>16, <1>17 DEF NodesOK
<1>25. ArrayTypes' /\ LocalTypes'
  <2>1. key' \in [Nodes -> Keys \cup {NoKey}] /\ value' = key'
    BY <1>1, <1>2 DEF ArrayTypes
  <2>2. LocalTypes'
    BY <1>1, <1>2, <1>8 DEF LocalTypes
  <2>. QED
    BY <1>1, <1>2, <1>8, <2>1, <2>2 DEF ArrayTypes, recent, requests
<1>18a. Reordered(t, list)
  BY <1>3, <1>18 DEF Reordered
<1>. QED
  BY <1>18a, <1>23, <1>24, <1>25 DEF Kept, ListsOK

-----------------------------------------------------------------------------
(* A node taken out of the LRU list goes to the end of pullRecent's list.  *)
LEMMA TakenGrows ==
  ASSUME NEW list, NEW taken, TakenIs(taken), Range(list) \cap Range(taken) = {},
         Range(list) \subseteq Nodes, NEW n \in Range(list),
         LastTaken' = n, Joining = {}, Joining' = {}, NEW a, a = LastTaken,
         lru_next'[a] = n, lru_prev'[n] = a,
         \A x \in Base : x # a /\ x \notin Range(list) => lru_next'[x] = lru_next[x],
         \A x \in Base : x # TAIL /\ x \notin Range(list) => lru_prev'[x] = lru_prev[x]
  PROVE  \E taken2 : TakenIs(taken2)' /\ Range(taken2) = Range(taken) \cup {n}
<1>. DEFINE L == Range(list)
            K == Range(taken)
<1>1. /\ Distinct(taken, Nodes) /\ IsWhole(TEMP, taken, TAIL, TakenNext, TakenPrev)
      /\ K \subseteq Nodes /\ a \in K \cup {TEMP} /\ n \in Nodes /\ n \notin K /\ a # n
  BY TakenLinks, PointersDiffer DEF TakenIs
<1>2. TakenPrev[TAIL] = a
  BY DEF TakenPrev, Base
<1>3. PICK next2 : next2 = [x \in Base |-> IF x = n THEN TAIL ELSE IF x = a THEN n ELSE TakenNext[x]]
  OBVIOUS
<1>4. PICK prev2 : prev2 = [x \in Base |-> IF x = n THEN a ELSE IF x = TAIL THEN n ELSE TakenPrev[x]]
  OBVIOUS
<1>5. /\ next2[a] = n /\ next2[n] = TAIL
      /\ \A x \in Nodes \cup {TEMP} : x # a /\ x # n => next2[x] = TakenNext[x]
      /\ prev2[n] = a /\ prev2[TAIL] = n
      /\ \A x \in Nodes : x # n => prev2[x] = TakenPrev[x]
  BY <1>1, <1>3, <1>4, PointersDiffer DEF Base
<1>6. PICK taken2 : taken2 = Append(taken, n)
  OBVIOUS
<1>7. /\ Distinct(taken2, Nodes) /\ Range(taken2) = K \cup {n}
      /\ IsWhole(TEMP, taken2, TAIL, next2, prev2)
  BY <1>1, <1>2, <1>5, <1>6, PointersDiffer, WholeAppend
<1>8. \A x \in Range(taken2) \cup {TEMP} : TakenNext'[x] = next2[x]
  <2>1. \A x \in Base : TakenNext'[x] = IF x = n THEN TAIL ELSE lru_next'[x]
    BY DEF TakenNext
  <2>2. \A x \in Base : TakenNext[x] = IF x = a THEN TAIL ELSE lru_next[x]
    BY DEF TakenNext
  <2>. QED
    BY <1>1, <1>5, <1>7, <2>1, <2>2, PointersDiffer DEF Base
<1>9. \A x \in Range(taken2) \cup {TAIL} : TakenPrev'[x] = prev2[x]
  <2>1. \A x \in Base : TakenPrev'[x] = IF x = TAIL THEN n ELSE lru_prev'[x]
    BY DEF TakenPrev
  <2>2. \A x \in Base : x # TAIL => TakenPrev[x] = lru_prev[x]
    BY DEF TakenPrev
  <2>. QED
    BY <1>1, <1>5, <1>7, <2>1, <2>2, PointersDiffer DEF Base
<1>10. IsWhole(TEMP, taken2, TAIL, TakenNext', TakenPrev')
  BY <1>7, <1>8, <1>9, PointersDiffer, WholeFrame
<1>11. TakenIs(taken2)'
  BY <1>7, <1>10 DEF TakenIs
<1>. QED
  BY <1>7, <1>11

(* The node that pullRecent visits is in the LRU list, and so is the one   *)
(* before it; the last one that it has taken is not.                       *)
LEMMA PullUnlinkMeets ==
  ASSUME NEW t \in Threads, NEW list, NEW back, NEW taken, Given(t, list, back, taken),
         PullUnlink(t)
  PROVE  /\ lru_lock = t /\ lru_lock # NULL /\ \A u \in Threads : u # t => lru_lock # u
         /\ SliceHead = node[t] /\ SliceHead' = SliceHead
         /\ Clearing = {} /\ Clearing' = {node[t]}
         /\ LastTaken = prev[t] /\ LastTaken' = node[t] /\ Joining = {} /\ Joining' = {}
         /\ node[t] \in Cached /\ node[t] \in Nodes /\ node[t] \notin Range(taken)
         /\ \A u \in Threads : /\ node[t] \notin Falsely(u) /\ node[t] \notin Unlinked(u)
                               /\ node[t] \notin Owned(u)
         /\ node[t] \in Range(list) /\ Range(list) \subseteq Nodes /\ Range(taken) \subseteq Nodes
         /\ Range(taken) \cap Range(list) = {}
         /\ lru_prev[node[t]] = back[node[t]] /\ lru_prev[node[t]] \in Range(list)
         /\ lru_next[node[t]] \in Range(list) \cup {TAIL}
         /\ lru_next[node[t]] # node[t] /\ lru_prev[node[t]] # node[t]
         /\ prev[t] \in Range(taken) \cup {TEMP}
<1>. DEFINE L == Range(list)
            K == Range(taken)
            n == node[t]
            a == prev[t]
            p == lru_prev[n]
            m == lru_next[n]
<1>1. /\ Sound /\ Others(t) /\ NodesOK /\ ListsAre(list, back, taken) /\ PlacesOK(L, K)
      /\ pc \in [Threads -> PCs] /\ OwnersOK /\ MarksOK
      /\ LruIs(list, back) /\ TakenIs(taken)
  BY DEF Given, ListsAre, Sound, ControlTypeOK, NodesOK
<1>2. /\ pc[t] = "pull_visit" /\ pc'[t] = "pull_clear" /\ lru_lock' = lru_lock
      /\ n # DUMMY /\ p # HEAD /\ node' = node /\ prev' = prev
  BY <1>1 DEF PullUnlink, Goto, locals
<1>3. lru_lock = t /\ lru_lock # NULL /\ \A u \in Threads : u # t => lru_lock # u
  BY <1>1, <1>2, PullerHolds DEF Consolidating, Pulling
<1>4. /\ SliceHead = n /\ SliceHead' = SliceHead /\ Clearing = {} /\ Clearing' = {n}
      /\ LastTaken = a /\ LastTaken' = n /\ Joining = {} /\ Joining' = {}
  BY <1>2, <1>3 DEF SliceHead, Clearing, LastTaken, Joining, Consolidates, If
<1>6. n \in SliceSet
  BY <1>1, <1>2, <1>4, PathStart, PointersDiffer DEF NodesOK, MarkListsOK, SliceSet
<1>7. /\ n \in Cached /\ n \in Nodes /\ n \notin K
      /\ \A u \in Threads : n \notin Falsely(u) /\ n \notin Unlinked(u) /\ n \notin Owned(u)
  <2>1. n \in Cached /\ n \in Nodes /\ n \notin K
    BY <1>1, <1>4, <1>6, ClaimedNodes DEF PlacesOK
  <2>2. \A u \in Threads : n \notin Falsely(u)
    BY <1>1, <1>6 DEF MarksOK
  <2>3. \A u \in Threads : n \notin Hand(u) /\ n \notin Late(u)
    BY <1>1, <2>1, <2>2 DEF OwnersOK, Falsely
  <2>. QED
    BY <2>1, <2>2, <2>3, ClaimFacts DEF Owned
<1>8. n \in L /\ L \subseteq Nodes /\ K \subseteq Nodes /\ K \cap L = {}
  BY <1>1, <1>7, ClaimedNodes DEF PlacesOK
<1>9. /\ p = back[n] /\ p \in L /\ m \in L \cup {TAIL} /\ m # n /\ p # n
  <2>1. p = back[n]
    BY <1>1, <1>2, <1>8, LruLinks
  <2>. QED
    BY <1>1, <1>2, <1>8, <2>1, LruLinks
<1>10. a \in K \cup {TEMP}
  BY <1>1, <1>4, TakenLinks
<1>. QED
  BY <1>3, <1>4, <1>7, <1>8, <1>9, <1>10

(* pullRecent moves a node of its slice from the one list to the other.    *)
LEMMA PullUnlinkKeeps ==
  ASSUME NEW t \in Threads, NEW list, NEW back, NEW taken, Given(t, list, back, taken),
         PullUnlink(t)
  PROVE  Kept /\ Reordered(t, list)
<1>. DEFINE L == Range(list)
            K == Range(taken)
            n == node[t]
            a == prev[t]
            p == lru_prev[n]
            m == lru_next[n]
<1>1. /\ Sound /\ Others(t) /\ NodesOK /\ ListsAre(list, back, taken) /\ PlacesOK(L, K)
      /\ pc \in [Threads -> PCs] /\ ArrayTypes /\ LocalTypes /\ OwnersOK /\ MarksOK
      /\ LruIs(list, back) /\ TakenIs(taken) /\ \A u \in Threads : ThreadOK(u, L, K)
  BY DEF Given, ListsAre, Sound, ControlTypeOK, NodesOK
<1>2. /\ pc[t] = "pull_visit" /\ pc'[t] = "pull_clear" /\ lru_lock' = lru_lock
      /\ n # DUMMY /\ p # HEAD
      /\ lru_next' = [NextWithout(n) EXCEPT ![a] = n] /\ lru_prev' = [PrevWithout(n) EXCEPT ![n] = a]
      /\ UNCHANGED <<items, recent_next, bucket, empty_head, recent, requests, node, prev, next,
                     freed>>
  BY <1>1 DEF PullUnlink, Goto, table, locals
<1>3. lru_lock = t /\ lru_lock # NULL /\ \A u \in Threads : u # t => lru_lock # u
  BY PullUnlinkMeets
<1>4. /\ SliceHead = n /\ SliceHead' = SliceHead /\ Clearing = {} /\ Clearing' = {n}
      /\ LastTaken = a /\ LastTaken' = n /\ Joining = {} /\ Joining' = {}
  BY PullUnlinkMeets
<1>5. /\ \A u \in Threads : SameClaims(u) /\ Owned(u)' = Owned(u) /\ Falsely(u)' = Falsely(u)
  <2>1. SameClaims(t)
    BY <1>2 DEF SameClaims, Hand, Late, Filled, Marking, Evicting, Unlinked, Pending, If,
         Filling, Adding
  <2>. QED
    BY <1>1, <2>1 DEF Others, SameClaims, Owned, Falsely
<1>7. /\ n \in Cached /\ n \in Nodes /\ n \notin K
      /\ \A u \in Threads : n \notin Falsely(u) /\ n \notin Unlinked(u) /\ n \notin Owned(u)
  BY PullUnlinkMeets
<1>8. n \in L /\ L \subseteq Nodes /\ K \subseteq Nodes /\ K \cap L = {}
  BY PullUnlinkMeets
<1>9. /\ p = back[n] /\ p \in L /\ m \in L \cup {TAIL} /\ m # n /\ p # n
  BY PullUnlinkMeets
<1>10. /\ a \in K \cup {TEMP} /\ a \notin L /\ a # n /\ a # p /\ a # m
       /\ \A u \in Threads : a \notin Owned(u)
  <2>1. a \in K \cup {TEMP}
    BY PullUnlinkMeets
  <2>2. \A u \in Threads : a \notin Owned(u)
    BY <1>1, <2>1, ClaimedNodes, PointersDiffer DEF PlacesOK
  <2>. QED
    BY <1>8, <1>9, <2>1, <2>2, PointersDiffer
<1>11. /\ lru_next'[p] = m /\ lru_next'[a] = n
       /\ \A x \in Base : x # a /\ x # p => lru_next'[x] = lru_next[x]
       /\ lru_prev'[m] = p /\ lru_prev'[n] = a
       /\ \A x \in Base : x # n /\ x # m => lru_prev'[x] = lru_prev[x]
       /\ lru_next' \in [Base -> Nodes \cup {TAIL, NULL}]
       /\ lru_prev' \in [Base -> Nodes \cup {HEAD, TEMP, NULL}]
  <2>1. lru_next' = [[lru_next EXCEPT ![p] = m] EXCEPT ![a] = n]
    BY <1>2 DEF NextWithout
  <2>2. lru_prev' = [[lru_prev EXCEPT ![m] = p] EXCEPT ![n] = a]
    BY <1>2 DEF PrevWithout
  <2>3. /\ lru_next \in [Base -> Nodes \cup {TAIL, NULL}]
        /\ lru_prev \in [Base -> Nodes \cup {HEAD, TEMP, NULL}]
        /\ p \in Base /\ n \in Base /\ m \in Base /\ a \in Base
        /\ m \in Nodes \cup {TAIL} /\ p \in Nodes /\ a \in Nodes \cup {TEMP}
    BY <1>1, <1>8, <1>9, <1>10 DEF ArrayTypes, Base
  <2>. QED
    BY <1>7, <1>9, <1>10, <2>1, <2>2, <2>3
<1>12. NodesOK' /\ Cached' = Cached /\ SliceSet' = SliceSet
  <2>1. Pool \subseteq Nodes
    BY <1>1, PathStart, PointersDiffer DEF NodesOK, PoolOK, Pool
  <2>2. p \notin Pool /\ a \notin Pool
    BY <1>1, <1>9, <1>10, <2>1, ClaimFacts, PointersDiffer DEF PlacesOK, OwnersOK
  <2>3. \A x \in Pool : lru_next'[x] = lru_next[x]
    BY <1>11, <2>1, <2>2 DEF Base
  <2>. QED
    BY <1>1, <1>2, <1>4, <1>5, <2>3, NodesFrame DEF items, recent
<1>. HIDE DEF p, m
<1>13. PICK list2, back2 :
         /\ LruIs(list2, back2)' /\ Range(list2) = L \ {n}
         /\ \E i \in 1 .. Len(list) : i # 1 /\ list[i] = n /\ list2 = RemoveAt(list, i)
  <2>1. \A x \in L \cup {HEAD} : x # n /\ x # lru_prev[n] => lru_next'[x] = lru_next[x]
    BY <1>8, <1>10, <1>11, PointersDiffer DEF Base, p
  <2>2. \A x \in L \cup {TAIL} : x # n /\ x # lru_next[n] => lru_prev'[x] = lru_prev[x]
    BY <1>8, <1>11 DEF Base, m
  <2>3. lru_next'[lru_prev[n]] = lru_next[n] /\ lru_prev'[lru_next[n]] = lru_prev[n]
        /\ lru_prev[n] # HEAD
    BY <1>2, <1>11 DEF p, m
  <2>4. \A u \in Threads : Pending(u)' = Pending(u)
    BY <1>5 DEF SameClaims
  <2>. QED
    BY <1>1, <1>8, <2>1, <2>2, <2>3, <2>4, LruWithout
<1>14. PICK taken2 : TakenIs(taken2)' /\ Range(taken2) = K \cup {n}
  <2>1. /\ \A x \in Base : x # a /\ x \notin L => lru_next'[x] = lru_next[x]
        /\ \A x \in Base : x # TAIL /\ x \notin L => lru_prev'[x] = lru_prev[x]
    BY <1>8, <1>9, <1>11
  <2>. QED
    BY <1>1, <1>4, <1>8, <1>11, <2>1, TakenGrows
<1>15. PlacesOK(Range(list2), Range(taken2))'
  <2>1. ASSUME NEW x \in Nodes
        PROVE  x \in Range(list2) <=> /\ x \in Cached' \/ \E u \in Threads : x \in Evicting(u)'
                                      /\ x \notin Range(taken2)
                                      /\ \A u \in Threads : x \notin Unlinked(u)'
    <3>1. \A u \in Threads : Evicting(u)' = Evicting(u) /\ Unlinked(u)' = Unlinked(u)
      BY <1>5 DEF SameClaims
    <3>. QED
      BY <1>1, <1>12, <1>13, <1>14, <3>1 DEF PlacesOK
  <2>2. Range(taken2) \subseteq Cached'
    BY <1>1, <1>7, <1>12, <1>14 DEF PlacesOK
  <2>3. \A u \in Threads : Owned(u)' \cap Range(taken2) = {}
    BY <1>1, <1>5, <1>7, <1>14 DEF PlacesOK
  <2>4. SliceSet' \cap Range(taken2) \subseteq Clearing'
    BY <1>1, <1>4, <1>12, <1>14 DEF PlacesOK
  <2>. QED
    BY <2>1, <2>2, <2>3, <2>4 DEF PlacesOK
<1>16. ThreadOK(t, Range(list2), Range(taken2))'
  <2>1. PullerOK(t)'
    BY <1>2, <1>7 DEF PullerOK
  <2>2. InserterOK(t)' /\ AdderOK(t, Range(list2), Range(taken2))'
    BY <1>2 DEF InserterOK, AdderOK, Falsely, Filled, Late, If, Adding
  <2>. QED
    BY <1>2, <2>1, <2>2 DEF ThreadOK, FinderOK, PurgerOK, FindLocked
<1>17. ASSUME NEW u \in Threads, u # t
       PROVE  AdderOK(u, Range(list2), Range(taken2))' /\ PurgerOK(u, Range(list2))'
  <2>1. /\ \A x \in Base : x # a /\ x # lru_prev[n] => lru_next'[x] = lru_next[x]
        /\ \A x \in Base : x # n /\ x # lru_next[n] => lru_prev'[x] = lru_prev[x]
        /\ lru_prev[n] # HEAD
    BY <1>2, <1>11 DEF p, m
  <2>2. Range(list2) = L \ {n}
    BY <1>13
  <2>3. /\ lru_lock = t /\ n \in L /\ a \notin L /\ u # t
        /\ n \notin Owned(u) /\ a \notin Owned(u)
    BY <1>3, <1>7, <1>8, <1>10, <1>17
  <2>. QED
    BY <2>1, <2>2, <2>3, WithoutOthers
<1>18. ListsAre(list2, back2, taken2)'
  BY <1>1, <1>2, <1>13, <1>14, <1>15, <1>16, <1>17, ThreadsStay DEF items
<1>19. ArrayTypes' /\ LocalTypes'
  BY <1>1, <1>2, <1>11 DEF ArrayTypes, LocalTypes, items, recent, requests
<1>13a. Reordered(t, list)
  BY <1>3, <1>13 DEF Reordered
<1>. QED
  BY <1>13a, <1>12, <1>18, <1>19 DEF Kept, ListsOK

-----------------------------------------------------------------------------
(* The steps that change nothing but the thread's own state.               *)
LEMMA QuietStepKeeps ==
  ASSUME NEW t \in Threads, NEW list, NEW back, NEW taken, Given(t, list, back, taken),
         QuietFind(t) \/ QuietAllocate(t) \/ QuietPurge(t) \/ QuietPull(t) \/ QuietLock(t)
  PROVE  Kept
<1>1. /\ Sound /\ Others(t) /\ NodesOK /\ ListsAre(list, back, taken) /\ MarkListsOK
      /\ LruIs(list, back) /\ TakenIs(taken) /\ ThreadOK(t, Range(list), Range(taken))
  BY DEF Given, ListsAre, NodesOK
<1>2. Quiet(t)
  BY <1>1, QuietSteps
<1>3. ThreadOK(t, Range(list), Range(taken))' /\ ArrayTypes' /\ LocalTypes'
  <2>1. CASE QuietFind(t)
    BY <1>1, <2>1, QuietFindKnows
  <2>2. CASE QuietAllocate(t)
    BY <1>1, <2>2, QuietAllocateKnows
  <2>3. CASE QuietPurge(t)
    BY <1>1, <2>3, QuietPurgeKnows
  <2>4. CASE QuietPull(t)
    BY <1>1, <2>4, QuietPullKnows
  <2>5. CASE QuietLock(t)
    BY <1>1, <2>5, QuietLockKnows
  <2>. QED
    BY <2>1, <2>2, <2>3, <2>4, <2>5
<1>4. NodesOK' /\ ListsAre(list, back, taken)'
  BY <1>1, <1>2, <1>3, QuietKeeps
<1>5. ListsOK'
  BY <1>4 DEF ListsOK
<1>. QED
  BY <1>3, <1>4, <1>5 DEF Kept

(* Every step of a call keeps the nodes and the lists.                     *)
LEMMA StepKeeps ==
  ASSUME NEW t \in Threads, Sound, NodesOK, ListsOK, PoolUndeceived, Step(t)
  PROVE  Kept
<1>1. PICK list, back, taken : ListsAre(list, back, taken)
  BY DEF ListsOK
<1>2. Given(t, list, back, taken)
  BY <1>1, OthersStay DEF Given
<1>3. \/ QuietFind(t) \/ QuietAllocate(t) \/ QuietPurge(t) \/ QuietPull(t) \/ QuietLock(t)
      \/ FindCopyUnmarked(t) \/ MarkCas(t) \/ MarkCasFails(t) \/ AllocCas(t)
      \/ FillNode(t) \/ addNodeToBucket(t) \/ InsertReturns(t)
      \/ AddFirst(t) \/ AddCas(t) \/ AddCasFails(t) \/ AddBack(t)
      \/ removeNodeFromBucket(t) \/ PurgeUnlink(t) \/ DisposeCas(t) \/ DisposeCasFails(t)
      \/ PullBegins(t) \/ PullSkipClear(t) \/ PullUnlink(t) \/ PullClear(t)
      \/ PullLowersFlag(t)
  BY DEF Step, Find, Allocate, Fill, AddSublist, Purge, Pull, QuietFind, QuietAllocate,
     QuietPurge, QuietPull, QuietLock
<1>4. CASE QuietFind(t) \/ QuietAllocate(t) \/ QuietPurge(t) \/ QuietPull(t) \/ QuietLock(t)
  BY <1>2, <1>4, QuietStepKeeps
<1>5. CASE FindCopyUnmarked(t) \/ MarkCas(t) \/ MarkCasFails(t)
  BY <1>2, <1>5, FindCopyUnmarkedKeeps, MarkCasKeeps, MarkCasFailsKeeps
<1>6. CASE AllocCas(t)
  BY <1>2, <1>6, AllocCasKeeps
<1>7. CASE FillNode(t) \/ addNodeToBucket(t) \/ InsertReturns(t)
  BY <1>2, <1>7, FillNodeKeeps, AddNodeToBucketKeeps, InsertReturnsKeeps
<1>8. CASE AddFirst(t) \/ AddCas(t) \/ AddCasFails(t) \/ AddBack(t)
  BY <1>2, <1>8, AddFirstKeeps, AddCasKeeps, AddCasFailsKeeps, AddBackKeeps
<1>9. CASE removeNodeFromBucket(t) \/ PurgeUnlink(t) \/ DisposeCas(t) \/ DisposeCasFails(t)
  BY <1>2, <1>9, RemoveNodeFromBucketKeeps, PurgeUnlinkKeeps, DisposeCasKeeps,
     DisposeCasFailsKeeps
<1>10. CASE PullBegins(t) \/ PullSkipClear(t) \/ PullUnlink(t) \/ PullClear(t)
            \/ PullLowersFlag(t)
  BY <1>2, <1>10, PullBeginsKeeps, PullSkipClearKeeps, PullUnlinkKeeps, PullClearKeeps,
     PullLowersFlagKeeps
<1>. QED
  BY <1>3, <1>4, <1>5, <1>6, <1>7, <1>8, <1>9, <1>10

-----------------------------------------------------------------------------
(* The node of an insert enters one bucket; an evicted one leaves its own. *)
LEMMA CachedGrows ==
  ASSUME NEW t \in Threads, NEW list, NEW back, NEW taken, Given(t, list, back, taken),
         addNodeToBucket(t)
  PROVE  Cached' = Cached \cup {node[t]} /\ node[t] \notin Cached
<1>. DEFINE b == keyToBucketNr(key[node[t]])
<1>1. /\ Sound /\ OwnersOK /\ ChainsOK /\ ArrayTypes /\ ThreadOK(t, Range(list), Range(taken))
  BY DEF Given, ListsAre, Sound, NodesOK
<1>2. /\ pc[t] = "add_to_bucket" /\ bucket' = [bucket EXCEPT ![b] = <<node[t]>> \o bucket[b]]
  BY DEF addNodeToBucket, Goto
<1>3. b \in Buckets
  BY <1>1, <1>2, BucketNrInRange DEF ThreadOK, InserterOK
<1>4. node[t] \in Hand(t)
  BY <1>2 DEF Hand, If, Filling
<1>5. node[t] \in Nodes /\ node[t] \notin Cached
  BY <1>1, <1>4 DEF OwnersOK
<1>6. /\ bucket[b] \in Seq(Nodes) /\ bucket'[b] = <<node[t]>> \o bucket[b]
      /\ \A c \in Buckets : c # b => bucket'[c] = bucket[c]
  BY <1>1, <1>2, <1>3 DEF ArrayTypes
<1>. HIDE DEF b
<1>7. Range(bucket'[b]) = Range(bucket[b]) \cup {node[t]}
  <2>1. node[t] \notin Range(bucket[b]) /\ Distinct(bucket[b], Nodes)
    BY <1>1, <1>3, <1>5 DEF Cached, ChainsOK
  <2>2. Range(<<node[t]>> \o bucket[b]) = Range(bucket[b]) \cup {node[t]}
    BY <1>5, <2>1, ConsDistinct
  <2>. QED
    BY <1>6, <2>2
<1>8. Cached' = Cached \cup {node[t]}
  BY <1>3, <1>6, <1>7 DEF Cached
<1>. QED
  BY <1>5, <1>8

(* An evicted node leaves its bucket, and is in no other.                  *)
LEMMA CachedShrinks ==
  ASSUME NEW t \in Threads, NEW list, NEW back, NEW taken, Given(t, list, back, taken),
         removeNodeFromBucket(t)
  PROVE  Cached' = Cached \ {node[t]} /\ node[t] \in Cached
<1>. DEFINE b == keyToBucketNr(key[node[t]])
<1>1. /\ Sound /\ ArrayTypes /\ ChainsOK /\ PlacesOK(Range(list), Range(taken))
      /\ ThreadOK(t, Range(list), Range(taken)) /\ Range(list) \subseteq Nodes
  BY ClaimedNodes DEF Given, ListsAre, Sound, NodesOK
<1>2. PICK i \in DOMAIN bucket[b] :
        bucket[b][i] = node[t] /\ bucket' = [bucket EXCEPT ![b] = RemoveAt(bucket[b], i)]
  BY DEF removeNodeFromBucket
<1>3. pc[t] = "purge_bucket" /\ node[t] \in Range(list)
  BY <1>1 DEF removeNodeFromBucket, Goto, ThreadOK, PurgerOK
<1>4. b \in Buckets
  <2>1. node[t] \in Cached \/ \E u \in Threads : node[t] \in Keyed(u)
    BY <1>1, <1>3 DEF PlacesOK, Keyed
  <2>2. key[node[t]] \in Keys
    BY <1>1, <1>3, <2>1 DEF ChainsOK, ArrayTypes
  <2>. QED
    BY <2>2, BucketNrInRange
<1>5. /\ bucket[b] \in Seq(Nodes) /\ Distinct(bucket[b], Nodes) /\ i \in 1 .. Len(bucket[b])
      /\ node[t] \in Range(bucket[b])
  <2>1. bucket[b] \in Seq(Nodes) /\ Distinct(bucket[b], Nodes)
    BY <1>1, <1>4 DEF ArrayTypes, ChainsOK
  <2>. QED
    BY <1>2, <2>1 DEF Range
<1>6. /\ Range(bucket'[b]) = Range(bucket[b]) \ {node[t]}
      /\ \A c \in Buckets : c # b => bucket'[c] = bucket[c]
  <2>1. Range(RemoveAt(bucket[b], i)) = Range(bucket[b]) \ {bucket[b][i]}
    BY <1>5, RemoveAtDistinct
  <2>2. bucket'[b] = RemoveAt(bucket[b], i) /\ \A c \in Buckets : c # b => bucket'[c] = bucket[c]
    BY <1>1, <1>2, <1>4 DEF ArrayTypes
  <2>. QED
    BY <1>2, <2>1, <2>2
<1>7. \A c \in Buckets : node[t] \in Range(bucket[c]) => c = b
  BY <1>1 DEF ChainsOK
<1>. HIDE DEF b
<1>8. \A c \in Buckets : Range(bucket'[c]) = Range(bucket[c]) \ {node[t]}
  BY <1>6, <1>7
<1>9. Cached' = Cached \ {node[t]}
  BY <1>8 DEF Cached
<1>10. node[t] \in Cached
  BY <1>4, <1>5 DEF Cached
<1>. QED
  BY <1>9, <1>10

-----------------------------------------------------------------------------
Counting(t) == ret[t] = "alloc_load" \/ pc[t] \in Filling

(* The other steps change no node's place and no reservation.              *)
LEMMA CountsStay ==
  ASSUME NEW t \in Threads, Sound, Step(t), ~addNodeToBucket(t), ~removeNodeFromBucket(t),
         ~PurgeUnlink(t), ~InsertBegins(t)
  PROVE  /\ UNCHANGED <<current_element_count, bucket>> /\ (Counting(t)' <=> Counting(t))
         /\ pc[t] # "purge_unlink" /\ pc'[t] # "purge_unlink"
<1>1. /\ pc \in [Threads -> PCs] /\ ret \in [Threads -> {"idle", "ins_begin", "alloc_load"}]
      /\ ReturnsOK(t)
  BY DEF Sound, ControlTypeOK, CallOK
<1>2. /\ pc[t] \in {"ins_begin"} => ret[t] = "ins_begin"
      /\ pc[t] = "find_lock" => ret[t] # "alloc_load"
      /\ pc[t] \in Allocating => ret[t] = "alloc_load"
      /\ pc[t] \in FindLocked \cup Filling \cup {"ins_done"} => ret[t] = "idle"
      /\ pc[t] \in Adding /\ lru_lock # t => ret[t] = "idle"
  BY <1>1 DEF ReturnsOK
<1>. USE <1>1, <1>2 DEF Counting, Goto, Return, Filling, Allocating, call, table
<1>3. CASE Find(t)
  BY <1>3 DEF Find, FindMiss, FindHit, FindCopyMarked, FindCopyUnmarked, MarkCas,
     MarkCasFails,
       MarkCount, BelowThreshold, RecentThresholdHit, requestPull
<1>4. CASE Allocate(t)
  BY <1>4 DEF Allocate, InsertBegins, AllocLoad, requestPurge, AllocNext, AllocCas,
     AllocCasFails
<1>5. CASE Fill(t) \/ AddSublist(t)
  BY <1>5 DEF Fill, FillNode, InsertReturns, AddSublist, AddFirst, AddCas, AddCasFails,
     AddBack
<1>6. CASE Purge(t)
  BY <1>6 DEF Purge, PurgeBegins, NoPurge, PurgeSkip, PurgeChoose, KeepInBucket, DisposeCas,
       DisposeCasFails, PurgeEnds, PurgeLowersFlag
<1>7. CASE Pull(t)
  BY <1>7 DEF Pull, PullBegins, NoPull, PullReset, PullSkip, PullSkipClear, PullUnlink,
       PullClear, PullFoundNone, PullAdds, PullLowersFlag
<1>8. CASE TryLock(t) \/ TryLockFails(t) \/ UnlockLru(t)
  BY <1>8 DEF TryLock, TryLockFails, UnlockLru
<1>. QED
  BY <1>3, <1>4, <1>5, <1>6, <1>7, <1>8 DEF Step

(* insert counts its node before it has one, and purgeOld takes it off     *)
(* when the node has left its bucket.                                      *)
LEMMA SizeKeeps ==
  ASSUME NEW t \in Threads, Sound, NodesOK, ListsOK, SizeOK, Step(t)
  PROVE  SizeOK'
<1>1. PICK list, back, taken : ListsAre(list, back, taken)
  BY DEF ListsOK
<1>2. Given(t, list, back, taken) /\ Others(t)
  BY <1>1, OthersStay DEF Given
<1>3. /\ pc \in [Threads -> PCs] /\ ret \in [Threads -> {"idle", "ins_begin", "alloc_load"}]
      /\ ReturnsOK(t)
  BY DEF Sound, ControlTypeOK, CallOK
<1>4. IsFiniteSet(Cached) /\ IsFiniteSet(Reserved) /\ IsFiniteSet(Purged)
  <2>1. Cached \subseteq Nodes /\ IsFiniteSet(Nodes)
    BY <1>2, ClaimedNodes, NodesFinite
  <2>2. Reserved \subseteq Threads /\ Purged \subseteq Threads
    BY DEF Reserved, Purged
  <2>. QED
    BY <2>1, <2>2, FS_Subset, ThreadAssumption
<1>5. /\ Cardinality(Cached) \in Nat /\ Cardinality(Reserved) \in Nat /\ Cardinality(Purged) \in Nat
      /\ current_element_count = Cardinality(Cached) + Cardinality(Reserved) + Cardinality(Purged)
  BY <1>4, FS_CardinalityType DEF SizeOK
<1>6. \A u \in Threads : u # t => /\ Counting(u)' <=> Counting(u)
                                  /\ pc'[u] = pc[u]
  BY <1>2 DEF Others, Still, Counting
<1>7. /\ Reserved' = {u \in Threads : Counting(u)'} /\ Reserved = {u \in Threads : Counting(u)}
      /\ Purged' = {u \in Threads : pc'[u] = "purge_unlink"}
      /\ Purged = {u \in Threads : pc[u] = "purge_unlink"}
  BY DEF Reserved, Purged, Counting
<1>8. CASE addNodeToBucket(t)
  <2>1. /\ current_element_count' = current_element_count /\ ret' = ret
        /\ pc[t] = "add_to_bucket" /\ pc'[t] = "add_first" /\ ret[t] = "idle"
    BY <1>3, <1>8 DEF addNodeToBucket, Goto, call, ReturnsOK, Filling
  <2>2. Cached' = Cached \cup {node[t]} /\ node[t] \notin Cached
    BY <1>2, <1>8, CachedGrows
  <2>3. Counting(t) /\ ~Counting(t)'
    BY <2>1 DEF Counting, Filling
  <2>4. Reserved' = Reserved \ {t} /\ t \in Reserved /\ Purged' = Purged
    BY <1>6, <1>7, <2>1, <2>3
  <2>5. /\ Cardinality(Cached') = Cardinality(Cached) + 1
        /\ Cardinality(Reserved') = Cardinality(Reserved) - 1
    BY <1>4, <2>2, <2>4, FS_AddElement, FS_RemoveElement
  <2>. QED
    BY <1>5, <2>1, <2>4, <2>5 DEF SizeOK
<1>9. CASE removeNodeFromBucket(t)
  <2>1. /\ current_element_count' = current_element_count /\ ret' = ret
        /\ pc[t] = "purge_bucket" /\ pc'[t] = "purge_unlink"
    BY <1>3, <1>9 DEF removeNodeFromBucket, Goto, call
  <2>2. Cached' = Cached \ {node[t]} /\ node[t] \in Cached
    BY <1>2, <1>9, CachedShrinks
  <2>3. Counting(t)' <=> Counting(t)
    BY <2>1 DEF Counting, Filling
  <2>4. Reserved' = Reserved /\ Purged' = Purged \cup {t} /\ t \notin Purged
    BY <1>6, <1>7, <2>1, <2>3
  <2>5. /\ Cardinality(Cached') = Cardinality(Cached) - 1
        /\ Cardinality(Purged') = Cardinality(Purged) + 1
    BY <1>4, <2>2, <2>4, FS_AddElement, FS_RemoveElement
  <2>. QED
    BY <1>5, <2>1, <2>4, <2>5 DEF SizeOK
<1>10. CASE PurgeUnlink(t)
  <2>1. /\ current_element_count' = current_element_count - 1 /\ ret' = ret
        /\ pc[t] = "purge_unlink" /\ pc'[t] = "dispose" /\ bucket' = bucket
    BY <1>3, <1>10 DEF PurgeUnlink, Goto, call, table
  <2>2. Cached' = Cached
    BY <2>1, CachedFrame
  <2>3. Counting(t)' <=> Counting(t)
    BY <2>1 DEF Counting, Filling
  <2>4. Reserved' = Reserved /\ Purged' = Purged \ {t} /\ t \in Purged
    BY <1>6, <1>7, <2>1, <2>3
  <2>5. Cardinality(Purged') = Cardinality(Purged) - 1
    BY <1>4, <2>4, FS_RemoveElement
  <2>. QED
    BY <1>5, <2>1, <2>2, <2>4, <2>5 DEF SizeOK
<1>11. CASE InsertBegins(t)
  <2>1. /\ current_element_count' = current_element_count + 1 /\ ret'[t] = "alloc_load"
        /\ pc[t] = "ins_begin" /\ pc'[t] = "alloc_next" /\ bucket' = bucket /\ ret[t] = "ins_begin"
    BY <1>3, <1>11 DEF InsertBegins, Goto, table, ReturnsOK
  <2>2. Cached' = Cached
    BY <2>1, CachedFrame
  <2>3. Counting(t)' /\ ~Counting(t)
    BY <2>1 DEF Counting, Filling
  <2>4. Reserved' = Reserved \cup {t} /\ t \notin Reserved /\ Purged' = Purged
    BY <1>6, <1>7, <2>1, <2>3
  <2>5. Cardinality(Reserved') = Cardinality(Reserved) + 1
    BY <1>4, <2>4, FS_AddElement
  <2>. QED
    BY <1>5, <2>1, <2>2, <2>4, <2>5 DEF SizeOK
<1>12. CASE /\ ~addNodeToBucket(t) /\ ~removeNodeFromBucket(t)
            /\ ~PurgeUnlink(t) /\ ~InsertBegins(t)
  <2>1. /\ current_element_count' = current_element_count /\ bucket' = bucket
        /\ Counting(t)' <=> Counting(t)
    BY <1>12, CountsStay
  <2>2. Cached' = Cached
    BY <2>1, CachedFrame
  <2>3. pc[t] # "purge_unlink" /\ pc'[t] # "purge_unlink"
    BY <1>12, CountsStay
  <2>4. Reserved' = Reserved /\ Purged' = Purged
    BY <1>6, <1>7, <2>1, <2>3
  <2>. QED
    BY <1>5, <2>1, <2>2, <2>4 DEF SizeOK
<1>. QED
  BY <1>8, <1>9, <1>10, <1>11, <1>12

-----------------------------------------------------------------------------
(* What allocateMemory leaves, with no call in progress.                   *)
FreshState ==
  /\ key = Fresh.key /\ value = Fresh.key /\ lru_next = Fresh.lru_next
  /\ lru_prev = Fresh.lru_prev /\ recent_next = Fresh.recent_next /\ bucket = Fresh.bucket
  /\ lru_lock = NULL /\ empty_head = 1 /\ recent_head = DUMMY /\ recent_count = 0
  /\ pull_request = FALSE /\ purge_request = FALSE /\ current_element_count = 0
  /\ \A t \in Threads : pc[t] = "idle" /\ ret[t] = "idle"

(* Its arrays have the types they should.                                  *)
LEMMA FreshArrays == FreshState => ArrayTypes
<1>. SUFFICES ASSUME FreshState PROVE ArrayTypes
  OBVIOUS
<1>1. Capacity \in Nat \ {0} /\ 1 \in Nodes
  BY SizeAssumption DEF Nodes
<1>2. /\ key = [n \in Nodes |-> NoKey] /\ value = key
      /\ lru_next = [n \in Base |-> CASE n = HEAD -> TAIL
                                       [] n \in 1 .. Capacity - 1 -> n + 1
                                       [] OTHER -> NULL]
      /\ lru_prev = [n \in Base |-> IF n = TAIL THEN HEAD ELSE NULL]
      /\ recent_next = [n \in Nodes |-> NULL]
      /\ bucket = [b \in Buckets |-> <<>>]
  BY DEF FreshState, Fresh
<1>3. lru_next \in [Base -> Nodes \cup {TAIL, NULL}]
  BY <1>1, <1>2 DEF Nodes
<1>4. bucket \in [Buckets -> Seq(Nodes)]
  BY <1>2
<1>5. /\ key \in [Nodes -> Keys \cup {NoKey}] /\ value = key
      /\ lru_prev \in [Base -> Nodes \cup {HEAD, TEMP, NULL}]
      /\ recent_next \in [Nodes -> Nodes \cup {DUMMY, NULL}]
  <2>1. /\ key = [n \in Nodes |-> NoKey] /\ value = key
        /\ lru_prev = [n \in Base |-> IF n = TAIL THEN HEAD ELSE NULL]
        /\ recent_next = [n \in Nodes |-> NULL]
    BY <1>2
  <2>. QED
    BY <2>1
<1>6. /\ empty_head \in Nodes \cup {NULL} /\ recent_head \in Nodes \cup {DUMMY}
      /\ recent_count \in Nat /\ pull_request \in BOOLEAN /\ purge_request \in BOOLEAN
  BY <1>1 DEF FreshState
<1>. QED
  BY <1>3, <1>4, <1>5, <1>6 DEF ArrayTypes

(* Every node is in the pool, in the order of the array.                   *)
LEMMA FreshPool == FreshState => PoolOK /\ Pool = Nodes
<1>. SUFFICES ASSUME FreshState PROVE PoolOK /\ Pool = Nodes
  OBVIOUS
<1>1. Capacity \in Nat \ {0} /\ 1 \in Nodes /\ empty_head = 1 /\ Nodes = 1 .. Capacity
  BY SizeAssumption DEF Nodes, FreshState
<1>2. PICK list : list = [i \in 1 .. Capacity |-> i]
  OBVIOUS
<1>3. /\ list \in Seq(Nodes) /\ Len(list) = Capacity /\ DOMAIN list = 1 .. Capacity
      /\ \A i \in 1 .. Capacity : list[i] = i
  BY <1>1, <1>2
<1>4. Distinct(list, Nodes) /\ Range(list) = Nodes
  BY <1>1, <1>3 DEF Distinct, IsInjective, Range
<1>5. \A n \in Nodes : lru_next[n] = IF n \in 1 .. Capacity - 1 THEN n + 1 ELSE NULL
  <2>1. lru_next = [n \in Base |-> CASE n = HEAD -> TAIL
                                     [] n \in 1 .. Capacity - 1 -> n + 1
                                     [] OTHER -> NULL]
    BY DEF FreshState, Fresh
  <2>. QED
    BY <2>1, PointersDiffer DEF Base
<1>6. Leads(list, 1, lru_next, NULL)
  <2>1. list # <<>> /\ list[1] = 1 /\ list[Len(list)] = Capacity
    BY <1>1, <1>3
  <2>2. lru_next[Capacity] = NULL
    BY <1>1, <1>5
  <2>3. \A i \in 1 .. Len(list) - 1 : lru_next[list[i]] = list[i + 1]
    BY <1>1, <1>3, <1>5
  <2>. QED
    BY <2>1, <2>2, <2>3 DEF Leads
<1>7. /\ Follow(1, lru_next, Nodes, Capacity) = list
      /\ Arrives(1, lru_next, NULL, Nodes, Capacity)
  <2>1. /\ IsFiniteSet(Nodes) /\ Capacity \in Nat /\ Cardinality(Nodes) <= Capacity + 1
        /\ NULL \notin Nodes
    BY NodesFinite, PointersDiffer
  <2>. QED
    BY <1>4, <1>6, <2>1, EndsIs
<1>. QED
  BY <1>1, <1>4, <1>7 DEF PoolOK, Path, Pool, Reached, Walk

(* No node is in a bucket, marked or in a thread's hands.                  *)
LEMMA FreshNodes == FreshState => NodesOK /\ Cached = {} /\ SliceSet = {}
<1>. SUFFICES ASSUME FreshState PROVE NodesOK /\ Cached = {} /\ SliceSet = {}
  OBVIOUS
<1>1. /\ \A b \in Buckets : bucket[b] = <<>> /\ Range(bucket[b]) = {}
      /\ \A n \in Nodes : key[n] = NoKey /\ recent_next[n] = NULL
  BY DEF FreshState, Fresh, Range
<1>2. \A t \in Threads : /\ Hand(t) = {} /\ Late(t) = {} /\ Owned(t) = {} /\ Filled(t) = {}
                         /\ Falsely(t) = {} /\ Marking(t) = {} /\ Keyed(t) = {}
  BY DEF FreshState, Hand, Late, Owned, Filled, Falsely, Marking, Keyed, Evicting, If,
     Filling,
     Adding
<1>3. Cached = {}
  BY <1>1 DEF Cached
<1>4. PoolOK /\ Pool = Nodes
  BY FreshPool
<1>5. OwnersOK
  BY <1>2, <1>3, <1>4 DEF OwnersOK
<1>6. ChainsOK
  <2>1. Distinct(<<>>, Nodes)
    BY DEF Distinct, IsInjective
  <2>. QED
    BY <1>1, <1>2, <1>3, <2>1 DEF ChainsOK
<1>7. recent_head = DUMMY /\ SliceHead = DUMMY
  BY DEF FreshState, SliceHead, Consolidates
<1>8. MarkListsOK /\ Recent = {} /\ SliceSet = {}
  BY <1>7, PathNone, PointersDiffer DEF MarkListsOK, Recent, SliceSet
<1>9. MarksOK
  BY <1>1, <1>2, <1>8 DEF MarksOK
<1>. QED
  BY <1>3, <1>4, <1>5, <1>6, <1>8, <1>9 DEF NodesOK

(* Both lists are empty, and nobody is in a call.                          *)
LEMMA FreshLists == FreshState => ListsOK
<1>. SUFFICES ASSUME FreshState PROVE ListsOK
  OBVIOUS
<1>0. PICK none : none = <<>>
  OBVIOUS
<1>1. Distinct(none, Nodes) /\ Range(none) = {} /\ Len(none) = 0
  BY <1>0 DEF Distinct, IsInjective, Range
<1>2. lru_next[HEAD] = TAIL /\ lru_prev[TAIL] = HEAD
  <2>1. /\ lru_next = [n \in Base |-> CASE n = HEAD -> TAIL
                                         [] n \in 1 .. Capacity - 1 -> n + 1
                                         [] OTHER -> NULL]
        /\ lru_prev = [n \in Base |-> IF n = TAIL THEN HEAD ELSE NULL]
    BY DEF FreshState, Fresh
  <2>2. HEAD \notin 1 .. Capacity - 1 /\ HEAD \in Base /\ TAIL \in Base
    BY PointersDiffer, SizeAssumption DEF Nodes, Base
  <2>3. lru_prev[TAIL] = HEAD
    BY <2>1, <2>2, Zenon
  <2>4. lru_next[HEAD] = CASE HEAD = HEAD -> TAIL
                           [] HEAD \in 1 .. Capacity - 1 -> HEAD + 1
                           [] OTHER -> NULL
    BY <2>1, <2>2, Zenon
  <2>. QED
    BY <2>2, <2>3, <2>4, Zenon
<1>3. LruIs(none, lru_prev)
  <2>1. IsWhole(HEAD, none, TAIL, lru_next, lru_prev)
    BY <1>1, <1>2 DEF IsWhole, Spot
  <2>. QED
    BY <1>1, <2>1 DEF LruIs
<1>4. LastTaken = TEMP /\ Clearing = {} /\ Joining = {}
  BY DEF FreshState, LastTaken, Clearing, Joining, Consolidates, If
<1>5. TakenIs(none)
  <2>1. TakenNext[TEMP] = TAIL /\ TakenPrev[TAIL] = TEMP
    BY <1>4 DEF TakenNext, TakenPrev, Base
  <2>2. IsWhole(TEMP, none, TAIL, TakenNext, TakenPrev)
    BY <1>1, <2>1 DEF IsWhole, Spot
  <2>. QED
    BY <1>1, <2>2 DEF TakenIs
<1>6. PlacesOK(Range(none), Range(none))
  <2>1. \A t \in Threads : Evicting(t) = {}
    BY DEF FreshState, Evicting, If
  <2>. QED
    BY <1>1, <2>1, FreshNodes DEF PlacesOK
<1>7. \A t \in Threads : ThreadOK(t, Range(none), Range(none))
  BY DEF FreshState, ThreadOK, FinderOK, InserterOK, AdderOK, PurgerOK, PullerOK,
     Falsely, Filled,
     Late, If, Adding, FindLocked
<1>. QED
  BY <1>3, <1>5, <1>6, <1>7 DEF ListsOK, ListsAre

(* No element is counted.                                                  *)
LEMMA FreshSize == FreshState => SizeOK
<1>. SUFFICES ASSUME FreshState PROVE SizeOK
  OBVIOUS
<1>1. Cached = {} /\ Reserved = {} /\ Purged = {}
  BY FreshNodes DEF FreshState, Reserved, Purged, Filling
<1>2. Cardinality({}) = 0
  BY FS_EmptySet
<1>. QED
  BY <1>1, <1>2 DEF SizeOK, FreshState

(* So the invariant holds of it.                                           *)
LEMMA FreshHolds == FreshState => ArrayTypes /\ NodesOK /\ ListsOK /\ SizeOK
BY FreshArrays, FreshNodes, FreshLists, FreshSize

-----------------------------------------------------------------------------
(* The invariant holds of a new cache.                                     *)
LEMMA InitHolds == Init => IInv
<1>. SUFFICES ASSUME Init PROVE IInv
  OBVIOUS
<1>1. FreshState /\ current_element_count \in Nat
  BY DEF Init, FreshState
<1>2. ControlTypeOK /\ LockDiscipline
  BY InitControl
<1>3. FunctionsOK /\ FoundInBucket
  BY DEF Init, Fresh, FunctionsOK, FoundInBucket, FindLocked
<1>4. LocalTypes
  BY SizeAssumption DEF Init, LocalTypes
<1>5. CallOK
  BY DEF Init, CallOK, ReturnsOK, FindLocked, Filling, Allocating, Adding
<1>. QED
  BY <1>1, <1>2, <1>3, <1>4, <1>5, FreshHolds DEF IInv, Sound

(* No step of a call takes memory or gives it back.                        *)
LEMMA StepAllocated ==
  ASSUME NEW t \in Threads, Sound, Step(t)
  PROVE  allocated /\ allocated'
<1>1. allocated' = allocated
  BY DEF Step, Find, FindMiss, FindHit, FindCopyMarked, FindCopyUnmarked, MarkCas,
     MarkCasFails,
       MarkCount, BelowThreshold, RecentThresholdHit, requestPull,
       Allocate, InsertBegins, AllocLoad, requestPurge, AllocNext, AllocCas, AllocCasFails,
       Fill, FillNode, addNodeToBucket, InsertReturns, AddSublist, AddFirst, AddCas,
       AddCasFails, AddBack, Purge, PurgeBegins, NoPurge, PurgeSkip, PurgeChoose,
       removeNodeFromBucket, KeepInBucket, PurgeUnlink, DisposeCas, DisposeCasFails, PurgeEnds,
       PurgeLowersFlag, Pull, PullBegins, NoPull, PullReset, PullSkip, PullSkipClear, PullUnlink,
       PullClear, PullFoundNone, PullAdds, PullLowersFlag, TryLock, TryLockFails, UnlockLru
<1>2. pc[t] # "idle"
  BY DEF Goto, Step, Find, FindMiss, FindHit, FindCopyMarked, FindCopyUnmarked, MarkCas,
     MarkCasFails,
       MarkCount, BelowThreshold, RecentThresholdHit, requestPull,
       Allocate, InsertBegins, AllocLoad, requestPurge, AllocNext, AllocCas, AllocCasFails,
       Fill, FillNode, addNodeToBucket, InsertReturns, AddSublist, AddFirst, AddCas,
       AddCasFails, AddBack, Purge, PurgeBegins, NoPurge, PurgeSkip, PurgeChoose,
       removeNodeFromBucket, KeepInBucket, PurgeUnlink, DisposeCas, DisposeCasFails, PurgeEnds,
       PurgeLowersFlag, Pull, PullBegins, NoPull, PullReset, PullSkip, PullSkipClear, PullUnlink,
       PullClear, PullFoundNone, PullAdds, PullLowersFlag, TryLock, TryLockFails, UnlockLru
<1>. QED
  BY <1>1, <1>2 DEF Sound, ControlTypeOK, AllIdle

(* Nor does a thread that starts a call know anything.                     *)
LEMMA StartKeeps ==
  ASSUME NEW t \in Threads, Sound, NodesOK, ListsOK, SizeOK, StartAny(t)
  PROVE  Kept /\ SizeOK' /\ CallOK'
<1>1. PICK op \in Calls, k \in Keys : Start(t, op, k)
  BY DEF StartAny
<1>2. /\ pc \in [Threads -> PCs] /\ ret \in [Threads -> {"idle", "ins_begin", "alloc_load"}]
      /\ arg \in [Threads -> Keys \cup {NoKey}] /\ ArrayTypes /\ LocalTypes /\ CallOK
      /\ pc[t] = "idle" /\ pc' = [pc EXCEPT ![t] = IF op = "insert" THEN "ins_begin" ELSE "find_lock"]
      /\ ret' = [ret EXCEPT ![t] = IF op = "find" THEN "idle" ELSE "ins_begin"]
      /\ arg' = [arg EXCEPT ![t] = k]
      /\ UNCHANGED <<items, links, recent_next, table, lru_lock, empty_head, recent,
                     requests, current_element_count, allocated, locals>>
  BY <1>1 DEF Start, Goto, Sound, ControlTypeOK
<1>3. pc'[t] \in {"ins_begin", "find_lock"} /\ ret'[t] \in {"idle", "ins_begin"} /\ arg'[t] \in Keys
      /\ (pc'[t] = "ins_begin" => ret'[t] = "ins_begin") /\ ret[t] = "idle"
  BY <1>2 DEF CallOK, ReturnsOK
<1>4. \A u \in Threads : u # t => Still(u)
  BY <1>2 DEF Still, locals
<1>5. Others(t)
  BY <1>4, StillClaims DEF Others
<1>6. SameClaims(t)
  BY <1>2, <1>3 DEF SameClaims, Hand, Late, Filled, Marking, Evicting, Unlinked, Pending,
     If,
     Adding, Filling
<1>7. SameTaken
  <2>1. lru_lock # t /\ lru_lock' = lru_lock
    BY <1>2, ApiAssumption DEF Sound, LockDiscipline, Consolidating, Purging, Pulling,
       Adding
  <2>. QED
    BY <1>5, <2>1, SameTakenByOthers
<1>8. Quiet(t)
  BY <1>2, <1>6, <1>7 DEF Quiet, table, recent
<1>9. PICK list, back, taken : ListsAre(list, back, taken)
  BY DEF ListsOK
<1>10. ThreadOK(t, Range(list), Range(taken))'
  BY <1>3, NothingKnown
<1>11. NodesOK' /\ ListsAre(list, back, taken)' /\ Cached' = Cached
  BY <1>5, <1>8, <1>9, <1>10, QuietKeeps
<1>12. ArrayTypes' /\ LocalTypes'
  BY <1>2 DEF ArrayTypes, LocalTypes, items, links, table, recent, requests, locals
<1>13. CallOK'
  <2>1. ReturnsOK(t)'
    BY <1>3 DEF ReturnsOK, FindLocked, Filling, Allocating, Adding
  <2>2. \A u \in Threads : u # t => ReturnsOK(u)'
    BY <1>2, <1>4 DEF CallOK, ReturnsOK, Still
  <2>. QED
    BY <2>1, <2>2 DEF CallOK
<1>14. SizeOK'
  <2>1. Reserved' = Reserved /\ Purged' = Purged
    BY <1>2, <1>3, <1>4 DEF Reserved, Purged, Filling, Still
  <2>. QED
    BY <1>2, <1>11, <2>1 DEF SizeOK
<1>15. ListsOK'
  BY <1>11 DEF ListsOK
<1>. QED
  BY <1>11, <1>12, <1>13, <1>14, <1>15 DEF Kept

-----------------------------------------------------------------------------
(* The sets that the count of the elements is about are finite.            *)
LEMMA SizesFinite ==
  ASSUME ArrayTypes
  PROVE  /\ IsFiniteSet(Cached) /\ Cached \subseteq Nodes /\ Cardinality(Cached) \in Nat
         /\ IsFiniteSet(Reserved) /\ Reserved \subseteq Threads /\ Cardinality(Reserved) \in Nat
         /\ IsFiniteSet(Purged) /\ Cardinality(Purged) \in Nat
<1>1. IsFiniteSet(Nodes) /\ IsFiniteSet(Threads)
  BY NodesFinite, ThreadAssumption
<1>2. Cached \subseteq Nodes
  BY DEF Cached, Range, ArrayTypes
<1>3. Reserved \subseteq Threads /\ Purged \subseteq Threads
  BY DEF Reserved, Purged
<1>4. IsFiniteSet(Cached) /\ IsFiniteSet(Reserved) /\ IsFiniteSet(Purged)
  BY <1>1, <1>2, <1>3, FS_Subset
<1>. QED
  BY <1>2, <1>3, <1>4, FS_CardinalityType

(* The count of the elements never falls below zero.                       *)
LEMMA SizeIsNat == ArrayTypes /\ SizeOK => current_element_count \in Nat
BY SizesFinite DEF SizeOK

(* Nothing changes when no variable does.                                  *)
LEMMA NothingMoves ==
  ASSUME NodesOK, ListsOK, SizeOK,
         UNCHANGED <<items, links, recent_next, table, lru_lock, empty_head, recent,
                     requests, current_element_count, allocated, pc, call, locals>>
  PROVE  NodesOK' /\ ListsOK' /\ SizeOK'
<1>1. /\ key' = key /\ lru_next' = lru_next /\ lru_prev' = lru_prev
      /\ recent_next' = recent_next /\ bucket' = bucket /\ lru_lock' = lru_lock
      /\ empty_head' = empty_head /\ recent_head' = recent_head
      /\ current_element_count' = current_element_count /\ pc' = pc /\ ret' = ret /\ arg' = arg
      /\ node' = node /\ next' = next /\ prev' = prev /\ freed' = freed
  BY DEF items, links, table, recent, call, locals
<1>2. ASSUME NEW t \in Threads
      PROVE  /\ Hand(t)' = Hand(t) /\ Late(t)' = Late(t) /\ Owned(t)' = Owned(t)
             /\ Filled(t)' = Filled(t) /\ Falsely(t)' = Falsely(t) /\ Marking(t)' = Marking(t)
             /\ Evicting(t)' = Evicting(t) /\ Keyed(t)' = Keyed(t)
             /\ Unlinked(t)' = Unlinked(t) /\ Pending(t)' = Pending(t)
  BY <1>1 DEF Hand, Late, Owned, Filled, Falsely, Marking, Evicting, Keyed, Unlinked,
     Pending, If
<1>3. Cached' = Cached
  BY <1>1 DEF Cached
<1>4. /\ Reserved' = Reserved /\ Purged' = Purged
  BY <1>1 DEF Reserved, Purged
<1>5. /\ Pool' = Pool /\ Recent' = Recent /\ SliceHead' = SliceHead /\ SliceSet' = SliceSet
      /\ Clearing' = Clearing /\ LastTaken' = LastTaken /\ Joining' = Joining
  BY <1>1 DEF Pool, Recent, SliceHead, SliceSet, Clearing, LastTaken, Joining,
     Consolidates, If,
     Reached, Walk
<1>6. TakenNext' = TakenNext /\ TakenPrev' = TakenPrev
  BY <1>1, <1>5 DEF TakenNext, TakenPrev
<1>7. OwnersOK' /\ ChainsOK' /\ PoolOK' /\ MarkListsOK' /\ MarksOK'
  <2>1. OwnersOK'
    BY <1>2, <1>3, <1>5 DEF NodesOK, OwnersOK
  <2>2. ChainsOK'
    BY <1>1, <1>2, <1>3 DEF NodesOK, ChainsOK, keyToBucketNr
  <2>3. PoolOK' /\ MarkListsOK'
    BY <1>1, <1>5 DEF NodesOK, PoolOK, MarkListsOK, Path
  <2>4. MarksOK'
    BY <1>1, <1>2, <1>3, <1>5 DEF NodesOK, MarksOK
  <2>. QED
    BY <2>1, <2>2, <2>3, <2>4
<1>8. PICK list, back, taken : ListsAre(list, back, taken)
  BY DEF ListsOK
<1>9. LruIs(list, back)' /\ TakenIs(taken)'
  BY <1>1, <1>2, <1>6, <1>8 DEF ListsAre, LruIs, TakenIs
<1>10. PlacesOK(Range(list), Range(taken))'
  BY <1>2, <1>3, <1>5, <1>8 DEF ListsAre, PlacesOK
<1>11. ASSUME NEW t \in Threads PROVE ThreadOK(t, Range(list), Range(taken))'
  <2>1. ThreadOK(t, Range(list), Range(taken))
    BY <1>8 DEF ListsAre
  <2>. QED
    BY <1>1, <1>2, <2>1 DEF ThreadOK, FinderOK, InserterOK, AdderOK, PurgerOK, PullerOK
<1>. QED
  BY <1>1, <1>3, <1>4, <1>7, <1>9, <1>10, <1>11 DEF NodesOK, ListsOK, ListsAre, SizeOK

(* Every step keeps what does not depend on the memory being there.        *)
LEMMA ReleaseKeeps ==
  ASSUME IInv, releaseMemory
  PROVE  ArrayTypes' /\ LocalTypes' /\ CallOK' /\ current_element_count' \in Nat /\ ~allocated'
<1>1. /\ ArrayTypes /\ LocalTypes /\ CallOK /\ current_element_count \in Nat
  BY DEF IInv, Sound
<1>2. PICK chained : /\ key' = [n \in Nodes |-> IF n \in chained THEN NoKey ELSE key[n]]
                     /\ value' = [n \in Nodes |-> IF n \in chained THEN NoKey ELSE value[n]]
  BY DEF releaseMemory
<1>3. key' \in [Nodes -> Keys \cup {NoKey}] /\ value' = key'
  BY <1>1, <1>2 DEF ArrayTypes
<1>4. bucket' \in [Buckets -> Seq(Nodes)]
  <2>1. bucket' = [b \in Buckets |-> <<>>]
    BY DEF releaseMemory, Fresh
  <2>. QED
    BY <2>1
<1>5. /\ UNCHANGED <<links, recent_next, lru_lock, empty_head, recent, requests,
                     current_element_count, pc, call, locals>>
      /\ ~allocated'
  BY DEF releaseMemory
<1>6. ArrayTypes'
  BY <1>1, <1>3, <1>4, <1>5 DEF ArrayTypes, links, recent, requests
<1>7. LocalTypes' /\ CallOK'
  BY <1>1, <1>5 DEF LocalTypes, CallOK, ReturnsOK, locals, call
<1>. QED
  BY <1>1, <1>5, <1>6, <1>7

(* allocateMemory finds all threads idle, and leaves the state of a new    *)
(* cache.                                                                  *)
LEMMA AllocateFresh ==
  ASSUME IInv, allocateMemory
  PROVE  FreshState' /\ LocalTypes' /\ CallOK'
<1>1. /\ LocalTypes /\ CallOK /\ AllIdle /\ lru_lock \in Threads \cup {NULL}
      /\ LockDiscipline
  BY DEF IInv, Sound, ControlTypeOK, allocateMemory
<1>2. UNCHANGED <<lru_lock, pc, call, locals>>
  BY DEF allocateMemory
<1>3. lru_lock = NULL
  BY <1>1 DEF LockDiscipline, AllIdle, Consolidating, Adding, Purging, Pulling
<1>4. \A t \in Threads : pc[t] = "idle" /\ ret[t] = "idle"
  BY <1>1 DEF AllIdle, CallOK, ReturnsOK
<1>5. \A t \in Threads : pc'[t] = "idle" /\ ret'[t] = "idle"
  BY <1>2, <1>4 DEF call
<1>6. Fresh' = Fresh
  BY DEF Fresh
<1>7. /\ key' = Fresh.key /\ value' = Fresh.key /\ lru_next' = Fresh.lru_next
      /\ lru_prev' = Fresh.lru_prev /\ recent_next' = Fresh.recent_next
      /\ bucket' = Fresh.bucket /\ empty_head' = 1 /\ recent_head' = DUMMY
      /\ recent_count' = 0 /\ pull_request' = FALSE /\ purge_request' = FALSE
      /\ current_element_count' = 0
  BY DEF allocateMemory
<1>8. FreshState'
  BY <1>2, <1>3, <1>5, <1>6, <1>7 DEF FreshState
<1>9. LocalTypes' /\ CallOK'
  BY <1>1, <1>2 DEF LocalTypes, CallOK, ReturnsOK, locals, call
<1>. QED
  BY <1>8, <1>9

(* The invariant is inductive while the pool is not deceived.              *)
LEMMA NextHolds ==
  ASSUME IInv, PoolUndeceived, [Next]_vars
  PROVE  IInv'
<1>1. Sound /\ current_element_count \in Nat /\ (allocated => NodesOK /\ ListsOK /\ SizeOK)
  BY DEF IInv
<1>2. ControlTypeOK' /\ LockDiscipline'
  BY <1>1, NextControl DEF Sound
<1>3. FunctionsOK' /\ FoundInBucket'
  BY <1>1, NextHit DEF Sound, HitInv
<1>4. ASSUME ArrayTypes', LocalTypes', CallOK', allocated' => NodesOK' /\ ListsOK' /\ SizeOK',
             current_element_count' \in Nat
      PROVE  IInv'
  BY <1>2, <1>3, <1>4 DEF IInv, Sound
<1>5. ASSUME ArrayTypes', LocalTypes', CallOK', NodesOK', ListsOK', SizeOK'
      PROVE  IInv'
  <2>1. current_element_count' \in Nat
    <3>1. (current_element_count \in Nat)'
      BY <1>5, SizeIsNat, PTL
    <3>. QED
      BY <3>1
  <2>. QED
    BY <1>4, <1>5, <2>1
<1>6. ASSUME NEW t \in Threads, StartAny(t) PROVE IInv'
  <2>1. allocated
    BY <1>6 DEF StartAny, Start
  <2>. QED
    BY <1>1, <1>5, <1>6, <2>1, StartKeeps DEF Kept
<1>7. ASSUME NEW t \in Threads, Step(t) PROVE IInv'
  <2>1. NodesOK /\ ListsOK /\ SizeOK
    BY <1>1, <1>7, StepAllocated
  <2>2. Kept
    BY <1>1, <1>7, <2>1, StepKeeps
  <2>3. SizeOK' /\ CallOK'
    BY <1>1, <1>7, <2>1, SizeKeeps, StepCall
  <2>. QED
    BY <1>5, <2>2, <2>3 DEF Kept
<1>8. CASE releaseMemory
  BY <1>4, <1>8, ReleaseKeeps
<1>9. CASE allocateMemory
  <2>1. FreshState' /\ LocalTypes' /\ CallOK'
    BY <1>9, AllocateFresh
  <2>2. ArrayTypes' /\ NodesOK' /\ ListsOK' /\ SizeOK'
    BY <2>1, FreshHolds, PTL
  <2>. QED
    BY <1>5, <2>1, <2>2
<1>10. CASE UNCHANGED vars
  <2>1. UNCHANGED <<items, links, recent_next, table, lru_lock, empty_head, recent,
                    requests, current_element_count, allocated, pc, call, locals>>
    BY <1>10 DEF vars
  <2>2. ArrayTypes' /\ LocalTypes' /\ CallOK' /\ current_element_count' \in Nat
    BY <1>1, <2>1 DEF Sound, ArrayTypes, LocalTypes, CallOK, ReturnsOK, items, links, table,
       recent, requests, call, locals
  <2>3. ASSUME allocated' PROVE NodesOK' /\ ListsOK' /\ SizeOK'
    <3>1. NodesOK /\ ListsOK /\ SizeOK
      BY <1>1, <2>1, <2>3
    <3>. QED
      BY <2>1, <3>1, NothingMoves
  <2>. QED
    BY <1>4, <2>2, <2>3
<1>. QED
  BY <1>6, <1>7, <1>8, <1>9, <1>10 DEF Next

-----------------------------------------------------------------------------
(* No step touches the links of the nodes in the pool: it changes those of *)
(* nodes in the lists and of nodes that the thread has for itself.         *)
LEMMA PoolLinksStay ==
  ASSUME NEW t \in Threads, NEW list, NEW back, NEW taken, Given(t, list, back, taken), Step(t)
  PROVE  \A n \in Pool : lru_next'[n] = lru_next[n]
<1>. DEFINE L == Range(list)
            K == Range(taken)
<1>1. /\ Sound /\ OwnersOK /\ PoolOK /\ PlacesOK(L, K) /\ ThreadOK(t, L, K) /\ ArrayTypes
      /\ L \subseteq Nodes /\ K \subseteq Nodes
  BY ClaimedNodes DEF Given, ListsAre, Sound, NodesOK
<1>2. Pool \subseteq Nodes
  BY <1>1, PathStart, PointersDiffer DEF PoolOK, Pool
<1>3. L \cap Pool = {} /\ K \cap Pool = {} /\ HEAD \notin Pool /\ TEMP \notin Pool
  <2>1. \A u \in Threads : Evicting(u) \subseteq Hand(u)
    BY DEF Evicting, Hand, If
  <2>. QED
    BY <1>1, <1>2, <2>1, PointersDiffer DEF PlacesOK, OwnersOK
<1>4. CASE AddFirst(t) \/ AddCasFails(t)
  <2>1. pc[t] \in {"add_first", "add_cas"} /\ prev[t] \in {node[t], prev[t]}
    BY <1>4 DEF AddFirst, AddCasFails, Goto
  <2>2. prev[t] \notin Pool
    BY <2>1, AdderHolds
  <2>3. lru_next' = [lru_next EXCEPT ![prev[t]] = lru_next[HEAD]]
    BY <1>4 DEF AddFirst, AddCasFails, LinkToLruHead
  <2>. QED
    BY <1>1, <1>2, <2>2, <2>3 DEF ArrayTypes, Base
<1>5. CASE AddCas(t) \/ PullLowersFlag(t)
  <2>1. PICK x \in {HEAD, TEMP} : \E y : lru_next' = [lru_next EXCEPT ![x] = y]
    BY <1>5 DEF AddCas, PullLowersFlag
  <2>. QED
    BY <1>1, <1>2, <1>3, <2>1 DEF ArrayTypes, Base
<1>6. CASE PurgeUnlink(t)
  <2>1. node[t] \in L /\ lru_prev[node[t]] \in L
    BY <1>1, <1>6 DEF PurgeUnlink, Goto, ThreadOK, PurgerOK
  <2>2. lru_next' = [[lru_next EXCEPT ![lru_prev[node[t]]] = lru_next[node[t]]]
                       EXCEPT ![node[t]] = empty_head]
    BY <1>6 DEF PurgeUnlink, NextWithout
  <2>. QED
    BY <1>1, <1>2, <1>3, <2>1, <2>2 DEF ArrayTypes, Base
<1>7. CASE DisposeCasFails(t)
  <2>1. node[t] \notin Pool /\ node[t] \in Nodes
    BY <1>1, <1>7 DEF DisposeCasFails, Goto, OwnersOK, Hand, If
  <2>2. lru_next' = [lru_next EXCEPT ![node[t]] = empty_head]
    BY <1>7 DEF DisposeCasFails
  <2>. QED
    BY <1>1, <1>2, <2>1, <2>2 DEF ArrayTypes, Base
<1>8. CASE PullUnlink(t)
  <2>1. lru_prev[node[t]] \in L /\ prev[t] \in K \cup {TEMP}
    BY <1>8, PullUnlinkMeets
  <2>2. lru_next' = [[lru_next EXCEPT ![lru_prev[node[t]]] = lru_next[node[t]]]
                       EXCEPT ![prev[t]] = node[t]]
    BY <1>8 DEF PullUnlink, NextWithout
  <2>. QED
    BY <1>1, <1>2, <1>3, <2>1, <2>2 DEF ArrayTypes, Base
<1>9. CASE /\ ~AddFirst(t) /\ ~AddCasFails(t) /\ ~AddCas(t) /\ ~PullLowersFlag(t)
           /\ ~PurgeUnlink(t) /\ ~DisposeCasFails(t) /\ ~PullUnlink(t)
  <2>1. lru_next' = lru_next
    BY <1>9 DEF Step, Find, Allocate, Fill, AddSublist, Purge, Pull, FindMiss, FindHit,
       FindCopyMarked, FindCopyUnmarked, MarkCas, MarkCasFails,
       MarkCount, BelowThreshold, RecentThresholdHit, requestPull,
       InsertBegins, AllocLoad, requestPurge, AllocNext, AllocCas, AllocCasFails,
       FillNode, addNodeToBucket, InsertReturns, AddBack, PurgeBegins, NoPurge, PurgeSkip,
       PurgeChoose, removeNodeFromBucket, KeepInBucket, DisposeCas, PurgeEnds,
       PurgeLowersFlag, PullBegins, NoPull, PullReset, PullSkip, PullSkipClear,
       PullClear, PullFoundNone, PullAdds, TryLock, TryLockFails, UnlockLru, links
  <2>. QED
    BY <2>1
<1>. QED
  BY <1>4, <1>5, <1>6, <1>7, <1>8, <1>9

(* Only an allocation takes a node from the pool.                          *)
LEMMA PoolStays ==
  ASSUME NEW t \in Threads, NEW list, NEW back, NEW taken, Given(t, list, back, taken), Step(t),
         ~AllocCas(t)
  PROVE  Pool \subseteq Pool'
<1>1. PoolOK /\ \A n \in Pool : lru_next'[n] = lru_next[n]
  BY PoolLinksStay DEF Given, NodesOK
<1>2. CASE empty_head' = empty_head
  BY <1>1, <1>2, PoolFrame
<1>3. CASE empty_head' # empty_head
  <2>1. DisposeCas(t)
    BY <1>3 DEF Step, Find, Allocate, Fill, AddSublist, Purge, Pull, FindMiss, FindHit,
       FindCopyMarked, FindCopyUnmarked, MarkCas, MarkCasFails,
       MarkCount, BelowThreshold, RecentThresholdHit, requestPull,
       InsertBegins, AllocLoad, requestPurge, AllocNext, AllocCasFails,
       FillNode, addNodeToBucket, InsertReturns, AddFirst, AddCas, AddCasFails, AddBack,
       PurgeBegins, NoPurge, PurgeSkip,
       PurgeChoose, removeNodeFromBucket, KeepInBucket, PurgeUnlink, DisposeCasFails, PurgeEnds,
       PurgeLowersFlag, PullBegins, NoPull, PullReset, PullSkip, PullSkipClear, PullUnlink,
       PullClear, PullFoundNone, PullAdds, PullLowersFlag, TryLock, TryLockFails, UnlockLru
  <2>2. Pool' = Pool \cup {node[t]}
    BY <2>1, DisposeCasPools
  <2>. QED
    BY <2>2
<1>. QED
  BY <1>2, <1>3

-----------------------------------------------------------------------------
(* The allocating thread's view of the pool, which nobody else changes     *)
(* when there is no other.                                                 *)
PoolKnown(t) ==
  /\ pc[t] = "alloc_next" => node[t] \in Pool \cup {NULL}
  /\ pc[t] = "alloc_cas" => node[t] \in Pool /\ next[t] = lru_next[node[t]]

PoolSeen(t) == (ret[t] # "idle" => Inserts(t)) /\ PoolKnown(t)

PoolWatched == allocated => \A t \in Threads : PoolSeen(t)

(* The steps of allocateNode by which a thread comes to know a node of the *)
(* pool.                                                                   *)
LooksAtPool(t) == InsertBegins(t) \/ AllocLoad(t) \/ AllocCasFails(t)

(* It looks at the head, and then at the link of the node there.           *)
LEMMA StepLooks ==
  ASSUME NEW t \in Threads, Sound, Step(t)
  PROVE  /\ LooksAtPool(t) =>
              /\ pc'[t] = "alloc_next" /\ node'[t] = empty_head /\ ret[t] # "idle"
              /\ UNCHANGED <<empty_head, lru_next>>
         /\ AllocNext(t) =>
              /\ pc[t] = "alloc_next" /\ pc'[t] = "alloc_cas" /\ node[t] # NULL /\ node' = node
              /\ next'[t] = lru_next[node[t]] /\ ret' = ret /\ UNCHANGED <<empty_head, lru_next>>
         /\ ~LooksAtPool(t) /\ ~AllocNext(t) =>
              /\ pc'[t] \notin {"alloc_next", "alloc_cas"}
              /\ ret'[t] # "idle" => ret[t] # "idle"
<1>1. /\ pc \in [Threads -> PCs] /\ ReturnsOK(t)
      /\ ret \in [Threads -> {"idle", "ins_begin", "alloc_load"}]
      /\ node \in [Threads -> Nodes \cup {HEAD, DUMMY, NULL}]
      /\ next \in [Threads -> Nodes \cup {TAIL, DUMMY, NULL}]
  BY DEF Sound, ControlTypeOK, CallOK, LocalTypes
<1>2. CASE LooksAtPool(t)
  <2>1. /\ pc'[t] = "alloc_next" /\ node'[t] = empty_head /\ ret[t] # "idle"
        /\ UNCHANGED <<empty_head, lru_next>> /\ pc[t] # "alloc_next"
    BY <1>1, <1>2 DEF LooksAtPool, InsertBegins, AllocLoad, AllocCasFails, Goto, ReturnsOK,
       Allocating, links
  <2>. QED
    BY <1>2, <2>1 DEF AllocNext, Goto
<1>3. CASE AllocNext(t)
  <2>1. /\ pc[t] = "alloc_next" /\ pc'[t] = "alloc_cas" /\ node[t] # NULL /\ node' = node
        /\ next'[t] = lru_next[node[t]] /\ ret' = ret /\ UNCHANGED <<empty_head, lru_next>>
    BY <1>1, <1>3 DEF AllocNext, Goto, call, links
  <2>2. ~LooksAtPool(t)
    BY <2>1 DEF LooksAtPool, InsertBegins, AllocLoad, AllocCasFails, Goto
  <2>. QED
    BY <1>3, <2>1, <2>2
<1>4. CASE ~LooksAtPool(t) /\ ~AllocNext(t)
  <2>. SUFFICES /\ pc'[t] \notin {"alloc_next", "alloc_cas"}
                /\ ret'[t] # "idle" => ret[t] # "idle"
    BY <1>4
  <2>. USE <1>1 DEF Goto, Return, unlockBucket, call
  <2>1. ret[t] \in {"idle", "ins_begin", "alloc_load"}
    OBVIOUS
  <2>2. CASE Find(t)
    BY <2>1, <2>2 DEF Find, FindMiss, FindHit, FindCopyMarked, FindCopyUnmarked, MarkCas,
       MarkCasFails, MarkCount, BelowThreshold, RecentThresholdHit, requestPull
  <2>3. CASE Allocate(t) \/ Fill(t) \/ AddSublist(t)
    BY <1>4, <2>1, <2>3 DEF LooksAtPool, Allocate, requestPurge, AllocCas, Fill, FillNode,
       addNodeToBucket,
       InsertReturns, AddSublist, AddFirst, AddCas, AddCasFails, AddBack
  <2>4. CASE Purge(t)
    BY <2>1, <2>4 DEF Purge, PurgeBegins, NoPurge, PurgeSkip, PurgeChoose,
       removeNodeFromBucket,
       KeepInBucket, PurgeUnlink, DisposeCas, DisposeCasFails, PurgeEnds, PurgeLowersFlag
  <2>5. CASE Pull(t)
    BY <2>1, <2>5 DEF Pull, PullBegins, NoPull, PullReset, PullSkip, PullSkipClear,
       PullUnlink,
       PullClear, PullFoundNone, PullAdds, PullLowersFlag
  <2>6. CASE TryLock(t) \/ TryLockFails(t) \/ UnlockLru(t)
    BY <2>1, <2>6 DEF TryLock, TryLockFails, UnlockLru
  <2>. QED
    BY <2>2, <2>3, <2>4, <2>5, <2>6 DEF Step
<1>. QED
  BY <1>2, <1>3, <1>4

(* So what it knows is true of the pool when it gets to know it.           *)
LEMMA StepKnowsPool ==
  ASSUME NEW t \in Threads, NEW list, NEW back, NEW taken, Given(t, list, back, taken), Step(t),
         PoolKnown(t)
  PROVE  PoolKnown(t)'
<1>1. Sound /\ PoolOK
  BY DEF Given, NodesOK
<1>2. empty_head \in Pool \cup {NULL}
  BY <1>1, PathStart, PointersDiffer DEF PoolOK, Pool
<1>3. UNCHANGED <<empty_head, lru_next>> => Pool' = Pool
  BY DEF Pool
<1>. QED
  BY <1>1, <1>2, <1>3, StepLooks DEF PoolKnown

(* With the calls it makes, a thread keeps that view.                      *)
LEMMA StepSeesPool ==
  ASSUME NEW t \in Threads, NEW list, NEW back, NEW taken, Given(t, list, back, taken), Step(t),
         PoolSeen(t)
  PROVE  PoolSeen(t)'
<1>1. ret'[t] # "idle" => ret[t] # "idle"
  BY StepLooks DEF Given
<1>. QED
  BY <1>1, StepKnowsPool DEF PoolSeen, Inserts

(* Then the compare_exchange of the pool is not deceived.                  *)
LEMMA WatchedMeansUndeceived == IInv /\ PoolWatched => PoolUndeceived
<1>. SUFFICES ASSUME IInv, PoolWatched, NEW t \in Threads, pc[t] = "alloc_cas"
              PROVE  next[t] = lru_next[node[t]]
  BY DEF PoolUndeceived
<1>1. allocated
  BY DEF IInv, Sound, ControlTypeOK, AllIdle
<1>. QED
  BY <1>1 DEF PoolWatched, PoolSeen, PoolKnown

(* Only a thread whose calls insert is to come to an allocation.           *)
LEMMA StartSeesPool ==
  ASSUME NEW t \in Threads, Sound, PoolWatched, StartAny(t)
  PROVE  PoolWatched'
<1>1. PICK op \in Calls, k \in Keys : Start(t, op, k)
  BY DEF StartAny
<1>2. /\ pc \in [Threads -> PCs] /\ ret \in [Threads -> {"idle", "ins_begin", "alloc_load"}]
      /\ allocated /\ op \in Api[t]
      /\ pc' = [pc EXCEPT ![t] = IF op = "insert" THEN "ins_begin" ELSE "find_lock"]
      /\ ret' = [ret EXCEPT ![t] = IF op = "find" THEN "idle" ELSE "ins_begin"]
      /\ UNCHANGED <<lru_next, empty_head, node, next>>
  BY <1>1 DEF Start, Goto, Sound, ControlTypeOK, links, locals
<1>3. Pool' = Pool
  BY <1>2 DEF Pool
<1>4. PoolSeen(t)'
  BY <1>2 DEF PoolSeen, PoolKnown, Inserts, Calls
<1>5. ASSUME NEW u \in Threads, u # t PROVE PoolSeen(u)'
  BY <1>2, <1>3, <1>5 DEF PoolWatched, PoolSeen, PoolKnown, Inserts
<1>. QED
  BY <1>4, <1>5 DEF PoolWatched

(* No step of the others takes a node from the pool or changes a link      *)
(* there.                                                                  *)
LEMMA NextWatches ==
  ASSUME IInv, PoolWatched, OneInserter, [Next]_vars
  PROVE  PoolWatched'
<1>1. Sound
  BY DEF IInv
<1>2. ASSUME NEW t \in Threads, Step(t) PROVE PoolWatched'
  <2>1. allocated /\ NodesOK /\ ListsOK
    BY <1>1, <1>2, StepAllocated DEF IInv
  <2>2. PICK list, back, taken : ListsAre(list, back, taken)
    BY <2>1 DEF ListsOK
  <2>3. Given(t, list, back, taken) /\ Others(t)
    BY <1>1, <1>2, <2>1, <2>2, OthersStay DEF Given
  <2>4. PoolSeen(t)'
    BY <1>2, <2>1, <2>3, StepSeesPool DEF PoolWatched
  <2>5. ASSUME NEW u \in Threads, u # t PROVE PoolSeen(u)'
    <3>1. Still(u) /\ PoolSeen(u) /\ ReturnsOK(u)
      BY <1>1, <2>1, <2>3, <2>5 DEF Others, PoolWatched, Sound, CallOK
    <3>2. CASE AllocCas(t)
      <4>1. Inserts(t)
        BY <1>1, <2>1, <3>2 DEF AllocCas, Goto, Sound, CallOK, ReturnsOK, Allocating,
           PoolWatched,
           PoolSeen, PoolKnown
      <4>2. ~Inserts(u)
        BY <2>5, <4>1 DEF OneInserter
      <4>3. ret[u] = "idle" /\ pc[u] \notin {"alloc_next", "alloc_cas"}
        BY <3>1, <4>2 DEF PoolSeen, PoolKnown, ReturnsOK, Allocating
      <4>. QED
        BY <3>1, <4>3 DEF PoolSeen, PoolKnown, Still
    <3>3. CASE ~AllocCas(t)
      <4>1. Pool \subseteq Pool' /\ \A n \in Pool : lru_next'[n] = lru_next[n]
        BY <1>2, <2>3, <3>3, PoolStays, PoolLinksStay
      <4>. QED
        BY <3>1, <4>1 DEF PoolSeen, PoolKnown, Still, Inserts
    <3>. QED
      BY <3>2, <3>3
  <2>. QED
    BY <2>4, <2>5 DEF PoolWatched
<1>3. ASSUME NEW t \in Threads, StartAny(t) PROVE PoolWatched'
  BY <1>1, <1>3, StartSeesPool
<1>4. CASE releaseMemory
  BY <1>4 DEF releaseMemory, PoolWatched
<1>5. CASE allocateMemory
  <2>1. \A t \in Threads : pc'[t] = "idle" /\ ret'[t] = "idle"
    BY <1>5, AllocateFresh DEF FreshState
  <2>. QED
    BY <2>1 DEF PoolWatched, PoolSeen, PoolKnown
<1>6. CASE UNCHANGED vars
  <2>1. UNCHANGED <<allocated, lru_next, empty_head, pc, ret, node, next>>
    BY <1>6 DEF vars, links, call, locals
  <2>2. Pool' = Pool
    BY <2>1 DEF Pool
  <2>. QED
    BY <2>1, <2>2 DEF PoolWatched, PoolSeen, PoolKnown, Inserts
<1>. QED
  BY <1>2, <1>3, <1>4, <1>5, <1>6 DEF Next

(* Nobody allocates in a new cache.                                        *)
LEMMA InitWatches == Init => PoolWatched
BY DEF Init, PoolWatched, PoolSeen, PoolKnown

-----------------------------------------------------------------------------
(* The invariant in every behaviour in which the pool is not deceived.     *)
LEMMA SpecInvariant == Spec /\ []PoolUndeceived => []IInv
<1>1. IInv /\ PoolUndeceived /\ [Next]_vars => IInv'
  BY NextHolds
<1>. QED
  BY InitHolds, <1>1, PTL DEF Spec

(* One inserting thread is not deceived.                                   *)
THEOREM OneInserterUndeceived == OneInserter => (Spec => []PoolUndeceived)
<1>1. Init /\ OneInserter => IInv /\ PoolWatched /\ OneInserter
  BY InitHolds, InitWatches
<1>2. (IInv /\ PoolWatched /\ OneInserter) /\ [Next]_vars
        => (IInv /\ PoolWatched /\ OneInserter)'
  <2>1. IInv /\ PoolWatched => PoolUndeceived
    BY WatchedMeansUndeceived
  <2>2. OneInserter => OneInserter'
    BY DEF OneInserter, Inserts
  <2>. QED
    BY <2>1, <2>2, NextHolds, NextWatches
<1>3. IInv /\ PoolWatched => PoolUndeceived
  BY WatchedMeansUndeceived
<1>. QED
  BY <1>1, <1>2, <1>3, PTL DEF Spec

-----------------------------------------------------------------------------
(* Few inserts are not deceived either: the inserts that have begun and    *)
(* have no node yet.                                                       *)
Allocates == {t \in Threads : ret[t] = "alloc_load"}

(* While no insert has found the pool empty no node has come back to it,   *)
(* so that a node an insert remembers from there is still as it was, or    *)
(* gone for good; and of the inserts begun each has a node or looks for one.*)
NoneReturned ==
  /\ ~purge_request /\ \A t \in Threads : pc[t] \notin Purging
  /\ Cardinality(Nodes \ Pool) + Cardinality(Allocates) = begun
  /\ \A t \in Threads :
       /\ pc[t] = "alloc_next" /\ node[t] = NULL => Pool = {}
       /\ pc[t] = "alloc_cas" /\ node[t] \in Pool => next[t] = lru_next[node[t]]

(* Then the others have all nodes, and no further insert may begin.        *)
LastAllocates ==
  /\ begun = Capacity + 1
  /\ \A t, u \in Allocates : t = u
  /\ \A t \in Threads : PoolKnown(t)

FewInv == allocated => NoneReturned \/ LastAllocates

(* Either is enough for the compare_exchange.                              *)
LEMMA FewMeansUndeceived == IInv /\ FewInv => PoolUndeceived
<1>. SUFFICES ASSUME IInv, FewInv, NEW t \in Threads, pc[t] = "alloc_cas", empty_head = node[t]
              PROVE  next[t] = lru_next[node[t]]
  BY DEF PoolUndeceived
<1>1. allocated /\ PoolOK
  BY DEF IInv, Sound, ControlTypeOK, AllIdle, NodesOK
<1>2. node[t] \in Nodes
  <2>1. PICK list, back, taken : ListsAre(list, back, taken)
    BY <1>1 DEF IInv, ListsOK
  <2>. QED
    BY <2>1 DEF ListsAre, ThreadOK, InserterOK
<1>3. node[t] \in Pool
  BY <1>1, <1>2, PathStart, PointersDiffer DEF PoolOK, Pool
<1>. QED
  BY <1>1, <1>3 DEF FewInv, NoneReturned, LastAllocates, PoolKnown

(* The first node of the pool is taken from it.                            *)
LEMMA AllocCasPools ==
  ASSUME NEW t \in Threads, NEW list, NEW back, NEW taken, Given(t, list, back, taken),
         AllocCas(t), PoolUndeceived
  PROVE  Pool' = Pool \ {node[t]} /\ node[t] \in Pool
<1>1. /\ Sound /\ PoolOK /\ ThreadOK(t, Range(list), Range(taken))
  BY DEF Given, ListsAre, NodesOK
<1>2. /\ pc[t] = "alloc_cas" /\ empty_head = node[t] /\ empty_head' = next[t]
      /\ lru_next' = lru_next
  BY DEF AllocCas, Goto, links
<1>3. node[t] \in Nodes /\ next[t] = lru_next[node[t]]
  BY <1>1, <1>2 DEF ThreadOK, InserterOK, PoolUndeceived
<1>4. Path(node[t], lru_next, NULL) /\ Pool = Reached(node[t], lru_next)
  BY <1>1, <1>2 DEF PoolOK, Pool
<1>5. /\ Reached(lru_next[node[t]], lru_next) = Reached(node[t], lru_next) \ {node[t]}
      /\ node[t] \in Reached(node[t], lru_next)
  BY <1>3, <1>4, PathRest, PointersDiffer
<1>. QED
  BY <1>2, <1>3, <1>4, <1>5 DEF Pool

(* No other step but that of disposeNode changes it.                       *)
LEMMA PoolSame ==
  ASSUME NEW t \in Threads, NEW list, NEW back, NEW taken, Given(t, list, back, taken), Step(t),
         ~AllocCas(t), ~DisposeCas(t)
  PROVE  Pool' = Pool
<1>1. PoolOK /\ \A n \in Pool : lru_next'[n] = lru_next[n]
  BY PoolLinksStay DEF Given, NodesOK
<1>2. empty_head' = empty_head
  BY DEF Step, Find, Allocate, Fill, AddSublist, Purge, Pull, FindMiss, FindHit,
     FindCopyMarked, FindCopyUnmarked, MarkCas, MarkCasFails,
     MarkCount, BelowThreshold, RecentThresholdHit, requestPull,
     InsertBegins, AllocLoad, requestPurge, AllocNext, AllocCasFails,
     FillNode, addNodeToBucket, InsertReturns, AddFirst, AddCas, AddCasFails, AddBack,
     PurgeBegins, NoPurge, PurgeSkip,
     PurgeChoose, removeNodeFromBucket, KeepInBucket, PurgeUnlink, DisposeCasFails, PurgeEnds,
     PurgeLowersFlag, PullBegins, NoPull, PullReset, PullSkip, PullSkipClear, PullUnlink,
     PullClear, PullFoundNone, PullAdds, PullLowersFlag, TryLock, TryLockFails, UnlockLru
<1>. QED
  BY <1>1, <1>2, PoolFrame

(* A step counts if an insert begins with it, and it is the thread's own.  *)
LEMMA StepCounts ==
  ASSUME NEW t \in Threads, Sound, Step(t), CountedNext
  PROVE  begun' = IF InsertBegins(t) THEN begun + 1 ELSE begun
<1>1. allocated /\ Others(t)
  BY StepAllocated, OthersStay
<1>2. ASSUME NEW u \in Threads, InsertBegins(u) PROVE u = t
  <2>1. pc[u] = "ins_begin" /\ pc' = [pc EXCEPT ![u] = "alloc_next"] /\ pc \in [Threads -> PCs]
    BY <1>2 DEF InsertBegins, Goto, Sound, ControlTypeOK
  <2>2. pc'[u] # pc[u]
    BY <2>1
  <2>. QED
    BY <1>1, <2>2 DEF Others, Still
<1>3. (\E u \in Threads : InsertBegins(u)) <=> InsertBegins(t)
  BY <1>2
<1>. QED
  BY <1>1, <1>3 DEF CountedNext

(* An insert looks for a node from there until it has one.                 *)
LEMMA StepAllocates ==
  ASSUME NEW t \in Threads, Sound, Step(t)
  PROVE  /\ InsertBegins(t) => t \notin Allocates /\ Allocates' = Allocates \cup {t}
         /\ AllocCas(t) => t \in Allocates /\ Allocates' = Allocates \ {t}
         /\ ~InsertBegins(t) /\ ~AllocCas(t) => Allocates' = Allocates
<1>1. /\ ret \in [Threads -> {"idle", "ins_begin", "alloc_load"}] /\ pc \in [Threads -> PCs]
      /\ ReturnsOK(t)
  BY DEF Sound, ControlTypeOK, CallOK
<1>2. \A u \in Threads : u # t => ret'[u] = ret[u]
  BY OthersStay DEF Others, Still
<1>3. CASE InsertBegins(t)
  BY <1>1, <1>2, <1>3 DEF InsertBegins, Goto, Allocates, ReturnsOK, AllocCas
<1>4. CASE AllocCas(t)
  BY <1>1, <1>2, <1>4 DEF InsertBegins, Goto, Allocates, ReturnsOK, AllocCas, Allocating
<1>5. CASE ~InsertBegins(t) /\ ~AllocCas(t)
  <2>1. ret'[t] = ret[t] \/ (FindHit(t) /\ ret'[t] = "idle")
    BY <1>1, <1>5 DEF Step, Find, Allocate, Fill, AddSublist, Purge, Pull, FindMiss,
       FindCopyMarked, FindCopyUnmarked, MarkCas, MarkCasFails,
       MarkCount, BelowThreshold, RecentThresholdHit, requestPull, Return, unlockBucket,
       AllocLoad, requestPurge, AllocNext, AllocCasFails, call, FindHit,
       FillNode, addNodeToBucket, InsertReturns, AddFirst, AddCas, AddCasFails, AddBack,
       PurgeBegins, NoPurge, PurgeSkip,
       PurgeChoose, removeNodeFromBucket, KeepInBucket, PurgeUnlink, DisposeCas,
       DisposeCasFails, PurgeEnds,
       PurgeLowersFlag, PullBegins, NoPull, PullReset, PullSkip, PullSkipClear, PullUnlink,
       PullClear, PullFoundNone, PullAdds, PullLowersFlag, TryLock, TryLockFails, UnlockLru
  <2>2. FindHit(t) => ret[t] # "alloc_load"
    BY <1>1 DEF FindHit, Goto, ReturnsOK
  <2>. QED
    BY <1>1, <1>2, <1>5, <2>1, <2>2 DEF Allocates
<1>. QED
  BY <1>3, <1>4, <1>5

(* The sets that are counted are finite.                                   *)
LEMMA CountsAre ==
  /\ IsFiniteSet(Nodes) /\ Cardinality(Nodes) = Capacity /\ Capacity \in Nat
  /\ IsFiniteSet(Nodes \ Pool) /\ Cardinality(Nodes \ Pool) \in Nat
  /\ IsFiniteSet(Allocates) /\ Cardinality(Allocates) \in Nat
<1>1. IsFiniteSet(Nodes) /\ Cardinality(Nodes) = Capacity /\ Capacity \in Nat
  BY SizeAssumption, FS_Interval DEF Nodes
<1>2. Allocates \subseteq Threads
  BY DEF Allocates
<1>. QED
  BY <1>1, <1>2, ThreadAssumption, FS_Subset, FS_CardinalityType

(* ... after a step as before it.                                          *)
LEMMA CountsAreNext ==
  /\ IsFiniteSet(Allocates') /\ Cardinality(Allocates') \in Nat
<1>1. (IsFiniteSet(Allocates) /\ Cardinality(Allocates) \in Nat)'
  BY CountsAre, PTL
<1>. QED
  BY <1>1

(* While none has returned, the head is NULL when the pool is empty, and   *)
(* the pool is empty when the head is NULL.                                *)
LEMMA EmptyPool == PoolOK => (empty_head = NULL <=> Pool = {})
  BY PathStart, PathNone, PointersDiffer DEF PoolOK, Pool

(* What the steps before the first purge do to requests and points.        *)
LEMMA StepUnpurged ==
  ASSUME NEW t \in Threads, Sound, Step(t), ~purge_request, pc[t] \notin Purging
  PROVE  /\ pc'[t] \notin Purging /\ ~DisposeCas(t)
         /\ purge_request' => requestPurge(t)
<1>1. /\ ret \in [Threads -> {"idle", "ins_begin", "alloc_load"}] /\ pc \in [Threads -> PCs]
  BY DEF Sound, ControlTypeOK
<1>2. ret[t] \in {"idle", "ins_begin", "alloc_load"}
  BY <1>1
<1>3. ~DisposeCas(t)
  BY DEF DisposeCas, Goto, Purging
<1>4. purge_request' => requestPurge(t)
  BY DEF Step, Find, Allocate, Fill, AddSublist, Purge, Pull, FindMiss, FindHit, requests,
     FindCopyMarked, FindCopyUnmarked, MarkCas, MarkCasFails,
     MarkCount, BelowThreshold, RecentThresholdHit, requestPull,
     InsertBegins, AllocLoad, AllocNext, AllocCas, AllocCasFails,
     FillNode, addNodeToBucket, InsertReturns, AddFirst, AddCas, AddCasFails, AddBack,
     PurgeBegins, NoPurge, PurgeSkip,
     PurgeChoose, removeNodeFromBucket, KeepInBucket, PurgeUnlink, DisposeCas, DisposeCasFails,
     PurgeEnds,
     PurgeLowersFlag, PullBegins, NoPull, PullReset, PullSkip, PullSkipClear, PullUnlink,
     PullClear, PullFoundNone, PullAdds, PullLowersFlag, TryLock, TryLockFails, UnlockLru
<1>5. pc'[t] \notin Purging
  <2>. USE <1>1, <1>2 DEF Goto, Return, Purging
  <2>2. CASE Find(t)
    BY <2>2 DEF Find, FindMiss, FindHit, FindCopyMarked, FindCopyUnmarked, MarkCas,
       MarkCasFails, MarkCount, BelowThreshold, RecentThresholdHit, requestPull
  <2>3. CASE Allocate(t) \/ Fill(t) \/ AddSublist(t)
    BY <2>3 DEF Allocate, InsertBegins, AllocLoad, AllocNext, AllocCasFails, requestPurge, AllocCas,
       Fill, FillNode, addNodeToBucket,
       InsertReturns, AddSublist, AddFirst, AddCas, AddCasFails, AddBack
  <2>4. CASE Purge(t)
    BY <2>4 DEF Purge, PurgeBegins, NoPurge, PurgeSkip, PurgeChoose,
       removeNodeFromBucket,
       KeepInBucket, PurgeUnlink, DisposeCas, DisposeCasFails, PurgeEnds, PurgeLowersFlag
  <2>5. CASE Pull(t)
    BY <2>5 DEF Pull, PullBegins, NoPull, PullReset, PullSkip, PullSkipClear,
       PullUnlink,
       PullClear, PullFoundNone, PullAdds, PullLowersFlag
  <2>6. CASE TryLock(t) \/ TryLockFails(t) \/ UnlockLru(t)
    BY <2>6 DEF TryLock, TryLockFails, UnlockLru
  <2>. QED
    BY <2>2, <2>3, <2>4, <2>5, <2>6 DEF Step
<1>. QED
  BY <1>3, <1>4, <1>5

(* The step of an insert that finds the pool empty ends the first phase.   *)
LEMMA FirstPurge ==
  ASSUME NEW t \in Threads, NEW list, NEW back, NEW taken, Given(t, list, back, taken),
         requestPurge(t), NoneReturned, FewInserts, begun \in Nat, begun' = begun
  PROVE  LastAllocates'
<1>1. /\ pc[t] = "alloc_next" /\ node[t] = NULL /\ ret' = ret
      /\ pc' = [pc EXCEPT ![t] = "try_lock"] /\ pc \in [Threads -> PCs]
      /\ \A u \in Threads : ReturnsOK(u)
  BY DEF requestPurge, Goto, call, Given, Sound, ControlTypeOK, CallOK
<1>2. Pool = {} /\ t \in Allocates
  BY <1>1 DEF NoneReturned, Allocates, ReturnsOK, Allocating
<1>3. Cardinality(Nodes \ Pool) = Capacity
  <2>1. Nodes \ Pool = Nodes
    BY <1>2
  <2>. QED
    BY <2>1, CountsAre
<1>4. Cardinality(Allocates) >= 1
  BY <1>2, CountsAre, FS_EmptySet
<1>5. Cardinality(Allocates) = 1 /\ begun = Capacity + 1
  BY <1>3, <1>4, CountsAre DEF NoneReturned, FewInserts
<1>6. \A u, v \in Allocates : u = v
  BY <1>5, CountsAre, FS_Singleton
<1>7. Allocates' = Allocates
  BY <1>1 DEF Allocates
<1>8. ASSUME NEW u \in Threads PROVE pc'[u] \notin {"alloc_next", "alloc_cas"}
  <2>1. CASE u = t
    BY <1>1, <2>1
  <2>2. CASE u # t
    <3>1. u \notin Allocates
      BY <1>2, <1>6, <2>2
    <3>. QED
      BY <1>1, <2>2, <3>1 DEF Allocates, ReturnsOK, Allocating
  <2>. QED
    BY <2>1, <2>2
<1>. QED
  BY <1>5, <1>6, <1>7, <1>8 DEF LastAllocates, PoolKnown

(* Any other step leaves as many nodes out of the pool, and inserts in     *)
(* search of one, as inserts have begun.                                   *)
LEMMA CountGoesOn ==
  ASSUME NEW t \in Threads, NEW list, NEW back, NEW taken, Given(t, list, back, taken),
         Step(t), CountedNext, PoolUndeceived, ~DisposeCas(t), begun \in Nat,
         Cardinality(Nodes \ Pool) + Cardinality(Allocates) = begun
  PROVE  Cardinality(Nodes \ Pool') + Cardinality(Allocates') = begun'
<1>1. Sound /\ begun' = (IF InsertBegins(t) THEN begun + 1 ELSE begun)
  BY StepCounts DEF Given
<1>2. CASE InsertBegins(t)
  <2>1. ~AllocCas(t)
    BY <1>2 DEF InsertBegins, AllocCas, Goto
  <2>2. Pool' = Pool
    BY <2>1, PoolSame
  <2>3. t \notin Allocates /\ Allocates' = Allocates \cup {t}
    BY <1>1, <1>2, StepAllocates
  <2>4. Cardinality(Allocates \cup {t}) = Cardinality(Allocates) + 1
    BY <2>3, CountsAre, FS_AddElement
  <2>. QED
    BY <1>1, <1>2, <2>2, <2>3, <2>4, CountsAre
<1>3. CASE AllocCas(t)
  <2>1. Pool' = Pool \ {node[t]} /\ node[t] \in Pool
    BY <1>3, AllocCasPools
  <2>2. t \in Allocates /\ Allocates' = Allocates \ {t} /\ ~InsertBegins(t)
    BY <1>1, <1>3, StepAllocates DEF InsertBegins, AllocCas, Goto
  <2>3. node[t] \in Nodes
    <3>1. ThreadOK(t, Range(list), Range(taken))
      BY DEF Given, ListsAre
    <3>. QED
      BY <1>3, <3>1 DEF ThreadOK, InserterOK, AllocCas, Goto
  <2>4. Nodes \ Pool' = (Nodes \ Pool) \cup {node[t]} /\ node[t] \notin Nodes \ Pool
    BY <2>1, <2>3
  <2>5. Cardinality(Nodes \ Pool') = Cardinality(Nodes \ Pool) + 1
    BY <2>4, CountsAre, FS_AddElement
  <2>6. Cardinality(Allocates \ {t}) = Cardinality(Allocates) - 1
    BY <2>2, CountsAre, FS_RemoveElement
  <2>. QED
    BY <1>1, <2>2, <2>5, <2>6, CountsAre
<1>4. CASE ~InsertBegins(t) /\ ~AllocCas(t)
  <2>1. Pool' = Pool /\ Allocates' = Allocates
    BY <1>1, <1>4, PoolSame, StepAllocates
  <2>. QED
    BY <1>1, <1>4, <2>1
<1>. QED
  BY <1>2, <1>3, <1>4

(* It leaves what the threads remember of the pool true.                   *)
LEMMA NoneReturnedStays ==
  ASSUME NEW t \in Threads, NEW list, NEW back, NEW taken, Given(t, list, back, taken),
         Step(t), CountedNext, PoolUndeceived, ~requestPurge(t), begun \in Nat, NoneReturned
  PROVE  NoneReturned'
<1>1. Sound /\ PoolOK /\ Others(t)
  BY DEF Given, NodesOK
<1>2. pc'[t] \notin Purging /\ ~DisposeCas(t) /\ ~purge_request'
  BY <1>1, StepUnpurged DEF NoneReturned
<1>3. \A u \in Threads : pc'[u] \notin Purging
  BY <1>1, <1>2 DEF NoneReturned, Others, Still
<1>4. Cardinality(Nodes \ Pool') + Cardinality(Allocates') = begun'
  BY <1>2, CountGoesOn DEF NoneReturned
<1>5. Pool' \subseteq Pool /\ \A n \in Pool : lru_next'[n] = lru_next[n]
  BY <1>2, AllocCasPools, PoolSame, PoolLinksStay
<1>6. ASSUME NEW u \in Threads
      PROVE  /\ pc'[u] = "alloc_next" /\ node'[u] = NULL => Pool' = {}
             /\ pc'[u] = "alloc_cas" /\ node'[u] \in Pool' => next'[u] = lru_next'[node'[u]]
  <2>1. CASE u # t
    BY <1>1, <1>5, <2>1 DEF NoneReturned, Others, Still
  <2>2. CASE u = t /\ LooksAtPool(t)
    BY <1>1, <1>5, <2>2, StepLooks, EmptyPool
  <2>3. CASE u = t /\ AllocNext(t)
    <3>1. /\ pc'[t] = "alloc_cas" /\ node' = node /\ next'[t] = lru_next[node[t]]
          /\ lru_next' = lru_next
      BY <1>1, <2>3, StepLooks
    <3>. QED
      BY <2>3, <3>1
  <2>4. CASE u = t /\ ~LooksAtPool(t) /\ ~AllocNext(t)
    BY <1>1, <2>4, StepLooks
  <2>. QED
    BY <2>1, <2>2, <2>3, <2>4
<1>. QED
  BY <1>2, <1>3, <1>4, <1>6 DEF NoneReturned

(* In the second phase there is nobody to take a node but the one insert   *)
(* that is left.                                                           *)
LEMMA LastAllocatesStays ==
  ASSUME NEW t \in Threads, NEW list, NEW back, NEW taken, Given(t, list, back, taken),
         Step(t), CountedNext, LastAllocates, begun \in Nat, FewInserts'
  PROVE  LastAllocates'
<1>1. Sound /\ Others(t)
  BY DEF Given
<1>2. ~InsertBegins(t) /\ begun' = begun
  BY <1>1, StepCounts, SizeAssumption DEF LastAllocates, FewInserts
<1>3. Allocates' \subseteq Allocates /\ (AllocCas(t) => t \in Allocates)
  BY <1>1, <1>2, StepAllocates
<1>4. ASSUME NEW u \in Threads PROVE PoolKnown(u)'
  <2>1. CASE u = t
    BY <2>1, StepKnowsPool DEF LastAllocates
  <2>2. CASE u # t /\ AllocCas(t)
    <3>1. u \notin Allocates /\ ReturnsOK(u) /\ Still(u)
      BY <1>1, <1>3, <2>2 DEF LastAllocates, Sound, CallOK, Others
    <3>2. pc'[u] \notin {"alloc_next", "alloc_cas"}
      BY <3>1 DEF Allocates, ReturnsOK, Allocating, Still
    <3>. QED
      BY <3>2 DEF PoolKnown
  <2>3. CASE u # t /\ ~AllocCas(t)
    <3>1. Pool \subseteq Pool' /\ \A n \in Pool : lru_next'[n] = lru_next[n]
      BY <2>3, PoolStays, PoolLinksStay
    <3>. QED
      BY <1>1, <2>3, <3>1 DEF LastAllocates, PoolKnown, Others, Still
  <2>. QED
    BY <2>1, <2>2, <2>3
<1>. QED
  BY <1>2, <1>3, <1>4 DEF LastAllocates

-----------------------------------------------------------------------------
(* Nothing is counted when no thread makes a step.                         *)
LEMMA NothingBegins ==
  ASSUME CountedNext, allocated, pc \in [Threads -> PCs],
         \A t \in Threads : pc[t] = "ins_begin" => pc'[t] # "alloc_next"
  PROVE  begun' = begun
<1>1. \A t \in Threads : ~InsertBegins(t)
  BY DEF InsertBegins, Goto
<1>. QED
  BY <1>1 DEF CountedNext

(* A call that starts takes nothing, and knows nothing.                    *)
LEMMA StartStays ==
  ASSUME NEW t \in Threads, Sound, StartAny(t), CountedNext
  PROVE  /\ begun' = begun
         /\ NoneReturned => NoneReturned'
         /\ LastAllocates => LastAllocates'
<1>1. PICK op \in Calls, k \in Keys : Start(t, op, k)
  BY DEF StartAny
<1>2. /\ pc \in [Threads -> PCs] /\ ret \in [Threads -> {"idle", "ins_begin", "alloc_load"}]
      /\ allocated /\ pc[t] = "idle" /\ ReturnsOK(t)
      /\ pc' = [pc EXCEPT ![t] = IF op = "insert" THEN "ins_begin" ELSE "find_lock"]
      /\ ret' = [ret EXCEPT ![t] = IF op = "find" THEN "idle" ELSE "ins_begin"]
      /\ UNCHANGED <<lru_next, empty_head, node, next, purge_request>>
  BY <1>1 DEF Start, Goto, Sound, ControlTypeOK, CallOK, links, locals, requests
<1>3. begun' = begun
  BY <1>2, NothingBegins
<1>4. Pool' = Pool
  BY <1>2 DEF Pool
<1>5. Allocates' = Allocates
  BY <1>2 DEF Allocates, ReturnsOK
<1>6. NoneReturned => NoneReturned'
  BY <1>2, <1>3, <1>4, <1>5 DEF NoneReturned, Purging
<1>7. LastAllocates => LastAllocates'
  BY <1>2, <1>3, <1>4, <1>5 DEF LastAllocates, PoolKnown
<1>. QED
  BY <1>3, <1>6, <1>7

(* In a new cache no insert has begun.                                     *)
LEMMA FreshUnreturned ==
  ASSUME FreshState, begun = 0
  PROVE  NoneReturned
<1>1. Pool = Nodes
  BY FreshPool
<1>2. ~purge_request /\ \A t \in Threads : pc[t] = "idle" /\ ret[t] = "idle"
  BY DEF FreshState
<1>3. Nodes \ Pool = {} /\ Allocates = {}
  BY <1>1, <1>2 DEF Allocates
<1>4. Cardinality(Nodes \ Pool) + Cardinality(Allocates) = 0
  BY <1>3, FS_EmptySet
<1>. QED
  BY <1>2, <1>4 DEF NoneReturned, Purging

(* Every step keeps one of the two, while few inserts have begun.          *)
LEMMA NextFew ==
  ASSUME IInv, FewInv, begun \in Nat, FewInserts, FewInserts', [CountedNext]_<<vars, begun>>
  PROVE  FewInv' /\ begun' \in Nat
<1>1. Sound /\ PoolUndeceived
  BY FewMeansUndeceived DEF IInv
<1>2. begun' \in Nat
  BY DEF CountedNext
<1>. SUFFICES FewInv'
  BY <1>2
<1>3. ASSUME CountedNext, NEW t \in Threads, Step(t) PROVE FewInv'
  <2>1. allocated /\ NodesOK /\ ListsOK
    BY <1>1, <1>3, StepAllocated DEF IInv
  <2>2. PICK list, back, taken : ListsAre(list, back, taken)
    BY <2>1 DEF ListsOK
  <2>3. Given(t, list, back, taken)
    BY <1>1, <1>3, <2>1, <2>2, OthersStay DEF Given
  <2>4. CASE LastAllocates
    BY <1>3, <2>3, <2>4, LastAllocatesStays DEF FewInv
  <2>5. CASE NoneReturned /\ requestPurge(t)
    <3>1. ~InsertBegins(t)
      BY <2>5 DEF requestPurge, InsertBegins, Goto
    <3>2. begun' = begun
      BY <1>1, <1>3, <3>1, StepCounts
    <3>. QED
      BY <2>3, <2>5, <3>2, FirstPurge DEF FewInv
  <2>6. CASE NoneReturned /\ ~requestPurge(t)
    BY <1>1, <1>3, <2>3, <2>6, NoneReturnedStays DEF FewInv
  <2>. QED
    BY <2>1, <2>4, <2>5, <2>6 DEF FewInv
<1>4. ASSUME CountedNext, NEW t \in Threads, StartAny(t) PROVE FewInv'
  <2>1. allocated
    BY <1>4 DEF StartAny, Start
  <2>. QED
    BY <1>1, <1>4, <2>1, StartStays DEF FewInv
<1>5. CASE releaseMemory
  BY <1>5 DEF releaseMemory, FewInv
<1>6. CASE allocateMemory /\ CountedNext
  <2>1. FreshState' /\ begun' = 0
    BY <1>6, AllocateFresh DEF allocateMemory, CountedNext
  <2>2. (FreshState /\ begun = 0 => NoneReturned)'
    BY FreshUnreturned, PTL
  <2>. QED
    BY <2>1, <2>2 DEF FewInv
<1>7. CASE UNCHANGED vars
  <2>1. UNCHANGED <<allocated, lru_next, empty_head, pc, ret, node, next, purge_request>>
    BY <1>7 DEF vars, links, call, locals, requests
  <2>2. Pool' = Pool /\ Allocates' = Allocates
    BY <2>1 DEF Pool, Allocates
  <2>3. allocated => begun' = begun
    <3>1. pc \in [Threads -> PCs]
      BY <1>1 DEF Sound, ControlTypeOK
    <3>. QED
      BY <2>1, <3>1, NothingBegins
  <2>. QED
    BY <2>1, <2>2, <2>3 DEF FewInv, NoneReturned, LastAllocates, PoolKnown
<1>. QED
  BY <1>3, <1>4, <1>5, <1>6, <1>7 DEF CountedNext, Next

(* To count changes nothing.                                               *)
LEMMA CountedIsSpec == CountedSpec => Spec
<1>1. CountedInit => Init
  BY DEF CountedInit
<1>2. [CountedNext]_<<vars, begun>> => [Next]_vars
  BY DEF CountedNext
<1>. QED
  BY <1>1, <1>2, PTL DEF CountedSpec, Spec

(* While no more inserts have begun than there are nodes and one more, no  *)
(* insert is deceived, however many threads insert.                        *)
THEOREM FewInsertsUndeceived == CountedSpec /\ []FewInserts => []PoolUndeceived
<1>1. CountedInit => IInv /\ FewInv /\ begun \in Nat
  <2>1. Init => FreshState
    BY DEF Init, FreshState
  <2>. QED
    BY <2>1, InitHolds, FreshUnreturned DEF CountedInit, FewInv
<1>2. (IInv /\ FewInv /\ begun \in Nat) /\ FewInserts /\ FewInserts'
      /\ [CountedNext]_<<vars, begun>>
        => (IInv /\ FewInv /\ begun \in Nat)'
  <2>. SUFFICES ASSUME IInv, FewInv, begun \in Nat, FewInserts, FewInserts',
                       [CountedNext]_<<vars, begun>>
                PROVE  (IInv /\ FewInv /\ begun \in Nat)'
    OBVIOUS
  <2>1. PoolUndeceived /\ [Next]_vars
    BY FewMeansUndeceived DEF CountedNext
  <2>. QED
    BY <2>1, NextHolds, NextFew
<1>3. IInv /\ FewInv => PoolUndeceived
  BY FewMeansUndeceived
<1>. QED
  BY <1>1, <1>2, <1>3, PTL DEF CountedSpec

-----------------------------------------------------------------------------
(* What the invariant says of the whole cache while it has its memory.     *)
LEMMA BusyMeansAllocated ==
  ASSUME IInv, NEW t \in Threads, pc[t] # "idle"
  PROVE  allocated
BY DEF IInv, Sound, ControlTypeOK, AllIdle

(* A node found by a lookup is in its bucket, and so in nobody's hands.    *)
LEMMA InvStays == IInv => HitStaysInBucket
<1>. SUFFICES ASSUME IInv, NEW t \in Threads, pc[t] \in FindLocked
              PROVE  /\ node[t] \in Range(bucket[keyToBucketNr(arg[t])])
                     /\ \A u \in InHand : node[u] # node[t]
  BY DEF HitStaysInBucket
<1>1. allocated
  BY BusyMeansAllocated DEF FindLocked
<1>2. node[t] \in Range(bucket[keyToBucketNr(arg[t])])
  BY DEF IInv, Sound, FoundInBucket
<1>3. arg[t] \in Keys
  BY DEF IInv, Sound, ControlTypeOK
<1>4. node[t] \in Cached
  BY <1>2, <1>3, BucketNrInRange DEF Cached
<1>5. ASSUME NEW u \in InHand PROVE node[u] # node[t]
  <2>1. u \in Threads /\ node[u] \in Hand(u)
    BY DEF InHand, Hand, If
  <2>. QED
    BY <1>1, <1>4, <2>1 DEF IInv, NodesOK, OwnersOK
<1>. QED
  BY <1>2, <1>5

(* A lookup reads the value of its own key, by the invariant.              *)
LEMMA InvReads == IInv => HitReadsOwnValue
<1>. SUFFICES ASSUME IInv, NEW t \in Threads, pc[t] \in FindLocked
              PROVE  key[node[t]] = arg[t] /\ value[node[t]] = arg[t]
  BY DEF HitReadsOwnValue
<1>1. allocated
  BY BusyMeansAllocated DEF FindLocked
<1>2. PICK list, back, taken : ListsAre(list, back, taken)
  BY <1>1 DEF IInv, ListsOK
<1>3. key[node[t]] = arg[t] /\ value = key
  BY <1>2 DEF ListsAre, ThreadOK, FinderOK, IInv, Sound, ArrayTypes
<1>. QED
  BY <1>3

(* A path ends where it should.                                            *)
LEMMA PathEnds ==
  ASSUME NEW start, NEW succ, NEW stop, stop \notin Nodes, Path(start, succ, stop)
  PROVE  Ends(start, succ, stop)
<1>. DEFINE list == Follow(start, succ, Nodes, Capacity)
<1>1. Distinct(list, Nodes) /\ Leads(list, start, succ, stop)
  BY DEF Path, Arrives
<1>2. Len(list) \in Nat /\ Len(list) <= Capacity
  <2>1. IsFiniteSet(Nodes) /\ Cardinality(Nodes) = Capacity
    BY NodesFinite
  <2>. QED
    BY <1>1, <2>1, DistinctFits, DistinctIn
<1>. HIDE DEF list
<1>3. IF list = <<>> THEN start = stop ELSE Len(list) <= Capacity /\ succ[Last(list)] = stop
  BY <1>1, <1>2 DEF Leads, Last
<1>. QED
  BY <1>3 DEF Ends, Walk, list

(* The slice is that of the thread that holds lru_lock_, if any.           *)
LEMMA SliceIsPulled == IInv => Slice = SliceSet
<1>. SUFFICES ASSUME IInv PROVE Slice = SliceSet
  OBVIOUS
<1>. DEFINE points == {"pull_reset", "pull_visit", "pull_skip", "pull_clear"}
<1>1. /\ \A u \in Threads : pc[u] \in points => lru_lock = u /\ lru_lock # NULL
      /\ lru_lock \in Threads \cup {NULL}
  BY ApiAssumption DEF IInv, Sound, ControlTypeOK, LockDiscipline, Consolidating, Pulling
<1>2. CASE \E u \in Threads : pc[u] \in points
  <2>1. PICK u \in Threads : pc[u] \in points
    BY <1>2
  <2>2. {v \in Threads : pc[v] \in points} = {u} /\ SliceHead = node[u]
    BY <1>1, <2>1 DEF SliceHead, Consolidates
  <2>3. Slice = UNION {Reached(node[v], recent_next) : v \in {u}}
    BY <2>2 DEF Slice
  <2>. QED
    BY <2>2, <2>3 DEF SliceSet
<1>3. CASE \A u \in Threads : pc[u] \notin points
  <2>1. SliceHead = DUMMY
    BY <1>1, <1>3 DEF SliceHead, Consolidates
  <2>2. Slice = {}
    BY <1>3 DEF Slice
  <2>. QED
    BY <2>1, <2>2, PathNone, PointersDiffer DEF SliceSet
<1>. QED
  BY <1>2, <1>3

(* The recent links tell who is in a list, by the invariant.               *)
LEMMA InvTells == IInv => RecentLinkTells
<1>. SUFFICES ASSUME IInv, allocated
              PROVE  /\ Ends(recent_head, recent_next, DUMMY)
                     /\ Recent \cap Slice = {} /\ Recent \cup Slice \subseteq Cached
                     /\ {n \in Nodes : recent_next[n] # NULL}
                          = Recent \cup Slice \cup BeingMarked \cup FalselyMarked
  BY DEF RecentLinkTells
<1>1. MarkListsOK /\ MarksOK /\ Sound
  BY DEF IInv, NodesOK
<1>2. Slice = SliceSet
  BY SliceIsPulled
<1>3. Ends(recent_head, recent_next, DUMMY)
  BY <1>1, PathEnds, PointersDiffer DEF MarkListsOK
<1>4. PICK list, back, taken : ListsAre(list, back, taken)
  BY DEF IInv, ListsOK
<1>5. /\ \A n : n \in BeingMarked <=> \E t \in Threads : n \in Marking(t)
      /\ \A n : n \in FalselyMarked <=> \E t \in Threads : n \in Falsely(t)
  BY DEF BeingMarked, FalselyMarked, Marking, Falsely, Filled, Late, If
<1>6. BeingMarked \subseteq Nodes /\ FalselyMarked \subseteq Nodes /\ Recent \cup SliceSet \subseteq Nodes
  <2>1. Cached \subseteq Nodes
    BY <1>1 DEF Cached, Range, Sound, ArrayTypes
  <2>2. \A t \in Threads : Falsely(t) \subseteq Nodes
    BY <1>1, <2>1 DEF Falsely, Filled, Late, Hand, OwnersOK, IInv, NodesOK, If, Filling
  <2>3. \A t \in Threads : Marking(t) \subseteq Nodes
    BY <1>1, <1>4, HeldNodes DEF Marking, If, FindLocked, ListsAre, ThreadOK
  <2>. QED
    BY <1>1, <1>5, <2>1, <2>2, <2>3 DEF MarksOK
<1>7. \A n \in Nodes : recent_next[n] # NULL <=>
                         n \in Recent \cup SliceSet \cup BeingMarked \cup FalselyMarked
  BY <1>1, <1>5 DEF MarksOK
<1>8. {n \in Nodes : recent_next[n] # NULL} = Recent \cup Slice \cup BeingMarked \cup FalselyMarked
  BY <1>2, <1>6, <1>7
<1>. QED
  BY <1>1, <1>2, <1>3, <1>8 DEF MarksOK

-----------------------------------------------------------------------------
(* A node is in the hands of at most one thread.                           *)
LEMMA HandsCount ==
  ASSUME OwnersOK, NEW n
  PROVE  Cardinality({t \in InHand : node[t] = n})
           = IF \E t \in Threads : n \in Hand(t) THEN 1 ELSE 0
<1>1. {t \in InHand : node[t] = n} = {t \in Threads : n \in Hand(t)}
  BY DEF InHand, Hand, If
<1>2. CASE \E t \in Threads : n \in Hand(t)
  <2>1. PICK t \in Threads : n \in Hand(t)
    BY <1>2
  <2>2. {u \in Threads : n \in Hand(u)} = {t}
    BY <2>1 DEF OwnersOK, Owned
  <2>. QED
    BY <1>1, <1>2, <2>2, FS_Singleton
<1>3. CASE ~ \E t \in Threads : n \in Hand(t)
  <2>1. {u \in Threads : n \in Hand(u)} = {}
    BY <1>3
  <2>. QED
    BY <1>1, <1>3, <2>1, FS_EmptySet
<1>. QED
  BY <1>2, <1>3

(* It is at most once in a bucket, which is that of its key.               *)
LEMMA PlacesCount ==
  ASSUME ArrayTypes, ChainsOK, NEW n
  PROVE  /\ \A b \in Buckets : Len(bucket[b]) \in Nat /\ Len(bucket[b]) <= Capacity
         /\ Cardinality({p \in Places : p[2] <= Len(bucket[p[1]]) /\ bucket[p[1]][p[2]] = n})
              = IF n \in Cached THEN 1 ELSE 0
<1>1. IsFiniteSet(Nodes) /\ Cardinality(Nodes) = Capacity
  BY NodesFinite
<1>2. ASSUME NEW b \in Buckets
      PROVE  /\ Len(bucket[b]) \in Nat /\ Len(bucket[b]) <= Capacity
             /\ DOMAIN bucket[b] = 1 .. Len(bucket[b])
  <2>1. Distinct(bucket[b], Nodes) /\ bucket[b] \in Seq(Nodes)
    BY DEF ChainsOK, ArrayTypes
  <2>. QED
    BY <1>1, <2>1, DistinctFits
<1>. DEFINE here == {p \in Places : p[2] <= Len(bucket[p[1]]) /\ bucket[p[1]][p[2]] = n}
<1>3. \A b \in Buckets, i \in 1 .. Capacity :
        <<b, i>> \in here <=> i \in 1 .. Len(bucket[b]) /\ bucket[b][i] = n
  BY <1>2, SizeAssumption DEF Places, Nodes
<1>4. CASE n \in Cached
  <2>1. PICK b \in Buckets : n \in Range(bucket[b])
    BY <1>4 DEF Cached
  <2>2. PICK i \in 1 .. Len(bucket[b]) : bucket[b][i] = n
    BY <1>2, <2>1 DEF Range
  <2>3. i \in 1 .. Capacity
    BY <1>2, <2>2, SizeAssumption
  <2>4. <<b, i>> \in here
    BY <1>3, <2>2, <2>3
  <2>5. ASSUME NEW p \in here PROVE p = <<b, i>>
    <3>1. PICK c \in Buckets, j \in Nodes : p = <<c, j>>
      BY <2>5 DEF Places
    <3>2. j \in 1 .. Len(bucket[c]) /\ bucket[c][j] = n
      BY <1>3, <2>5, <3>1 DEF Nodes
    <3>3. n \in Range(bucket[c])
      BY <1>2, <3>2 DEF Range
    <3>4. c = b
      BY <2>1, <3>3 DEF ChainsOK
    <3>5. IsInjective(bucket[b])
      BY DEF ChainsOK, Distinct
    <3>6. j = i
      BY <1>2, <2>2, <3>2, <3>4, <3>5 DEF IsInjective
    <3>. QED
      BY <3>1, <3>4, <3>6
  <2>6. here = {<<b, i>>}
    BY <2>4, <2>5
  <2>. QED
    BY <1>2, <1>4, <2>6, FS_Singleton
<1>5. CASE n \notin Cached
  <2>1. ASSUME NEW p \in here PROVE FALSE
    <3>1. PICK c \in Buckets, j \in Nodes : p = <<c, j>>
      BY <2>1 DEF Places
    <3>2. j \in 1 .. Len(bucket[c]) /\ bucket[c][j] = n
      BY <1>3, <2>1, <3>1 DEF Nodes
    <3>3. n \in Range(bucket[c])
      BY <1>2, <3>2 DEF Range
    <3>. QED
      BY <1>5, <3>3 DEF Cached
  <2>2. here = {}
    BY <2>1
  <2>. QED
    BY <1>2, <1>5, <2>2, FS_EmptySet
<1>. QED
  BY <1>4, <1>5

(* The three numbers add up to one, by the invariant.                      *)
LEMMA InvOwner == IInv => NodeHasOneOwner
<1>. SUFFICES ASSUME IInv, allocated PROVE NodeHasOneOwner
  BY DEF NodeHasOneOwner
<1>. DEFINE chained == {p \in Places : p[2] <= Len(bucket[p[1]])}
            hands(n) == Cardinality({t \in InHand : node[t] = n})
            places(n) == Cardinality({p \in chained : bucket[p[1]][p[2]] = n})
<1>1. ArrayTypes /\ ChainsOK /\ OwnersOK
  BY DEF IInv, Sound, NodesOK
<1>2. \A b \in Buckets : Len(bucket[b]) <= Capacity
  BY <1>1, PlacesCount
<1>3. ASSUME NEW n \in Nodes
      PROVE  (IF n \in Pool THEN 1 ELSE 0) + hands(n) + places(n) = 1
  <2>1. hands(n) = IF \E t \in Threads : n \in Hand(t) THEN 1 ELSE 0
    BY <1>1, HandsCount
  <2>2. {p \in chained : bucket[p[1]][p[2]] = n}
          = {p \in Places : p[2] <= Len(bucket[p[1]]) /\ bucket[p[1]][p[2]] = n}
    OBVIOUS
  <2>3. places(n) = IF n \in Cached THEN 1 ELSE 0
    BY <1>1, <2>2, PlacesCount
  <2>4. /\ n \in Pool \/ n \in Cached \/ \E t \in Threads : n \in Hand(t)
        /\ ~(n \in Pool /\ n \in Cached)
        /\ \A t \in Threads : n \in Hand(t) => n \notin Pool /\ n \notin Cached
    BY <1>1 DEF OwnersOK
  <2>. QED
    BY <2>1, <2>3, <2>4
<1>. QED
  BY <1>2, <1>3 DEF NodeHasOneOwner

-----------------------------------------------------------------------------
(* An evicted node that is still counted is one of those not cached.       *)
LEMMA InvSize == IInv => SizeExactAtRest
<1>. SUFFICES ASSUME IInv, allocated
              PROVE  /\ AllIdle => current_element_count = Cardinality(Cached)
                     /\ current_element_count <= Capacity + Cardinality(Threads)
  BY DEF SizeExactAtRest
<1>1. Sound /\ ArrayTypes /\ OwnersOK /\ SizeOK
  BY DEF IInv, Sound, NodesOK
<1>2. /\ IsFiniteSet(Cached) /\ Cached \subseteq Nodes /\ Cardinality(Cached) \in Nat
      /\ Reserved \subseteq Threads /\ Cardinality(Reserved) \in Nat
      /\ IsFiniteSet(Nodes) /\ Cardinality(Nodes) = Capacity /\ Capacity \in Nat
      /\ IsFiniteSet(Threads) /\ Cardinality(Threads) \in Nat
  BY <1>1, SizesFinite, NodesFinite, ThreadAssumption, FS_CardinalityType
<1>3. Cardinality({}) = 0
  BY FS_EmptySet
<1>4. AllIdle => current_element_count = Cardinality(Cached)
  <2>1. AllIdle => Reserved = {} /\ Purged = {}
    BY <1>1 DEF AllIdle, Reserved, Purged, Sound, CallOK, ReturnsOK, Filling
  <2>. QED
    BY <1>1, <1>2, <1>3, <2>1 DEF SizeOK
<1>5. Cardinality(Reserved) <= Cardinality(Threads)
  BY <1>2, FS_Subset
<1>6. Cardinality(Cached) <= Capacity
  BY <1>2, FS_Subset
<1>7. Cardinality(Cached) + Cardinality(Purged) <= Capacity
  <2>1. CASE Purged = {}
    BY <1>2, <1>3, <1>6, <2>1
  <2>2. CASE Purged # {}
    <3>1. PICK t \in Threads : pc[t] = "purge_unlink"
      BY <2>2 DEF Purged
    <3>2. Purged = {t}
      BY <1>1, <3>1 DEF Purged, Sound, LockDiscipline, Consolidating, Purging
    <3>3. Cardinality(Purged) = 1
      BY <3>2, FS_Singleton
    <3>4. node[t] \in Nodes /\ node[t] \notin Cached
      BY <1>1, <3>1 DEF OwnersOK, Hand, If
    <3>5. Cardinality(Cached \cup {node[t]}) = Cardinality(Cached) + 1
      BY <1>2, <3>4, FS_AddElement
    <3>6. Cached \cup {node[t]} \subseteq Nodes
      BY <1>2, <3>4
    <3>7. Cardinality(Cached \cup {node[t]}) <= Capacity
      BY <1>2, <3>6, FS_Subset
    <3>. QED
      BY <3>3, <3>5, <3>7
  <2>. QED
    BY <2>1, <2>2
<1>8. Cardinality(Purged) \in Nat
  BY <1>1, SizesFinite
<1>9. current_element_count <= Capacity + Cardinality(Threads)
  BY <1>1, <1>2, <1>5, <1>7, <1>8 DEF SizeOK
<1>. QED
  BY <1>4, <1>9

-----------------------------------------------------------------------------
(* What pullRecent has taken is found by walking back from the last one.   *)
LEMMA TakenBack ==
  ASSUME NEW taken, TakenIs(taken), NEW stop, stop \notin Nodes,
         \A x \in Joining : x = lru_next[TEMP] /\ lru_prev[x] = stop,
         Joining = {} => stop = TEMP, Joining # {} => LastTaken # TEMP
  PROVE  Reached(LastTaken, lru_prev) = Range(taken)
<1>. DEFINE rev == Reverse(taken)
<1>1. /\ Distinct(taken, Nodes) /\ IsWhole(TEMP, taken, TAIL, TakenNext, TakenPrev)
      /\ Distinct(rev, Nodes) /\ Leads(rev, LastTaken, TakenPrev, TEMP) /\ Len(rev) = Len(taken)
  <2>1. TakenPrev[TAIL] = LastTaken
    BY DEF TakenPrev, Base
  <2>. QED
    BY <2>1, WholeBack DEF TakenIs
<1>2. /\ taken \in Seq(Nodes) /\ rev \in Seq(Nodes) /\ Len(taken) \in Nat
      /\ \A i \in 1 .. Len(taken) : rev[i] = taken[Len(taken) - i + 1]
  <2>1. taken \in Seq(Nodes) /\ rev \in Seq(Nodes) /\ Len(taken) \in Nat
    BY <1>1, DistinctIn
  <2>. QED
    BY <2>1 DEF Reverse
<1>3. Range(rev) = Range(taken)
  <2>1. \A i \in 1 .. Len(taken) : /\ Len(taken) - i + 1 \in 1 .. Len(taken)
                                   /\ rev[Len(taken) - i + 1] = taken[i]
    BY <1>2
  <2>2. DOMAIN rev = 1 .. Len(taken) /\ DOMAIN taken = 1 .. Len(taken)
    BY <1>1, <1>2
  <2>3. \A x \in Range(rev) : x \in Range(taken)
    BY <1>2, <2>1, <2>2 DEF Range
  <2>4. \A x \in Range(taken) : x \in Range(rev)
    BY <1>2, <2>1, <2>2 DEF Range
  <2>. QED
    BY <2>3, <2>4
<1>4. \A x \in Nodes : x \notin Joining => TakenPrev[x] = lru_prev[x]
  BY PointersDiffer DEF TakenPrev, Base
<1>. HIDE DEF rev
<1>5. Leads(rev, LastTaken, lru_prev, stop)
  <2>1. CASE Joining = {}
    <3>1. \A x \in Range(rev) : lru_prev[x] = TakenPrev[x]
      BY <1>1, <1>2, <1>4, <2>1, DistinctIn
    <3>. QED
      BY <1>1, <1>2, <2>1, <3>1, LeadsFrame
  <2>2. CASE Joining # {}
    <3>1. PICK f \in Joining : TRUE
      BY <2>2
    <3>2. f = lru_next[TEMP] /\ lru_prev[f] = stop /\ LastTaken # TEMP
      BY <2>2, <3>1
    <3>3. Joining = {f}
      BY <3>2, <3>1
    <3>4. taken # <<>> /\ taken[1] = f
      <4>1. Leads(taken, TakenNext[TEMP], TakenNext, TAIL)
        BY <1>1, WholeLeads
      <4>2. TakenNext[TEMP] = f
        BY <3>2 DEF TakenNext, Base
      <4>3. f # TAIL
        BY <3>2, TakenLinks, PointersDiffer
      <4>. QED
        BY <4>1, <4>2, <4>3 DEF Leads
    <3>5. Len(taken) \in Nat \ {0} /\ rev # <<>> /\ rev[Len(rev)] = f
      BY <1>1, <1>2, <3>4
    <3>6. \A i \in 1 .. Len(rev) - 1 : rev[i] \in Nodes /\ rev[i] # f
      <4>1. IsInjective(rev) /\ DOMAIN rev = 1 .. Len(rev)
        BY <1>1, <1>2 DEF Distinct
      <4>. QED
        BY <1>1, <1>2, <3>5, <4>1 DEF IsInjective
    <3>7. \A i \in 1 .. Len(rev) - 1 : lru_prev[rev[i]] = rev[i + 1]
      BY <1>1, <1>4, <3>3, <3>5, <3>6 DEF Leads
    <3>. QED
      BY <1>1, <3>2, <3>5, <3>7 DEF Leads
  <2>. QED
    BY <2>1, <2>2
<1>6. Follow(LastTaken, lru_prev, Nodes, Capacity) = rev
  <2>1. IsFiniteSet(Nodes) /\ Capacity \in Nat /\ Cardinality(Nodes) <= Capacity + 1
    BY NodesFinite
  <2>. QED
    BY <1>1, <1>5, <2>1, EndsIs
<1>. QED
  BY <1>3, <1>6 DEF Reached, Walk

(* The walk goes back over all that pullRecent has taken, whether or not   *)
(* the first of them points to the head of the LRU list already.           *)
LEMMA TakenOutIs ==
  ASSUME Sound, NEW list, NEW back, NEW taken, ListsAre(list, back, taken)
  PROVE  TakenOut = Range(taken)
<1>. DEFINE points == {"pull_visit", "pull_skip", "pull_clear", "add_first", "add_cas"}
            busy == {u \in Threads : lru_lock = u /\ pc[u] \in points}
<1>1. TakenIs(taken) /\ \A t \in Threads : ThreadOK(t, Range(list), Range(taken))
  BY DEF ListsAre
<1>2. lru_lock \in Threads \cup {NULL} /\ NULL \notin Threads
  BY ApiAssumption DEF Sound, ControlTypeOK
<1>3. ASSUME NEW t \in busy
      PROVE  Reached(IF pc[t] = "pull_clear" THEN node[t] ELSE prev[t], lru_prev) = Range(taken)
  <2>1. lru_lock = t /\ lru_lock # NULL /\ pc[t] \in points /\ t \in Threads
    BY <1>2, <1>3
  <2>2. LastTaken = IF pc[t] = "pull_clear" THEN node[t] ELSE prev[t]
    BY <2>1 DEF LastTaken, Consolidates
  <2>3. CASE pc[t] = "add_cas"
    <3>1. /\ node[t] = lru_next[TEMP] /\ lru_prev[node[t]] = HEAD /\ prev[t] \in Range(taken)
          /\ Range(taken) \subseteq Nodes
      BY <1>1, <2>1, <2>3, TakenLinks DEF ThreadOK, AdderOK
    <3>2. Joining = {node[t]} /\ LastTaken # TEMP
      BY <2>1, <2>2, <2>3, <3>1, PointersDiffer DEF Joining, Consolidates, If
    <3>. QED
      BY <1>1, <2>2, <3>1, <3>2, TakenBack, PointersDiffer
  <2>4. CASE pc[t] # "add_cas"
    <3>1. Joining = {}
      BY <2>1, <2>4 DEF Joining, Consolidates, If
    <3>. QED
      BY <1>1, <2>2, <3>1, TakenBack, PointersDiffer
  <2>. QED
    BY <2>3, <2>4
<1>4. TakenOut = UNION {Reached(IF pc[t] = "pull_clear" THEN node[t] ELSE prev[t], lru_prev)
                        : t \in busy}
  BY DEF TakenOut
<1>5. CASE busy = {}
  <2>1. LastTaken = TEMP
    <3>1. CASE Consolidates({"pull_reset"})
      BY <1>1, <1>2, <3>1 DEF Consolidates, LastTaken, ThreadOK, PullerOK
    <3>2. CASE ~Consolidates({"pull_reset"})
      BY <1>2, <1>5, <3>2 DEF Consolidates, LastTaken
    <3>. QED
      BY <3>1, <3>2
  <2>2. Range(taken) = {}
    BY <1>1, <2>1, TakenLinks
  <2>. QED
    BY <1>4, <1>5, <2>2
<1>6. CASE busy # {}
  BY <1>3, <1>4, <1>6
<1>. QED
  BY <1>5, <1>6

(* The LRU list is whole, by the invariant.                                *)
LEMMA InvWhole == IInv => LruListIsWhole
<1>. SUFFICES ASSUME IInv, allocated PROVE LruListIsWhole
  BY DEF LruListIsWhole
<1>1. Sound /\ NodesOK
  BY DEF IInv
<1>2. PICK list, back, taken : ListsAre(list, back, taken)
  BY DEF IInv, ListsOK
<1>3. LruIs(list, back) /\ PlacesOK(Range(list), Range(taken)) /\ Range(list) \subseteq Nodes
  BY <1>2, LruLinks DEF ListsAre
<1>4. LruOrder = list /\ Path(lru_next[HEAD], lru_next, TAIL)
  <2>1. Distinct(list, Nodes) /\ Leads(list, lru_next[HEAD], lru_next, TAIL)
    BY <1>3, WholeLeads DEF LruIs
  <2>2. IsFiniteSet(Nodes) /\ Capacity \in Nat /\ Cardinality(Nodes) <= Capacity + 1
    BY NodesFinite
  <2>. QED
    BY <2>1, <2>2, EndsIs, PointersDiffer DEF LruOrder, Walk, Path
<1>5. Ends(lru_next[HEAD], lru_next, TAIL)
  BY <1>4, PathEnds, PointersDiffer
<1>6. Range(LruOrder) = (Cached \cup BeingEvicted) \ (NotYetLinked \cup TakenOut)
  <2>1. TakenOut = Range(taken)
    BY <1>1, <1>2, TakenOutIs
  <2>2. /\ \A n : n \in BeingEvicted <=> \E t \in Threads : n \in Evicting(t)
        /\ \A n : n \in NotYetLinked <=> \E t \in Threads : n \in Unlinked(t)
    BY DEF BeingEvicted, NotYetLinked, Evicting, Unlinked, If
  <2>3. Cached \subseteq Nodes /\ BeingEvicted \subseteq Nodes
    <3>1. Cached \subseteq Nodes
      BY <1>1 DEF Cached, Range, Sound, ArrayTypes
    <3>2. \A t \in Threads : Evicting(t) \subseteq Hand(t) /\ Hand(t) \subseteq Nodes
      BY <1>1 DEF Evicting, Hand, If, NodesOK, OwnersOK
    <3>. QED
      BY <2>2, <3>1, <3>2
  <2>. QED
    BY <1>3, <1>4, <2>1, <2>2, <2>3 DEF PlacesOK
<1>7. ASSUME NEW n \in Range(LruOrder) \cup {HEAD}
      PROVE  lru_prev[lru_next[n]] = n \/ BackLinkPending(n, lru_next[n])
  <2>1. lru_next[n] \in Range(list) \cup {TAIL} /\ back[lru_next[n]] = n
    BY <1>3, <1>4, <1>7, LruLinks
  <2>2. \/ lru_prev[lru_next[n]] = n
        \/ lru_prev[lru_next[n]] = HEAD /\ \E t \in Threads : <<n, lru_next[n]>> \in Pending(t)
    BY <1>3, <2>1 DEF LruIs
  <2>. QED
    BY <2>2 DEF BackLinkPending, Pending, If
<1>. QED
  BY <1>5, <1>6, <1>7 DEF LruListIsWhole

-----------------------------------------------------------------------------
(* What a thread's node is, by what the thread does with it.               *)
LEMMA NodesHeld ==
  ASSUME Sound, NodesOK, ListsOK, NEW t \in Threads
  PROVE  /\ pc[t] \in FindLocked \cup Filling \cup Adding \cup
                      {"alloc_cas", "ins_done", "purge_bucket", "purge_unlink",
                       "dispose", "pull_skip", "pull_clear"} => node[t] \in Nodes
         /\ pc[t] = "alloc_next" => node[t] \in Nodes \cup {NULL}
         /\ pc[t] = "purge_visit" => node[t] \in Nodes \cup {HEAD}
         /\ pc[t] \in {"pull_reset", "pull_visit"} => node[t] \in Nodes \cup {DUMMY}
<1>1. PICK list, back, taken : ListsAre(list, back, taken)
  BY DEF ListsOK
<1>2. /\ FinderOK(t) /\ InserterOK(t) /\ AdderOK(t, Range(list), Range(taken))
      /\ PurgerOK(t, Range(list)) /\ PullerOK(t) /\ OwnersOK /\ MarkListsOK /\ LockDiscipline
      /\ Range(list) \subseteq Nodes /\ Range(taken) \subseteq Nodes
  <2>1. Range(list) \subseteq Nodes /\ Range(taken) \subseteq Nodes
    BY <1>1, LruLinks, TakenLinks DEF ListsAre
  <2>. QED
    BY <1>1, <2>1 DEF ListsAre, ThreadOK, NodesOK, Sound
<1>3. CASE pc[t] \in FindLocked
  BY <1>2, <1>3, HeldNodes DEF FindLocked
<1>4. CASE pc[t] \in Filling \cup {"purge_unlink", "dispose"}
  BY <1>2, <1>4 DEF OwnersOK, Hand, If, Filling
<1>5. CASE pc[t] \in Adding \cup {"ins_done"}
  <2>1. CASE pc[t] = "ins_done" \/ lru_lock # t
    <3>1. Late(t) = {node[t]} /\ Late(t) \subseteq Cached
      BY <1>2, <1>5, <2>1 DEF Late, If, OwnersOK
    <3>2. Cached \subseteq Nodes
      BY DEF Cached, Range, Sound, ArrayTypes
    <3>. QED
      BY <1>5, <3>1, <3>2 DEF Adding
  <2>2. CASE pc[t] # "ins_done" /\ lru_lock = t
    <3>1. node[t] \in Range(list) \cup Range(taken)
      BY <1>2, <1>5, <2>2 DEF Adding, AdderOK
    <3>. QED
      BY <1>2, <1>5, <3>1 DEF Adding
  <2>. QED
    BY <2>1, <2>2
<1>6. CASE pc[t] \in {"alloc_next", "alloc_cas"}
  BY <1>2, <1>6 DEF InserterOK, FindLocked, Filling, Adding
<1>7. CASE pc[t] \in {"purge_visit", "purge_bucket"}
  BY <1>2, <1>7 DEF PurgerOK, FindLocked, Filling, Adding
<1>8. CASE pc[t] \in {"pull_skip", "pull_clear"}
  BY <1>2, <1>8 DEF PullerOK
<1>9. CASE pc[t] \in {"pull_reset", "pull_visit"}
  <2>1. lru_lock = t /\ lru_lock # NULL
    BY <1>2, <1>9, ApiAssumption DEF LockDiscipline, Consolidating, Pulling
  <2>2. SliceHead = node[t]
    BY <1>9, <2>1 DEF SliceHead, Consolidates
  <2>3. node[t] \in Nodes \cup {DUMMY}
    BY <1>2, <2>2, PathStart, PointersDiffer DEF MarkListsOK
  <2>. QED
    BY <1>9, <2>3 DEF FindLocked, Filling, Adding
<1>. QED
  BY <1>3, <1>4, <1>5, <1>6, <1>7, <1>8, <1>9

(* Types, by the invariant.                                                *)
LEMMA InvType == IInv => TypeOK
<1>. SUFFICES ASSUME IInv PROVE TypeOK
  OBVIOUS
<1>1. ControlTypeOK /\ ArrayTypes /\ LocalTypes /\ current_element_count \in Nat /\ Sound
  BY DEF IInv, Sound
<1>2. ASSUME NEW t \in Threads
      PROVE  CASE pc[t] \in FindLocked \cup Filling \cup Adding \cup
                            {"alloc_cas", "ins_done", "purge_bucket", "purge_unlink",
                             "dispose", "pull_skip", "pull_clear"} -> node[t] \in Nodes
               [] pc[t] = "alloc_next" -> node[t] \in Nodes \cup {NULL}
               [] pc[t] = "purge_visit" -> node[t] \in Nodes \cup {HEAD}
               [] pc[t] \in {"pull_reset", "pull_visit"} -> node[t] \in Nodes \cup {DUMMY}
               [] OTHER -> TRUE
  <2>1. /\ pc[t] \in FindLocked \cup Filling \cup Adding \cup
                     {"alloc_cas", "ins_done", "purge_bucket", "purge_unlink",
                      "dispose", "pull_skip", "pull_clear"} => node[t] \in Nodes
        /\ pc[t] = "alloc_next" => node[t] \in Nodes \cup {NULL}
        /\ pc[t] = "purge_visit" => node[t] \in Nodes \cup {HEAD}
        /\ pc[t] \in {"pull_reset", "pull_visit"} => node[t] \in Nodes \cup {DUMMY}
    <3>1. CASE allocated
      BY <1>1, <3>1, NodesHeld DEF IInv
    <3>2. CASE ~allocated
      BY <1>1, <3>2 DEF ControlTypeOK, AllIdle, FindLocked, Filling, Adding
    <3>. QED
      BY <3>1, <3>2
  <2>. QED
    BY <2>1
<1>3. value \in [Nodes -> Keys \cup {NoKey}]
  BY <1>1 DEF ArrayTypes
<1>. QED
  BY <1>1, <1>2, <1>3 DEF TypeOK, ControlTypeOK, ArrayTypes, LocalTypes

-----------------------------------------------------------------------------
(* The node that an insert fills is empty.                                 *)
LEMMA FilledWasEmpty ==
  ASSUME Sound, NodesOK, NEW t \in Threads, pc[t] = "fill"
  PROVE  node[t] \in Nodes /\ value[node[t]] = NoKey
<1>1. OwnersOK /\ ChainsOK /\ value = key
  BY DEF Sound, ArrayTypes, NodesOK
<1>2. node[t] \in Hand(t) /\ node[t] \in Nodes /\ node[t] \notin Cached
  BY <1>1 DEF OwnersOK, Hand, If, Filling
<1>3. ASSUME NEW u \in Threads PROVE node[t] \notin Keyed(u)
  <2>1. CASE u = t
    BY <2>1 DEF Keyed, Filled, Evicting, If
  <2>2. CASE u # t
    <3>1. Keyed(u) \subseteq Hand(u)
      BY DEF Keyed, Filled, Evicting, Hand, If, Filling
    <3>. QED
      BY <1>1, <1>2, <2>2, <3>1 DEF OwnersOK, Owned
  <2>. QED
    BY <2>1, <2>2
<1>. QED
  BY <1>1, <1>2, <1>3 DEF ChainsOK

\* After releaseMemory no value is left.
Emptied == ~allocated => \A n \in Nodes : value[n] = NoKey

\* What ValuesLeaveThroughOnDelete says of a step.
HandedOver ==
  \A n \in Nodes :
    /\ value[n] # NoKey /\ value'[n] # value[n] => onDelete(n)
    /\ onDelete(n) => value[n] # NoKey /\ value'[n] = NoKey

(* releaseMemory runs when no call is in progress: every value is then in  *)
(* a chain, and is handed over from there.                                 *)
LEMMA ReleaseHandsOver ==
  ASSUME IInv, releaseMemory, NEW n \in Nodes
  PROVE  /\ value[n] # NoKey <=> n \in Cached
         /\ value'[n] = NoKey
<1>1. ChainsOK /\ value = key
  BY DEF IInv, NodesOK, Sound, ArrayTypes, releaseMemory
<1>2. \A t \in Threads : Keyed(t) = {}
  BY DEF releaseMemory, AllIdle, Keyed, Filled, Evicting, If
<1>3. value[n] # NoKey <=> n \in Cached
  BY <1>1, <1>2 DEF ChainsOK
<1>4. value'[n] = IF n \in Cached THEN NoKey ELSE value[n]
  BY DEF releaseMemory, Cached
<1>. QED
  BY <1>3, <1>4

(* So nothing is left that allocateMemory could overwrite.                 *)
LEMMA NextEmpties ==
  ASSUME IInv, Emptied, [Next]_vars
  PROVE  Emptied'
<1>1. ASSUME NEW t \in Threads, Step(t) PROVE allocated'
  BY <1>1, StepAllocated DEF IInv
<1>2. ASSUME NEW t \in Threads, StartAny(t) PROVE allocated'
  BY <1>2 DEF StartAny, Start
<1>3. CASE releaseMemory
  BY <1>3, ReleaseHandsOver DEF Emptied
<1>4. CASE allocateMemory
  BY <1>4 DEF allocateMemory, Emptied
<1>5. CASE UNCHANGED vars
  BY <1>5 DEF vars, items, Emptied
<1>. QED
  BY <1>1, <1>2, <1>3, <1>4, <1>5 DEF Next, Emptied

(* Of the steps of a call only FillNode and PurgeUnlink change a value.    *)
LEMMA StepLeavesValues ==
  ASSUME NEW t \in Threads, Step(t), ~FillNode(t), ~PurgeUnlink(t)
  PROVE  value' = value /\ ~(pc[t] = "purge_unlink" /\ pc'[t] = "dispose")
<1>1. value' = value
  BY DEF Step, Find, Allocate, Fill, AddSublist, Purge, Pull, FindMiss, FindHit,
         FindCopyMarked, FindCopyUnmarked, MarkCas, MarkCasFails, MarkCount,
         BelowThreshold, RecentThresholdHit, requestPull, InsertBegins, AllocLoad,
         requestPurge, AllocNext, AllocCas, AllocCasFails, addNodeToBucket,
         InsertReturns, AddFirst, AddCas, AddCasFails, AddBack, PurgeBegins, NoPurge,
         PurgeSkip, PurgeChoose, removeNodeFromBucket, KeepInBucket, DisposeCas,
         DisposeCasFails, PurgeEnds, PurgeLowersFlag, PullBegins, NoPull, PullReset,
         PullSkip, PullSkipClear, PullUnlink, PullClear, PullFoundNone, PullAdds,
         PullLowersFlag, TryLock, TryLockFails, UnlockLru, items
<1>2. ~(pc[t] = "purge_unlink" /\ pc'[t] = "dispose")
  BY DEF Step, Find, Allocate, Fill, AddSublist, Purge, Pull, FindMiss, FindHit,
         FindCopyMarked, FindCopyUnmarked, MarkCas, MarkCasFails, MarkCount,
         BelowThreshold, RecentThresholdHit, requestPull, InsertBegins, AllocLoad,
         requestPurge, AllocNext, AllocCas, AllocCasFails, addNodeToBucket,
         InsertReturns, AddFirst, AddCas, AddCasFails, AddBack, PurgeBegins, NoPurge,
         PurgeSkip, PurgeChoose, removeNodeFromBucket, KeepInBucket, DisposeCas,
         DisposeCasFails, PurgeEnds, PurgeLowersFlag, PullBegins, NoPull, PullReset,
         PullSkip, PullSkipClear, PullUnlink, PullClear, PullFoundNone, PullAdds,
         PullLowersFlag, TryLock, TryLockFails, UnlockLru, Goto, Return
<1>. QED
  BY <1>1, <1>2

(* FillNode takes an empty node, and PurgeUnlink a full one, which it      *)
(* empties.                                                                *)
LEMMA StepHandsOver ==
  ASSUME IInv, NEW t \in Threads, Step(t)
  PROVE  HandedOver
<1>1. Sound /\ value = key /\ value \in [Nodes -> Keys \cup {NoKey}]
  BY DEF IInv, Sound, ArrayTypes
<1>2. allocated /\ allocated'
  BY <1>1, StepAllocated
<1>3. \A u \in Threads : u # t => pc'[u] = pc[u]
  BY <1>1, OthersStay DEF Others, Still
<1>4. \A n \in Nodes :
        onDelete(n) <=> pc[t] = "purge_unlink" /\ pc'[t] = "dispose" /\ node[t] = n
  BY <1>2, <1>3 DEF onDelete
<1>5. CASE FillNode(t)
  <2>1. /\ pc[t] = "fill" /\ value' = [value EXCEPT ![node[t]] = arg[t]]
    BY <1>5 DEF FillNode, Goto
  <2>2. value[node[t]] = NoKey
    BY <1>1, <1>2, <2>1, FilledWasEmpty DEF IInv
  <2>. QED
    BY <1>1, <1>4, <2>1, <2>2 DEF HandedOver
<1>6. CASE PurgeUnlink(t)
  <2>1. /\ pc[t] = "purge_unlink" /\ pc'[t] = "dispose"
        /\ value' = [value EXCEPT ![node[t]] = NoKey]
    BY <1>1, <1>6 DEF PurgeUnlink, Goto, Sound, ControlTypeOK
  <2>2. key[node[t]] \in Keys
    BY <1>2, <2>1 DEF IInv, ListsOK, ListsAre, ThreadOK, PurgerOK
  <2>3. value[node[t]] # NoKey
    BY <1>1, <2>2, KeyAssumption
  <2>. QED
    BY <1>1, <1>4, <2>1, <2>3 DEF HandedOver
<1>7. CASE ~FillNode(t) /\ ~PurgeUnlink(t)
  BY <1>4, <1>7, StepLeavesValues DEF HandedOver
<1>. QED
  BY <1>5, <1>6, <1>7

(* Every step hands over what it clears, and clears what it hands over.    *)
LEMMA NextHandsOver ==
  ASSUME IInv, Emptied, [Next]_vars
  PROVE  [HandedOver]_vars
<1>1. ASSUME NEW t \in Threads, Step(t) PROVE HandedOver
  BY <1>1, StepHandsOver
<1>2. ASSUME NEW t \in Threads, StartAny(t) PROVE HandedOver
  <2>1. value' = value /\ allocated' = allocated
    BY <1>2 DEF StartAny, Start, items
  <2>2. \A u \in Threads : ~(pc[u] = "purge_unlink" /\ pc'[u] = "dispose")
    BY <1>2 DEF StartAny, Start, Goto, IInv, Sound, ControlTypeOK
  <2>. QED
    BY <2>1, <2>2 DEF HandedOver, onDelete
<1>3. CASE releaseMemory
  <2>1. pc' = pc /\ allocated /\ ~allocated'
    BY <1>3 DEF releaseMemory
  <2>. QED
    BY <1>3, <2>1, ReleaseHandsOver DEF HandedOver, onDelete
<1>4. CASE allocateMemory
  <2>1. pc' = pc /\ ~allocated
    BY <1>4 DEF allocateMemory
  <2>. QED
    BY <2>1 DEF HandedOver, onDelete, Emptied
<1>. QED
  BY <1>1, <1>2, <1>3, <1>4 DEF Next

-----------------------------------------------------------------------------
(* Every step of a call that changes the forward links of the LRU list or  *)
(* of another one leaves the list, or adds to it, or takes a node out.     *)
LEMMA StepReorders ==
  ASSUME NEW t \in Threads, NEW list, NEW back, NEW taken, Given(t, list, back, taken), Step(t),
         lru_next' # lru_next
  PROVE  Reordered(t, list)
<1>1. \/ AddFirst(t) \/ AddCas(t) \/ AddCasFails(t)
      \/ PurgeUnlink(t) \/ DisposeCasFails(t) \/ PullUnlink(t) \/ PullLowersFlag(t)
  BY DEF Step, Find, Allocate, Fill, AddSublist, Purge, Pull, FindMiss, FindHit,
     FindCopyMarked, FindCopyUnmarked, MarkCas, MarkCasFails,
     MarkCount, BelowThreshold, RecentThresholdHit, requestPull,
     InsertBegins, AllocLoad, requestPurge, AllocNext, AllocCas, AllocCasFails, FillNode,
     addNodeToBucket, InsertReturns, AddBack, PurgeBegins, NoPurge, PurgeSkip,
     PurgeChoose, removeNodeFromBucket, KeepInBucket, DisposeCas, PurgeEnds,
     PurgeLowersFlag, PullBegins, NoPull, PullReset, PullSkip, PullSkipClear,
     PullClear, PullFoundNone, PullAdds, TryLock, TryLockFails, UnlockLru, links
<1>. QED
  BY <1>1, AddFirstKeeps, AddCasKeeps, AddCasFailsKeeps, PurgeUnlinkKeeps, DisposeCasFailsKeeps,
     PullUnlinkKeeps, PullLowersFlagKeeps

(* A list that is whole is the one that the walk from HEAD finds.          *)
LEMMA WalkFinds ==
  ASSUME NEW list, NEW succ, NEW back, Distinct(list, Nodes), IsWhole(HEAD, list, TAIL, succ, back)
  PROVE  Walk(succ[HEAD], succ) = list
<1>1. Leads(list, succ[HEAD], succ, TAIL)
  BY WholeLeads
<1>2. IsFiniteSet(Nodes) /\ Capacity \in Nat /\ Cardinality(Nodes) <= Capacity + 1
  BY NodesFinite
<1>. QED
  BY <1>1, <1>2, EndsIs, PointersDiffer DEF Walk

\* What EntersAtHead says of a step.
AddsOrTakesOne ==
  LET old == LruOrder
      new == LruOrder'
  IN  \/ IsSuffix(old, new)
      \/ \E t \in Threads, i \in DOMAIN old \ {1} :
           lru_lock = t /\ node[t] = old[i] /\ new = RemoveAt(old, i)

(* While the memory is there every step does so.                           *)
LEMMA NextReorders ==
  ASSUME IInv, [Next]_vars, allocated, lru_next' # lru_next
  PROVE  AddsOrTakesOne
<1>1. PICK list, back, taken : ListsAre(list, back, taken)
  BY DEF IInv, ListsOK
<1>2. LruOrder = list /\ list \in Seq(Nodes)
  <2>1. Distinct(list, Nodes) /\ IsWhole(HEAD, list, TAIL, lru_next, back)
    BY <1>1 DEF ListsAre, LruIs
  <2>. QED
    BY <2>1, WalkFinds DEF LruOrder, Distinct
<1>3. PICK t \in Threads : Step(t)
  <2>1. \A t \in Threads : ~StartAny(t)
    BY DEF StartAny, Start, links
  <2>. QED
    BY <2>1 DEF Next, releaseMemory, allocateMemory, links, vars
<1>4. Reordered(t, list)
  <2>1. Given(t, list, back, taken)
    BY <1>1, <1>3, OthersStay DEF Given, IInv
  <2>. QED
    BY <1>3, <2>1, StepReorders
<1>5. PICK list2, back2 :
        /\ LruIs(list2, back2)'
        /\ \/ list2 = list
           \/ \E front \in Seq(Nodes) : list2 = front \o list
           \/ \E i \in 1 .. Len(list) : /\ i # 1 /\ lru_lock = t /\ node[t] = list[i]
                                       /\ list2 = RemoveAt(list, i)
  BY <1>4 DEF Reordered
<1>6. LruOrder' = list2
  <2>1. Distinct(list2, Nodes) /\ IsWhole(HEAD, list2, TAIL, lru_next', back2)
    BY <1>5 DEF LruIs
  <2>. QED
    BY <2>1, WalkFinds DEF LruOrder
<1>7. CASE list2 = list
  BY <1>2, <1>6, <1>7, SuffixOfSame DEF AddsOrTakesOne
<1>8. CASE \E front \in Seq(Nodes) : list2 = front \o list
  BY <1>2, <1>6, <1>8, SuffixOfJoin DEF AddsOrTakesOne
<1>9. CASE \E i \in 1 .. Len(list) : /\ i # 1 /\ lru_lock = t /\ node[t] = list[i]
                                   /\ list2 = RemoveAt(list, i)
  BY <1>2, <1>3, <1>6, <1>9 DEF AddsOrTakesOne
<1>. QED
  BY <1>5, <1>7, <1>8, <1>9

-----------------------------------------------------------------------------
(* Type correctness: in particular no thread dereferences a null pointer   *)
(* or a sentinel that it must not touch, wherever it is in a call.         *)
THEOREM SpecTypeOK == Spec /\ []PoolUndeceived => []TypeOK
BY SpecInvariant, InvType, PTL

(* A lookup copies the value that was inserted for its key (find 236-255), *)
(* whatever purgeOld and the inserts do meanwhile.                         *)
THEOREM SpecHitReadsOwnValue == Spec /\ []PoolUndeceived => []HitReadsOwnValue
BY SpecInvariant, InvReads, PTL

(* A node that a lookup has found is, until it unlocks the bucket, in that *)
(* bucket and in nobody's hands: removeNodeFromBucket cannot come between  *)
(* the search and the mark, nor an insert fill the node under the reader   *)
(* (find 236-255, removeNodeFromBucket 584).                               *)
THEOREM SpecHitStaysInBucket == Spec /\ []PoolUndeceived => []HitStaysInBucket
BY SpecInvariant, InvStays, PTL

(* Every node is in the pool, or in one bucket once, or in the hands of    *)
(* one thread that fills or evicts it (allocateNode, disposeNode,          *)
(* removeNodeFromBucket).                                                  *)
THEOREM SpecNodeHasOneOwner == Spec /\ []PoolUndeceived => []NodeHasOneOwner
BY SpecInvariant, InvOwner, PTL

(* The LRU list holds the nodes it should and can be walked both ways, the *)
(* back link of an unfinished addSublistToLruHead excepted.                *)
THEOREM SpecLruListIsWhole == Spec /\ []PoolUndeceived => []LruListIsWhole
BY SpecInvariant, InvWhole, PTL

(* The recent link of a node is null unless the node is in the Recent      *)
(* list, in pullRecent's slice, or on its way in (markedRecent).           *)
THEOREM SpecRecentLinkTells == Spec /\ []PoolUndeceived => []RecentLinkTells
BY SpecInvariant, InvTells, PTL

(* approximateSize is exact at rest, and never exceeds the capacity by     *)
(* more than the number of threads (insert 291, purgeOld 425).             *)
THEOREM SpecSizeExactAtRest == Spec /\ []PoolUndeceived => []SizeExactAtRest
BY SpecInvariant, InvSize, PTL

(* A value leaves its node by being handed to onDelete, by purgeOld or by  *)
(* releaseMemory (425, 170), and is handed over once: no insert overwrites *)
(* it, allocateMemory finds none left, and what onDelete gets is there and *)
(* is gone afterwards.                                                     *)
THEOREM SpecValuesLeaveThroughOnDelete ==
  Spec /\ []PoolUndeceived => ValuesLeaveThroughOnDelete
<1>1. Init => Emptied
  BY DEF Init, Emptied
<1>2. IInv /\ Emptied /\ [Next]_vars => Emptied' /\ [HandedOver]_vars
  BY NextEmpties, NextHandsOver
<1>. HIDE DEF HandedOver, Emptied
<1>3. Spec /\ []PoolUndeceived => [][HandedOver]_vars
  BY SpecInvariant, <1>1, <1>2, PTL DEF Spec
<1>. QED
  BY <1>3 DEF HandedOver, ValuesLeaveThroughOnDelete

(* Nodes enter the LRU list at its head and leave it one at a time, in the *)
(* hands of the consolidating thread and not from next to the head         *)
(* (addSublistToLruHead, removeNodeFromLru in purgeOld and pullRecent).    *)
THEOREM SpecEntersAtHead == Spec /\ []PoolUndeceived => EntersAtHead
<1>1. IInv /\ [Next]_vars => [allocated /\ lru_next' # lru_next => AddsOrTakesOne]_lru_next
  BY NextReorders
<1>2. Spec /\ []PoolUndeceived
        => [][allocated /\ lru_next' # lru_next => AddsOrTakesOne]_lru_next
  BY SpecInvariant, <1>1, PTL DEF Spec
<1>. QED
  BY <1>2 DEF AddsOrTakesOne, EntersAtHead

Safety ==
  /\ TypeOK /\ HitReadsOwnValue /\ HitStaysInBucket /\ NodeHasOneOwner
  /\ LruListIsWhole /\ RecentLinkTells /\ SizeExactAtRest /\ PoolHoldsEmptyNodes

(* All of it, by the invariant.                                            *)
LEMMA InvSafety == IInv => Safety
<1>1. IInv => PoolHoldsEmptyNodes
  BY DEF IInv, NodesOK, OwnersOK, PoolHoldsEmptyNodes
<1>. QED
  BY <1>1, InvType, InvReads, InvStays, InvOwner, InvWhole, InvTells, InvSize DEF Safety

(* With one inserting thread there is no condition on the pool: all of it  *)
(* holds in every behaviour.                                               *)
THEOREM OneInserterSafety ==
  OneInserter => (Spec => []Safety /\ ValuesLeaveThroughOnDelete /\ EntersAtHead)
<1>1. Spec /\ []PoolUndeceived => []Safety /\ ValuesLeaveThroughOnDelete /\ EntersAtHead
  BY SpecInvariant, InvSafety, SpecValuesLeaveThroughOnDelete, SpecEntersAtHead, PTL
<1>. QED
  BY <1>1, OneInserterUndeceived, PTL

(* Nor is there one while no more inserts have begun than there are nodes  *)
(* and one more, from however many threads.                                *)
THEOREM FewInsertsSafety ==
  CountedSpec /\ []FewInserts => []Safety /\ ValuesLeaveThroughOnDelete /\ EntersAtHead
<1>1. Spec /\ []PoolUndeceived => []Safety /\ ValuesLeaveThroughOnDelete /\ EntersAtHead
  BY SpecInvariant, InvSafety, SpecValuesLeaveThroughOnDelete, SpecEntersAtHead, PTL
<1>. QED
  BY <1>1, CountedIsSpec, FewInsertsUndeceived, PTL
=============================================================================
