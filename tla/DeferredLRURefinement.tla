------------------------ MODULE DeferredLRURefinement ------------------------
(* DeferredLRU implements EvictingCache: a slot is a node, and it holds an  *)
(* item while it is in a bucket.                                            *)
EXTENDS DeferredLRUProperties

storedNow == [n \in Nodes |-> IF n \in Cached THEN value[n] ELSE NoKey]
recentNow == {n \in Cached : markedRecent(n)}

\* A node that purgeOld has taken out of its bucket is still in the list.
Without(list, n) == RemoveAt(list, CHOOSE i \in DOMAIN list : list[i] = n)
Unlinking == lru_lock # NULL /\ pc[lru_lock] = "purge_unlink"
orderNow ==
  IF ~allocated THEN <<>>
  ELSE IF Unlinking THEN Without(LruOrder, node[lru_lock]) ELSE LruOrder

\* purgeOld is about to visit this node, or busy with it.
scannedTo == IF pc[lru_lock] = "dispose" THEN prev[lru_lock] ELSE node[lru_lock]
Scanning == lru_lock # NULL /\ pc[lru_lock] \in Purging \ {"purge_done"}
scannedNow ==
  IF Scanning /\ scannedTo \in Nodes
  THEN Reached(lru_next[scannedTo], lru_next) ELSE {}

wantedOf(t) == IF pc[t] = "find_lock" THEN arg[t] ELSE NoKey
foundOf(t) == IF pc[t] = "find_copy" THEN node[t] ELSE NULL
insertingOf(t) ==
  CASE pc[t] \in FindLocked \cup {"find_lock"} -> NoKey
    [] pc[t] = "add_to_bucket" -> value[node[t]]
    [] OTHER -> arg[t]

wantedNow == [t \in Threads |-> wantedOf(t)]
foundNow == [t \in Threads |-> foundOf(t)]
insertingNow == [t \in Threads |-> insertingOf(t)]

Abstract == INSTANCE EvictingCache WITH
  Slots <- Nodes,
  NoSlot <- NULL,
  stored <- storedNow,
  order <- orderNow,
  recent <- recentNow,
  scanned <- scannedNow,
  wanted <- wantedNow,
  found <- foundNow,
  inserting <- insertingNow

(* Whatever the threads do at once, a lookup is answered as if it and every *)
(* insert and eviction were one step each; an eviction starts at the coldest*)
(* node and passes over none that it did not find recent, though such a node*)
(* may have lost its mark meanwhile; it takes neither the warmest node nor  *)
(* one that a lookup has found.  pullRecent moves only nodes that were used *)
(* (README: "Every node (that is not marked as recent) is removed" from the *)
(* tail on, "reinserts them in the head").                                  *)
ImplementsEvictingCache == Abstract!Spec
=============================================================================
