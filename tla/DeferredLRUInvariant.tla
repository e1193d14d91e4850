------------------------- MODULE DeferredLRUInvariant -------------------------
(***************************************************************************)
(* The inductive invariant of DeferredLRU: which node each thread has for  *)
(* itself, what the pool, the Recent list, pullRecent's slice and the LRU  *)
(* list are made of, and what a thread knows at each point of a call.      *)
(***************************************************************************)
EXTENDS DeferredLRUProperties, LinkedListProofs

-----------------------------------------------------------------------------
(* The types of the control state.                                         *)
ControlTypeOK ==
  /\ pc \in [Threads -> PCs]
  /\ ret \in [Threads -> {"idle", "ins_begin", "alloc_load"}]
  /\ arg \in [Threads -> Keys \cup {NoKey}]
  /\ \A t \in Threads : pc[t] \in FindLocked \cup {"find_lock"} => arg[t] \in Keys
  /\ bucket_lock \in [Locks -> Threads \cup {NULL}]
  /\ lru_lock \in Threads \cup {NULL}
  /\ allocated \in BOOLEAN
  /\ ~allocated => AllIdle

FunctionsOK ==
  /\ node = [t \in Threads |-> node[t]]
  /\ bucket = [b \in Buckets |-> bucket[b]]

\* The bucket's lock keeps the node that a lookup has found in its chain.
FoundInBucket ==
  \A t \in Threads :
    pc[t] \in FindLocked => node[t] \in Range(bucket[keyToBucketNr(arg[t])])

HitInv == ControlTypeOK /\ LockDiscipline /\ FunctionsOK /\ FoundInBucket

-----------------------------------------------------------------------------
(* The node of a thread, by what the thread is doing to it.                *)

If(condition, n) == IF condition THEN {n} ELSE {}

\* In nobody else's hands, neither in the pool nor in a bucket.
Hand(t) == If(pc[t] \in Filling \cup {"purge_unlink", "dispose"}, node[t])
\* An insert has it in its bucket, and is not yet done with it.
Late(t) == If(pc[t] = "ins_done" \/ (pc[t] \in Adding /\ lru_lock # t), node[t])
Owned(t) == Hand(t) \cup Late(t)
\* Its recent link is DUMMY though it is not in the Recent list.
Filled(t) == If(pc[t] = "add_to_bucket", node[t])
Falsely(t) == Filled(t) \cup Late(t)
\* Its recent link is that of the turn of markNodeRecent's loop.
Marking(t) == If(pc[t] = "mark_cas", node[t])
\* It is in the LRU list, and has a key, though it is in no bucket.
Evicting(t) == If(pc[t] = "purge_unlink", node[t])
Keyed(t) == Filled(t) \cup Evicting(t)
\* It is in a bucket but not yet in the LRU list.
Unlinked(t) == If(pc[t] \in {"add_first", "add_cas"} /\ lru_lock # t, node[t])
\* The back link that is yet to be stored.
Pending(t) == If(pc[t] = "add_back", <<prev[t], next[t]>>)

(* Inserts that are counted and whose node is not: they are waiting for    *)
(* one, or filling it.                                                     *)
Reserved == {t \in Threads : ret[t] = "alloc_load" \/ pc[t] \in Filling}
Purged == {t \in Threads : pc[t] = "purge_unlink"}

-----------------------------------------------------------------------------
(* What the consolidating thread has taken: the slice of the Recent list   *)
(* that it has yet to work through, and the list on its stack.             *)

Consolidates(points) == lru_lock # NULL /\ pc[lru_lock] \in points

SliceHead ==
  IF Consolidates({"pull_reset", "pull_visit", "pull_skip", "pull_clear"})
  THEN node[lru_lock] ELSE DUMMY
SliceSet == Reached(SliceHead, recent_next)

\* The node that it has moved and not yet left.
Clearing == If(Consolidates({"pull_clear"}), node[lru_lock])

LastTaken ==
  IF Consolidates({"pull_clear"}) THEN node[lru_lock]
  ELSE IF Consolidates({"pull_reset", "pull_visit", "pull_skip", "add_first", "add_cas"})
       THEN prev[lru_lock] ELSE TEMP

\* The first node of that list once it points back to HEAD.
Joining == If(Consolidates({"add_cas"}), node[lru_lock])

\* The links of that list as if it lay between TEMP and TAIL.
TakenNext == [n \in Base |-> IF n = LastTaken THEN TAIL ELSE lru_next[n]]
TakenPrev ==
  [n \in Base |-> IF n = TAIL THEN LastTaken ELSE IF n \in Joining THEN TEMP ELSE lru_prev[n]]

-----------------------------------------------------------------------------
\* The link leads from start over different nodes to stop.
Path(start, succ, stop) == Arrives(start, succ, stop, Nodes, Capacity)

ArrayTypes ==
  /\ key \in [Nodes -> Keys \cup {NoKey}] /\ value = key
  /\ lru_next \in [Base -> Nodes \cup {TAIL, NULL}]
  /\ lru_prev \in [Base -> Nodes \cup {HEAD, TEMP, NULL}]
  /\ recent_next \in [Nodes -> Nodes \cup {DUMMY, NULL}]
  /\ bucket \in [Buckets -> Seq(Nodes)]
  /\ empty_head \in Nodes \cup {NULL} /\ recent_head \in Nodes \cup {DUMMY}
  /\ recent_count \in Nat
  /\ pull_request \in BOOLEAN /\ purge_request \in BOOLEAN

LocalTypes ==
  /\ node \in [Threads -> Nodes \cup {HEAD, DUMMY, NULL}]
  /\ next \in [Threads -> Nodes \cup {TAIL, DUMMY, NULL}]
  /\ prev \in [Threads -> Nodes \cup {HEAD, TEMP, NULL}]
  /\ freed \in [Threads -> 0 .. PurgeThreshold]

(* A call that will insert keeps its key until the node is filled.         *)
ReturnsOK(t) ==
  /\ pc[t] \in {"ins_begin", "fill"} \cup Allocating => arg[t] \in Keys
  /\ ret[t] # "idle" => arg[t] \in Keys /\ pc[t] # "idle"
  /\ pc[t] \in Allocating => ret[t] = "alloc_load"
  /\ pc[t] = "ins_begin" => ret[t] = "ins_begin"
  /\ pc[t] = "find_lock" => ret[t] # "alloc_load"
  /\ pc[t] \in FindLocked \cup Filling \cup {"ins_done"} => ret[t] = "idle"
  /\ pc[t] \in Adding /\ lru_lock # t => ret[t] = "idle"

CallOK == \A t \in Threads : ReturnsOK(t)

Sound ==
  /\ ControlTypeOK /\ LockDiscipline /\ FunctionsOK /\ FoundInBucket
  /\ ArrayTypes /\ LocalTypes /\ CallOK

(* A node is in the pool, in a bucket, or in one thread's hands.           *)
OwnersOK ==
  /\ Pool \cap Cached = {}
  /\ \A n \in Nodes : n \in Pool \/ n \in Cached \/ \E t \in Threads : n \in Hand(t)
  /\ \A t \in Threads : /\ Hand(t) \subseteq Nodes /\ Hand(t) \cap (Pool \cup Cached) = {}
                        /\ Late(t) \subseteq Cached
  /\ \A t, u \in Threads : t # u => Owned(t) \cap Owned(u) = {}

(* A node is in the bucket of its key, once, and has a key only there or   *)
(* on the way there or from there.                                         *)
ChainsOK ==
  /\ \A b \in Buckets : Distinct(bucket[b], Nodes)
  /\ \A b \in Buckets : \A n \in Range(bucket[b]) : keyToBucketNr(key[n]) = b
  /\ \A n \in Nodes : key[n] # NoKey <=> n \in Cached \/ \E t \in Threads : n \in Keyed(t)

PoolOK == Path(empty_head, lru_next, NULL)

MarkListsOK ==
  /\ Path(recent_head, recent_next, DUMMY)
  /\ Path(SliceHead, recent_next, DUMMY)

(* A node's recent link is set while it is in one of the two lists, or one *)
(* thread puts it there, or one thread still inserts it.                   *)
MarksOK ==
  /\ Recent \cap SliceSet = {} /\ Recent \cup SliceSet \subseteq Cached
  /\ \A t \in Threads : (Marking(t) \cup Falsely(t)) \cap (Recent \cup SliceSet) = {}
  /\ \A t, u \in Threads : Marking(t) \cap Falsely(u) = {}
  /\ \A n \in Nodes : recent_next[n] # NULL <=>
       n \in Recent \cup SliceSet \/ \E t \in Threads : n \in Marking(t) \cup Falsely(t)

NodesOK == OwnersOK /\ ChainsOK /\ PoolOK /\ MarkListsOK /\ MarksOK

(* The LRU list, with the back links as they will be, and the list on the  *)
(* stack of pullRecent.                                                    *)
LruIs(list, back) ==
  /\ Distinct(list, Nodes) /\ IsWhole(HEAD, list, TAIL, lru_next, back)
  /\ \A m \in Range(list) \cup {TAIL} :
       \/ lru_prev[m] = back[m]
       \/ lru_prev[m] = HEAD /\ \E t \in Threads : <<back[m], m>> \in Pending(t)

TakenIs(taken) ==
  Distinct(taken, Nodes) /\ IsWhole(TEMP, taken, TAIL, TakenNext, TakenPrev)

(* L and K are the nodes of the two.                                       *)
PlacesOK(L, K) ==
  /\ \A n \in Nodes : n \in L <=> /\ n \in Cached \/ \E t \in Threads : n \in Evicting(t)
                                  /\ n \notin K /\ \A t \in Threads : n \notin Unlinked(t)
  /\ K \subseteq Cached /\ \A t \in Threads : Owned(t) \cap K = {}
  /\ SliceSet \cap K \subseteq Clearing

(* What a thread knows.                                                    *)
FinderOK(t) ==
  /\ pc[t] \in FindLocked => key[node[t]] = arg[t]
  /\ pc[t] = "mark_cas" => recent_next[node[t]] = next[t] /\ next[t] \in Nodes \cup {DUMMY}

InserterOK(t) ==
  /\ pc[t] = "alloc_next" => node[t] \in Nodes \cup {NULL}
  /\ pc[t] = "alloc_cas" => node[t] \in Nodes
  /\ pc[t] = "add_to_bucket" => key[node[t]] \in Keys
  /\ \A n \in Falsely(t) : recent_next[n] = DUMMY

AdderOK(t, L, K) ==
  /\ pc[t] \in Adding /\ lru_lock # t => prev[t] = node[t]
  /\ pc[t] \in {"add_first", "add_cas"} /\ lru_lock = t =>
       node[t] \in K /\ prev[t] \in K /\ node[t] = lru_next[TEMP]
  /\ pc[t] = "add_cas" => /\ lru_next[prev[t]] = next[t] /\ next[t] \in Nodes \cup {TAIL}
                          /\ lru_prev[node[t]] = HEAD
  /\ pc[t] = "add_back" => /\ node[t] \in L /\ prev[t] \in L /\ next[t] \in L \cup {TAIL}
                           /\ lru_next[prev[t]] = next[t] /\ lru_prev[next[t]] = HEAD
  /\ pc[t] = "add_back" /\ lru_lock = t => \A u \in Threads : prev[t] \notin Owned(u)

PurgerOK(t, L) ==
  /\ pc[t] = "purge_visit" => node[t] \in L \cup {HEAD}
  /\ pc[t] \in {"purge_bucket", "purge_unlink"} =>
       node[t] \in L /\ prev[t] \in L /\ prev[t] = lru_prev[node[t]]
  /\ pc[t] = "purge_unlink" => key[node[t]] \in Keys
  /\ pc[t] = "dispose" =>
       prev[t] \in L /\ lru_next[node[t]] = next[t] /\ next[t] \in Nodes \cup {NULL}
  /\ pc[t] \in {"purge_bucket", "purge_unlink", "dispose"} => freed[t] < PurgeThreshold

PullerOK(t) ==
  /\ pc[t] = "pull_reset" => prev[t] = TEMP
  /\ pc[t] \in {"pull_visit", "pull_skip"} => prev[t] \in Nodes \cup {TEMP}
  /\ pc[t] \in {"pull_skip", "pull_clear"} => node[t] \in Nodes

ThreadOK(t, L, K) ==
  FinderOK(t) /\ InserterOK(t) /\ AdderOK(t, L, K) /\ PurgerOK(t, L) /\ PullerOK(t)

ListsAre(list, back, taken) ==
  /\ LruIs(list, back) /\ TakenIs(taken) /\ PlacesOK(Range(list), Range(taken))
  /\ \A t \in Threads : ThreadOK(t, Range(list), Range(taken))

ListsOK == \E list, back, taken : ListsAre(list, back, taken)

(* The reservations pair up with the nodes.                                *)
SizeOK ==
  current_element_count =
    Cardinality(Cached) + Cardinality(Reserved) + Cardinality(Purged)

IInv ==
  /\ Sound /\ current_element_count \in Nat
  /\ allocated => NodesOK /\ ListsOK /\ SizeOK

-----------------------------------------------------------------------------
(* The pool's compare_exchange is not deceived when only one thread takes  *)
(* nodes from the pool.                                                    *)
Inserts(t) == Api[t] \cap {"insert", "consume"} # {}
OneInserter == \A t, u \in Threads : Inserts(t) /\ Inserts(u) => t = u
=============================================================================
