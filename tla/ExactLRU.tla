------------------------------- MODULE ExactLRU -------------------------------
(***************************************************************************)
(* What a BucketedLRU promises: a shard keeps the keys of its items in the *)
(* order of their last use, a hit makes the newest item of the key the     *)
(* last, and an insert into a full shard costs it the first.               *)
(***************************************************************************)
EXTENDS Naturals, Sequences, SequencesExt

CONSTANTS Threads, Shards, Keys, ShardOf, NoKey

VARIABLES
  room,        (* how many items each shard may hold                       *)
  order,       (* the keys of the items of each shard, latest use last     *)
  missed       (* the key each thread missed and is to insert, or NoKey    *)

vars == <<room, order, missed>>

Init ==
  /\ room = [s \in Shards |-> 0]
  /\ order = [s \in Shards |-> <<>>]
  /\ missed = [t \in Threads |-> NoKey]

Hit(t, k) ==
  LET items == order[ShardOf[k]]
  IN  missed[t] = NoKey /\ \E i \in DOMAIN items :
        /\ items[i] = k /\ \A j \in i + 1 .. Len(items) : items[j] # k
        /\ order' = [order EXCEPT ![ShardOf[k]] = Append(RemoveAt(items, i), k)]
        /\ UNCHANGED <<room, missed>>

Miss(t, k) ==
  /\ missed[t] = NoKey /\ ~Contains(order[ShardOf[k]], k)
  /\ missed' = [missed EXCEPT ![t] = k]
  /\ UNCHANGED <<room, order>>

Insert(t, s) ==
  /\ missed[t] # NoKey /\ s = ShardOf[missed[t]]
  /\ order' = [order EXCEPT ![s] =
       Append(IF Len(@) < room[s] THEN @ ELSE Tail(@), missed[t])]
  /\ missed' = [missed EXCEPT ![t] = NoKey]
  /\ UNCHANGED room

\* Between the calls the cache is emptied or given any size.
Resize ==
  /\ \A t \in Threads : missed[t] = NoKey
  /\ order' = [s \in Shards |-> <<>>]
  /\ room' \in [Shards -> Nat]
  /\ UNCHANGED missed

Next ==
  \/ \E t \in Threads, k \in Keys : Hit(t, k) \/ Miss(t, k)
  \/ \E t \in Threads, s \in Shards : Insert(t, s)
  \/ Resize

Spec == Init /\ [][Next]_vars
=============================================================================
