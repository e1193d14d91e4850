---------------------------- MODULE EvictingCache ----------------------------
(***************************************************************************)
(* What DeferredLRU promises, with no lists, locks or pointers: a fixed    *)
(* number of slots that hold items, an order of use that is updated late,  *)
(* and a set of slots that were used since.  An eviction goes from the     *)
(* coldest slot on and passes over none but those it finds used since; it  *)
(* takes neither the warmest slot nor one that is being read.  A lookup    *)
(* that returns found an item of its key, or none was there.               *)
(***************************************************************************)
EXTENDS Integers, Sequences, SequencesExt

CONSTANTS Threads, Keys, Slots, NoKey, NoSlot

VARIABLES
  stored,      (* the key of the item in each slot, or NoKey               *)
  order,       (* the slots by last use as far as known, warmest first     *)
  recent,      (* the slots used since, or new                             *)
  scanned,     (* the coldest slots, which the eviction under way found    *)
               (* to be recent                                             *)
  wanted,      (* the key each thread looks up, or NoKey                   *)
  found,       (* the slot each thread reads, or NoSlot                    *)
  inserting    (* the key of the item each thread is to insert, or NoKey   *)

items == <<stored, order, recent>>
calls == <<wanted, found, inserting>>
vars == <<items, scanned, calls>>

Init ==
  /\ stored = [s \in Slots |-> NoKey]
  /\ order = <<>> /\ recent = {} /\ scanned = {}
  /\ wanted = [t \in Threads |-> NoKey]
  /\ found = [t \in Threads |-> NoSlot]
  /\ inserting = [t \in Threads |-> NoKey]

Idle(t) == wanted[t] = NoKey /\ found[t] = NoSlot /\ inserting[t] = NoKey

Lookup(t, k) ==
  /\ Idle(t)
  /\ wanted' = [wanted EXCEPT ![t] = k]
  /\ UNCHANGED <<items, scanned, found, inserting>>

Hit(t, s) ==
  /\ wanted[t] # NoKey /\ stored[s] = wanted[t]
  /\ wanted' = [wanted EXCEPT ![t] = NoKey]
  /\ found' = [found EXCEPT ![t] = s]
  /\ UNCHANGED <<items, scanned, inserting>>

\* The caller may go on to insert what it missed.
Miss(t) ==
  /\ wanted[t] # NoKey /\ \A s \in Slots : stored[s] # wanted[t]
  /\ wanted' = [wanted EXCEPT ![t] = NoKey]
  /\ inserting' \in {inserting, [inserting EXCEPT ![t] = wanted[t]]}
  /\ UNCHANGED <<items, scanned, found>>

\* A lookup takes what it found only together with the mark.
Take(t) ==
  /\ found[t] # NoSlot
  /\ recent' = recent \cup {found[t]}
  /\ found' = [found EXCEPT ![t] = NoSlot]
  /\ UNCHANGED <<stored, order, scanned, wanted, inserting>>

Offer(t, k) ==
  /\ Idle(t)
  /\ inserting' = [inserting EXCEPT ![t] = k]
  /\ UNCHANGED <<items, scanned, wanted, found>>

Insert(t, s) ==
  /\ inserting[t] # NoKey /\ stored[s] = NoKey
  /\ stored' = [stored EXCEPT ![s] = inserting[t]]
  /\ recent' = recent \cup {s}
  /\ inserting' = [inserting EXCEPT ![t] = NoKey]
  /\ UNCHANGED <<order, scanned, wanted, found>>

\* A new slot, or slots that were taken out, become the warmest.
PutFirst(front) ==
  /\ order' = front \o order
  /\ front # <<>> /\ IsInjective(front)
  /\ \A s \in Range(front) : stored[s] # NoKey /\ ~Contains(order, s)
  /\ UNCHANGED <<stored, recent, scanned, calls>>

TakeOut(i) ==
  /\ order[i] \in recent
  /\ order' = RemoveAt(order, i)
  /\ UNCHANGED <<stored, recent, scanned, calls>>

Forget(s) ==
  /\ s \in recent
  /\ recent' = recent \ {s}
  /\ UNCHANGED <<stored, order, scanned, calls>>

\* An eviction goes from the coldest slot on, and no further than it has to.
Colder(i) == {order[j] : j \in i + 1 .. Len(order)}

Pass(i) ==
  /\ order[i] \in recent /\ scanned = Colder(i)
  /\ scanned' = scanned \cup {order[i]}
  /\ UNCHANGED <<items, calls>>

Evict(i) ==
  /\ i # 1 /\ order' = RemoveAt(order, i)
  /\ order[i] \notin recent /\ scanned = Colder(i)
  /\ \A t \in Threads : found[t] # order[i]
  /\ stored' = [stored EXCEPT ![order[i]] = NoKey]
  /\ UNCHANGED <<recent, scanned, calls>>

EvictionEnds ==
  /\ scanned' = {}
  /\ UNCHANGED <<items, calls>>

Clear ==
  /\ \A t \in Threads : Idle(t)
  /\ stored' = [s \in Slots |-> NoKey]
  /\ order' = <<>> /\ recent' = {}
  /\ UNCHANGED <<scanned, calls>>

\* A step that changes nothing is stuttering.
Next ==
  /\ vars' # vars
  /\ \/ \E t \in Threads, k \in Keys : Lookup(t, k) \/ Offer(t, k)
     \/ \E t \in Threads, s \in Slots : Hit(t, s) \/ Insert(t, s)
     \/ \E t \in Threads : Miss(t) \/ Take(t)
     \/ \E i \in DOMAIN order' : PutFirst(SubSeq(order', 1, i))
     \/ \E s \in Slots : Forget(s)
     \/ \E i \in DOMAIN order : TakeOut(i) \/ Pass(i) \/ Evict(i)
     \/ EvictionEnds \/ Clear

Spec == Init /\ [][Next]_vars
=============================================================================
