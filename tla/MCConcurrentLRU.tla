--------------------------- MODULE MCConcurrentLRU ---------------------------
(* Small instances of ConcurrentLRU for TLC, in which every thread makes    *)
(* calls of one kind; which kind is chosen at the start.                    *)
EXTENDS ConcurrentLRUProperties

VARIABLE role

\* All keys in one bucket, so that any two keys may be exchanged.
MCOneBucket == [k \in Keys |-> 0]

RoleInit == Init /\ role \in [Threads -> Calls]

CallOf(t, k) ==
  \/ role[t] = "insert" /\ CallInsert(t, k)
  \/ role[t] = "find" /\ CallFind(t, k)

RoleNext ==
  /\ (\E t \in Threads : Step(t) \/ \E k \in Keys : CallOf(t, k)) \/ Reallocate
  /\ UNCHANGED role

RoleSpec == RoleInit /\ [][RoleNext]_<<vars, role>>

FairRoleSpec == RoleSpec /\ Fairness

Symmetry ==
  Permutations(Nodes) \cup Permutations(Keys) \cup Permutations(Threads)
=============================================================================
