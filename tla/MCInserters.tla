----------------------------- MODULE MCInserters -----------------------------
(* DeferredLRU with several threads that insert, and at most MaxInserts     *)
(* calls of insert between two calls of allocateMemory.                     *)
EXTENDS MCDeferredLRU, CountedInserts

CONSTANT MaxInserts

Waiting == Cardinality({t \in Threads : pc[t] = "ins_begin"})

BoundedNext == CountedNext /\ begun' + Waiting' <= MaxInserts

BoundedSpec == CountedInit /\ [][BoundedNext]_<<vars, begun>>
=============================================================================
