---------------------------- MODULE CountedInserts ----------------------------
(***************************************************************************)
(* DeferredLRU with the number of inserts that have begun to look for a    *)
(* node since memory was allocated.  The code keeps no such number, nor    *)
(* does it limit it: this is history, for what holds while it is small.    *)
(***************************************************************************)
EXTENDS DeferredLRUProperties

VARIABLE begun

CountedInit == Init /\ begun = 0

CountedNext ==
  /\ Next
  /\ begun' = IF ~allocated THEN 0
              ELSE IF \E t \in Threads : InsertBegins(t) THEN begun + 1 ELSE begun

CountedSpec == CountedInit /\ [][CountedNext]_<<vars, begun>>

(* One insert more than there are nodes: too few to take a node out of the *)
(* pool for the second time while another insert remembers it from the     *)
(* first.                                                                  *)
FewInserts == begun <= Capacity + 1
=============================================================================
