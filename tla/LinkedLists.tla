----------------------------- MODULE LinkedLists -----------------------------
(* The list that a link leads along, as a sequence.                         *)
EXTENDS Integers, Sequences, FiniteSets

(* Every node, with what the given function has from the next node on.     *)
Ahead(succ, nodes, from) ==
  [p \in nodes |-> IF succ[p] \in nodes THEN <<p>> \o from[succ[p]] ELSE <<p>>]

(* The nodes from start on along the link succ, in order, to the first     *)
(* pointer that is no node; cut off when that many more nodes follow.      *)
Follow(start, succ, nodes, more) ==
  LET from[k \in 0 .. more] ==
        IF k = 0 THEN [p \in nodes |-> <<p>>] ELSE Ahead(succ, nodes, from[k - 1])
  IN  IF start \in nodes THEN from[more][start] ELSE <<>>

(* The list leads from start along succ to stop.                           *)
Leads(list, start, succ, stop) ==
  IF list = <<>> THEN start = stop
  ELSE /\ start = list[1] /\ succ[list[Len(list)]] = stop
       /\ \A i \in 1 .. Len(list) - 1 : succ[list[i]] = list[i + 1]

(* The place i of a list with the head before it, 0, and the tail after it. *)
Spot(head, list, tail, i) ==
  IF i = 0 THEN head ELSE IF i = Len(list) + 1 THEN tail ELSE list[i]

(* The list lies between head and tail, linked in both directions.         *)
IsWhole(head, list, tail, next, prev) ==
  \A i \in 0 .. Len(list) :
    /\ next[Spot(head, list, tail, i)] = Spot(head, list, tail, i + 1)
    /\ prev[Spot(head, list, tail, i + 1)] = Spot(head, list, tail, i)
=============================================================================
