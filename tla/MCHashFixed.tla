----------------------------- MODULE MCHashFixed -----------------------------
(* A small instance of HashFixed for TLC, which remembers of every lookup   *)
(* whether its key was stored when it began.                                *)
EXTENDS HashFixed

VARIABLE promised   (* the threads whose lookup has to find its key *)

MCHash == [k \in Keys |-> 0]

HistoryInit == Init /\ promised = {}
HistoryNext ==
  /\ Next
  /\ LET kept == promised
         made == {t \in Threads : pc[t] = "idle" /\ \E n \in Stored : key[n] = arg'[t]}
     IN  promised' = {t \in kept \cup made : pc'[t] # "idle"}
HistorySpec ==
  /\ HistoryInit /\ [][HistoryNext]_<<vars, promised>>
  /\ \A t \in Threads : WF_vars(Step(t))

(* A lookup that begins after its key was stored finds it, whatever is     *)
(* pushed meanwhile, and so does not store it again.                       *)
StoredIsFound ==
  \A t \in promised :
    pc[t] = "visit" /\ \E n \in Range(Chain(current[t])) : key[n] = arg[t]
=============================================================================
