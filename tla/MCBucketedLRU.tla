---------------------------- MODULE MCBucketedLRU ----------------------------
(* A small instance of BucketedLRU for TLC.                                 *)
EXTENDS BucketedLRU

MCHash == [k \in Keys |-> k]

\* The even keys and the odd ones.
MCShardOf == [k \in Keys |-> k % 2]

\* With elements of three bytes: from none to five items in two shards.
MCCapacities == ({0, 1, 2, 3, 5} \X {TRUE}) \cup ({0, 4, 7, 16} \X {FALSE})
=============================================================================
