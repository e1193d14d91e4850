---------------------------- MODULE MCDeferredLRU ----------------------------
(* Small instances of DeferredLRU for TLC.                                  *)
EXTENDS DeferredLRURefinement

CONSTANTS Writers, Finders

\* All keys in the first bucket, so that any two keys may be exchanged.
MCOneBucket == [k \in Keys |-> 0]
\* Keys that are numbers, spread over the buckets.
MCSpread == [k \in Keys |-> k]

MCInsertOrFind ==
  [t \in Threads |-> (IF t \in Writers THEN {"insert"} ELSE {})
                     \cup (IF t \in Finders THEN {"find"} ELSE {})]
MCConsumeOrFind ==
  [t \in Threads |-> (IF t \in Writers THEN {"consume"} ELSE {})
                     \cup (IF t \in Finders THEN {"find"} ELSE {})]

KeySymmetry == Permutations(Keys)
FinderSymmetry == Permutations(Finders)
KeyAndFinderSymmetry == KeySymmetry \cup FinderSymmetry
=============================================================================
