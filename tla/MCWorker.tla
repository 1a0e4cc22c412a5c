------------------------------ MODULE MCWorker ------------------------------
(* Blocks, distances and batches for the run of Worker. *)
EXTENDS Worker

CONSTANTS blkA, blkB, blkC, blkD, peerP

\* the order of the names is not the order of the distances
Distances == [x \in Peers |->
    [y \in Cids |-> CASE y = blkA -> 4 [] y = blkB -> 1 [] y = blkC -> 7
                      [] y = blkD -> 3]]

\* every list of up to two blocks, and of three different ones
ShortLists == UNION {[1..n -> Cids] : n \in 0..2}
              \cup {s \in [1..3 -> Cids] : Cardinality(ToSet(s)) = 3}
=============================================================================
