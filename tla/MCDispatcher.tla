---------------------------- MODULE MCDispatcher ----------------------------
(* DAGs, peers and distances for the runs of Dispatcher. *)
EXTENDS Dispatcher, TLC

CONSTANTS blkA, blkB, blkC, peerP, peerQ

NoChilds == [b \in Cids |-> <<>>]

\* root -> A, B;  A -> C
TreeRoot   == <<blkA, blkB>>
TreeChilds == [NoChilds EXCEPT ![blkA] = <<blkC>>]

\* root -> A;  A -> C, B;  C -> B: B has two parents, as a repeated chunk has
SharedChilds == [NoChilds EXCEPT ![blkA] = <<blkC, blkB>>, ![blkC] = <<blkB>>]

\* root -> A, B;  A -> B, C: the shared block comes first
SharedFirst == [NoChilds EXCEPT ![blkA] = <<blkB, blkC>>]

\* root -> A;  A -> B
ChainRoot   == <<blkA>>
ChainChilds == [NoChilds EXCEPT ![blkA] = <<blkB>>]

AllFull  == [x \in Peers |-> Cids]
\* peerQ is a co-worker that has only some of the blocks
CoWorker == [x \in Peers |-> IF x = peerQ THEN {blkA} ELSE Cids]

\* peerP and peerQ request in opposite orders
ByName(x) == CHOOSE g \in [Cids -> 1..Cardinality(Cids)] :
                \A y, z \in Cids : g[y] = g[z] => y = z
Distances == [x \in Peers |-> IF x = peerQ THEN [y \in Cids |-> 9 - ByName(x)[y]]
                                           ELSE ByName(x)]
=============================================================================
