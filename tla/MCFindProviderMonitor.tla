------------------------ MODULE MCFindProviderMonitor ------------------------
(* Where two lookups begin, and which closer peers a peer answers with. *)
EXTENDS FindProviderMonitor

CONSTANTS peerA, peerB, peerC, lookup1, lookup2

\* the lookups begin at one peer each ...
TwoSeeds == [l \in Lookups |-> IF l = lookup1 THEN {peerA} ELSE {peerB}]
\* ... or the first one at two peers that know each other
NearSeeds == [l \in Lookups |-> IF l = lookup1 THEN {peerA, peerB} ELSE {peerC}]

Neighbours == [x \in Peers |-> CASE x = peerA -> {peerB} [] x = peerB -> {peerA}
                                 [] OTHER -> {}]
\* a seed and a peer that is none know each other
Pair == [x \in Peers |-> CASE x = peerB -> {peerC} [] x = peerC -> {peerB}
                           [] OTHER -> {}]
=============================================================================
