------------------------------ MODULE BlockSets ------------------------------
(***************************************************************************)
(* The block lists of a peerToDispatch as sets: what absorb2 adds to the   *)
(* distances and to the sequence of a worker, and what one pass of squeeze *)
(* takes from it.  Dispatcher works with these sets; BlockSequence has the *)
(* code's lists and its merge, and is checked to agree with them.          *)
(***************************************************************************)
EXTENDS Integers, Sequences, FiniteSets

CONSTANTS
    Peers,      \* provider peers
    Cids,       \* blocks below the root
    Distance    \* [Peers -> [Cids -> Nat]]: twoXorDistance(self, p, c)

ASSUME DistanceAssumption ==
    /\ IsFiniteSet(Cids)
    /\ Distance \in [Peers -> [Cids -> Nat]]
    /\ \A p \in Peers : \A c, d \in Cids :
          Distance[p][c] = Distance[p][d] => c = d

\* Indices of the prefix of s that absorb2 takes into distances D: it stops at
\* the first block that already has a distance (a repeated one included).
FreshPrefix(D, s) ==
    {i \in DOMAIN s : \A j \in 1..i : /\ s[j] \notin D
                                      /\ \A k \in 1..(j-1) : s[k] # s[j]}

\* absorb2 stores a distance for every block of the fresh prefix ...
AbsorbDistances(D, s) == D \cup {s[i] : i \in FreshPrefix(D, s)}

\* ... but returns before merging anything into sequence Q if it stopped early.
AbsorbSequence(D, Q, s) ==
    IF FreshPrefix(D, s) = DOMAIN s THEN Q \cup {s[i] : i \in DOMAIN s} ELSE Q

\* The first n blocks of S in the order of p's sequence (nearest first).
Nearest(p, S, n) ==
    {c \in S : Cardinality({d \in S : Distance[p][d] < Distance[p][c]}) < n}
==============================================================================
