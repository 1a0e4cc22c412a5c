----------------------- MODULE MCPeerResponseHistory -----------------------
(* Constants of PeerResponseHistory for TLC. *)
EXTENDS PeerResponseHistory

CONSTANTS peerP, peerQ, peerR, updA, updB

\* Peers and goroutines are compared only.
Symmetric == Permutations(Peers) \cup Permutations(Routines)
=============================================================================
