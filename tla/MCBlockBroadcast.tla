-------------------------- MODULE MCBlockBroadcast --------------------------
(* Constants of BlockBroadcast for TLC. *)
EXTENDS BlockBroadcast

CONSTANTS peerP, peerQ, peerR
=============================================================================
