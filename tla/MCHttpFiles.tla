----------------------------- MODULE MCHttpFiles -----------------------------
(* Constants of HttpFiles for TLC. *)
EXTENDS HttpFiles

CONSTANTS clientA, clientB
==============================================================================
