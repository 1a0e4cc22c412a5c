-------------------------- MODULE MCProviderFinders --------------------------
(* Two calls of Dispatch3 for the runs of ProviderFinders. *)
EXTENDS ProviderFinders

CONSTANTS d1, d2
==============================================================================
