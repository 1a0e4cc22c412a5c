-------------------------------- MODULE Worker --------------------------------
(***************************************************************************)
(* The two parts of one peerToDispatch that Dispatcher abstracts, working  *)
(* together: absorb2 fills the lists at any time, and a round of run takes *)
(* its request from them with squeeze and hands its outcome to Adjust5,    *)
(* which sets the size of the next request.                                *)
(*                                                                         *)
(* A round is one step: the lists that squeeze reads are a copy, so an     *)
(* absorb2 during the round commutes with the rest of it.                  *)
(***************************************************************************)
EXTENDS BlockSequence, DynamicAdjuster

worker == <<lists, vars>>

Tables == [Cids -> {"Empty", "Pending", "Filled"}]

\* totalrequests of a round with some block table; without a block to ask for
\* there is no round.
TotalRequests == {Len(squeeze(queryState, L)) : queryState \in Tables} \ {0}

\* run from squeeze to NextRound2.
Round ==
    /\ \E total \in TotalRequests : \E numOfRequest \in 0..total : \E d \in Durations :
          Adjust5(total, numOfRequest, d)
    /\ UNCHANGED lists

Absorb == SequenceNext /\ UNCHANGED vars

WorkerInit == SequenceInit /\ Init

WorkerNext == Absorb \/ Round

WorkerSpec == WorkerInit /\ [][WorkerNext]_worker
==============================================================================
