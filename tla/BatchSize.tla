------------------------------ MODULE BatchSize ------------------------------
(***************************************************************************)
(* How many blocks a worker asks for at a time: the initial size and what  *)
(* DynamicAdjuster.Adjust5 may make of it, without the clock.  Dispatcher  *)
(* uses this; DynamicAdjuster has the measured times and implements it.    *)
(***************************************************************************)
EXTENDS Integers

CONSTANTS
    BlkNumber,      \* size of the root node in blocks (Dispatch3's blkNumber)
    MaxBatch,       \* cap on requestEachTime (bound)
    EfficiencyDrops \* may a round be 1.5 times slower than the one before?

InitRequestBlkNumber ==
    IF BlkNumber <= 1 THEN 1 ELSE IF BlkNumber > 20 THEN 10 ELSE BlkNumber \div 2

ASSUME MaxBatchAssumption ==
    /\ BlkNumber \in Nat
    /\ MaxBatch \in Nat
    /\ InitRequestBlkNumber <= MaxBatch
    /\ EfficiencyDrops \in BOOLEAN

\* Adjust5 keeps the batch size unless more than 3/4 of the round arrived and
\* an earlier round did too; then it halves it when the efficiency dropped
\* below 1/1.5 of the previous one and increments it otherwise.
HitRatioHigh(total, left) == 4 * (total - left) > 3 * total

AdjustOutcomes(a, L) ==
    IF a = "init" THEN {L}
    ELSE {IF L < MaxBatch THEN L + 1 ELSE L}
         \cup (IF a = "last" /\ EfficiencyDrops THEN {L \div 2} ELSE {})

NextAdjuster(a) == IF a = "init" THEN "nolast" ELSE "last"
==============================================================================
