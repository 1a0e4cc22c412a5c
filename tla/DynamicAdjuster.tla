--------------------------- MODULE DynamicAdjuster ---------------------------
(***************************************************************************)
(* DynamicAdjuster.Adjust5 with the times it measures: after every round a *)
(* worker reports how many of the total requests were left unanswered and  *)
(* how long the round took, and gets the size of its next batch.  tolerate *)
(* is the worker's time-out, in units of MaxWaitTime.                      *)
(*                                                                         *)
(* An efficiency of n blocks in d time units is the pair <<n, d>>, so that *)
(* comparing two is exact.  Of the history averageEfficiency only the      *)
(* batch sizes it has an entry for are kept; whether such an entry beats   *)
(* the current round is left open.                                         *)
(***************************************************************************)
EXTENDS BatchSize

CONSTANTS
    Durations,      \* how long a round may take
    MaxMisses       \* cap on continuousmisstimes (bound)

ASSUME AdjusterAssumption ==
    Durations \subseteq Nat \ {0} /\ MaxMisses \in Nat

VARIABLES
    L,                      \* batch size, and what Adjust5 returns
    tolerate,
    init,
    lastEfficiency,
    averageEfficiency,      \* batch sizes with an entry
    continuousmisstimes

vars == <<L, tolerate, init, lastEfficiency, averageEfficiency,
          continuousmisstimes>>

-----------------------------------------------------------------------------
\* x > y * num/den for efficiencies x and y
Exceeds(x, y, num, den) == x[1] * y[2] * den > y[1] * x[2] * num

\* NewDynamicAdjuster, then InitRequestBlkNumber of the worker.
Init ==
    /\ L = InitRequestBlkNumber
    /\ tolerate = 1
    /\ init = TRUE
    /\ lastEfficiency = <<0, 1>>
    /\ averageEfficiency = {}
    /\ continuousmisstimes = 0

\* At most 3/4 of the blocks arrived.  Only rounds without any block count.
Miss(total, left) ==
    /\ ~HitRatioHigh(total, left)
    /\ IF left < total THEN UNCHANGED <<continuousmisstimes, tolerate>>
       ELSE /\ continuousmisstimes < MaxMisses
            /\ continuousmisstimes' = continuousmisstimes + 1
            /\ tolerate' = IF continuousmisstimes' >= 3 THEN tolerate * 2 ELSE tolerate
    /\ UNCHANGED <<L, init, lastEfficiency, averageEfficiency>>

BugKeepsCount == continuousmisstimes' = continuousmisstimes /\ tolerate' = 1

\* What every round with enough blocks does first.
ResetTolerate == continuousmisstimes' = 0 /\ tolerate' = 1

\* The first such round is not measured.
FirstHit(total, left) ==
    /\ HitRatioHigh(total, left)
    /\ init
    /\ init' = FALSE
    /\ ResetTolerate
    /\ UNCHANGED <<L, lastEfficiency, averageEfficiency>>

BugRecords == averageEfficiency \cup {L}

\* An efficiency is added to the entry of L, if there is one.
Recorded == averageEfficiency \cup ({L} \cap averageEfficiency)

\* Batch sizes after a round with the given efficiency: a recorded one may
\* have done better.
NextL(current) ==
    IF Exceeds(lastEfficiency, current, 3, 2) THEN {L \div 2}
    ELSE {L + 1} \cup Recorded

Hit(total, left, d) ==
    LET current == <<total - left, d>> IN
    /\ HitRatioHigh(total, left)
    /\ ~init
    /\ ResetTolerate
    /\ averageEfficiency' = Recorded
    /\ L' \in NextL(current)
    /\ L' <= MaxBatch
    /\ lastEfficiency' = current
    /\ UNCHANGED init

\* A round asks for at most L blocks, for one if L is 0.
Adjust5(total, left, d) ==
    /\ total <= L \/ total = 1
    /\ \/ Miss(total, left)
       \/ FirstHit(total, left)
       \/ Hit(total, left, d)

Rounds == {r \in (1..MaxBatch) \X (0..MaxBatch) : r[2] <= r[1]}

Next == \E r \in Rounds : \E d \in Durations : Adjust5(r[1], r[2], d)

Spec == Init /\ [][Next]_vars

-----------------------------------------------------------------------------
\* What Dispatcher keeps of the adjuster.
Mode == IF init THEN "init" ELSE IF lastEfficiency[1] = 0 THEN "nolast" ELSE "last"

\* Adjust5 does what Dispatcher says of it: whatever the measured times, the
\* next batch size is one of AdjustOutcomes, so the history never matters.
AdjusterAgrees ==
    [][\A r \in Rounds : \A d \in Durations : Adjust5(r[1], r[2], d) =>
          IF HitRatioHigh(r[1], r[2])
          THEN L' \in AdjustOutcomes(Mode, L) /\ Mode' = NextAdjuster(Mode)
          ELSE L' = L /\ Mode' = Mode]_vars

\* A worker's time-out doubles with every empty round from the third on and is
\* MaxWaitTime again once it got blocks; rounds with too few blocks in between
\* change neither.
TolerateFollowsMisses ==
    tolerate = IF continuousmisstimes < 3 THEN 1 ELSE 2^(continuousmisstimes - 2)
==============================================================================
