---------------------------- MODULE WorkerProofs ----------------------------
(***************************************************************************)
(* The two parts of a worker that Dispatcher abstracts.  For every batch   *)
(* size and every set of durations, Adjust5 does what Dispatcher says, and *)
(* the time-out follows the empty rounds.  For every set of blocks, every  *)
(* distance and every batch, absorb2 and squeeze compute the sets that     *)
(* Dispatcher works with, and the list of a worker stays in order.         *)
(* A worker, which is both, implements what its parts are specified as.    *)
(***************************************************************************)
EXTENDS Worker, FiniteSetTheorems, FunctionTheorems, SequenceTheorems,
        WellFoundedInduction, TLAPS

-----------------------------------------------------------------------------
(* Adjust5 *)

\* The inductive invariant: nothing is ever on record, and before the first
\* round that counts no efficiency was measured.
AdjusterInv ==
    /\ L \in 0..MaxBatch
    /\ init \in BOOLEAN
    /\ lastEfficiency \in Nat \X (Nat \ {0})
    /\ averageEfficiency = {}
    /\ init => lastEfficiency[1] = 0

\* NewDynamicAdjuster and InitRequestBlkNumber establish the invariant.
LEMMA AdjusterInit == Init => AdjusterInv
<1> SUFFICES ASSUME Init PROVE AdjusterInv
  OBVIOUS
<1>1. InitRequestBlkNumber \in 0..MaxBatch
  BY MaxBatchAssumption DEF InitRequestBlkNumber
<1> QED
  BY <1>1 DEF Init, AdjusterInv

\* A call of Adjust5 keeps the invariant.
LEMMA AdjusterStep == AdjusterInv /\ [Next]_vars => AdjusterInv'
<1> SUFFICES ASSUME AdjusterInv, [Next]_vars PROVE AdjusterInv'
  OBVIOUS
<1>1. CASE UNCHANGED vars
  BY <1>1 DEF AdjusterInv, vars
<1>2. CASE Next
  <2>1. PICK r \in Rounds, d \in Durations : Adjust5(r[1], r[2], d)
    BY <1>2 DEF Next
  <2>2. /\ r[1] \in Nat
        /\ r[2] \in Nat
        /\ d \in Nat \ {0}
    BY AdjusterAssumption, MaxBatchAssumption DEF Rounds
  <2>3. CASE Miss(r[1], r[2])
    BY <2>3 DEF Miss, AdjusterInv
  <2>4. CASE FirstHit(r[1], r[2])
    BY <2>4 DEF FirstHit, ResetTolerate, AdjusterInv
  <2>5. CASE Hit(r[1], r[2], d)
    <3> DEFINE current == <<r[1] - r[2], d>>
    <3>1. current \in Nat \X (Nat \ {0})
      BY <2>2, <2>5 DEF Hit, HitRatioHigh, Rounds
    <3>2. L' \in 0..MaxBatch
      BY <2>5, MaxBatchAssumption DEF Hit, NextL, Recorded, AdjusterInv
    <3> QED
      BY <2>5, <3>1, <3>2 DEF Hit, Recorded, AdjusterInv
  <2> QED
    BY <2>1, <2>3, <2>4, <2>5 DEF Adjust5
<1> QED
  BY <1>1, <1>2

\* Where the invariant holds, one call does what AdjustOutcomes allows.
LEMMA AdjusterOutcome ==
    ASSUME AdjusterInv, EfficiencyDrops = TRUE,
           NEW r \in Rounds, NEW d \in Durations, Adjust5(r[1], r[2], d)
    PROVE  IF HitRatioHigh(r[1], r[2])
           THEN L' \in AdjustOutcomes(Mode, L) /\ Mode' = NextAdjuster(Mode)
           ELSE L' = L /\ Mode' = Mode
<1>1. /\ r[1] \in Nat
      /\ r[2] \in Nat
      /\ d \in Nat \ {0}
  BY AdjusterAssumption, MaxBatchAssumption DEF Rounds
<1>2. CASE Miss(r[1], r[2])
  BY <1>2 DEF Miss, Mode
<1>3. CASE FirstHit(r[1], r[2])
  BY <1>3 DEF FirstHit, AdjusterInv, AdjustOutcomes, NextAdjuster, Mode
<1>4. CASE Hit(r[1], r[2], d)
  <2> DEFINE current == <<r[1] - r[2], d>>
  <2>1. r[1] - r[2] \in Nat \ {0}
    BY <1>1, <1>4 DEF Hit, HitRatioHigh
  <2>2. HitRatioHigh(r[1], r[2]) /\ ~init /\ ~init' /\ lastEfficiency' = current
    BY <1>4 DEF Hit
  <2>3. Mode' = "last" /\ NextAdjuster(Mode) = "last"
    BY <2>1, <2>2 DEF Mode, NextAdjuster
  <2>4. Mode = "nolast" => ~Exceeds(lastEfficiency, current, 3, 2)
    BY <1>1, <2>1, <2>2 DEF Mode, Exceeds, AdjusterInv
  <2>5. L' \in IF Exceeds(lastEfficiency, current, 3, 2) THEN {L \div 2} ELSE {L + 1}
    BY <1>4 DEF Hit, NextL, Recorded, AdjusterInv
  <2>6. L' <= MaxBatch
    BY <1>4 DEF Hit
  <2>7. Mode \in {"nolast", "last"}
    BY <2>2 DEF Mode
  <2>8. L' \in AdjustOutcomes(Mode, L)
    BY <2>4, <2>5, <2>6, <2>7, MaxBatchAssumption DEF AdjustOutcomes, AdjusterInv
  <2> QED
    BY <2>2, <2>3, <2>8
<1> QED
  BY <1>2, <1>3, <1>4 DEF Adjust5

\* Adjust5 does what Dispatcher says of it, for every batch size, root node and
\* set of durations, where Dispatcher lets efficiencies drop.
THEOREM AdjusterImplements == EfficiencyDrops = TRUE => (Spec => AdjusterAgrees)
<1> SUFFICES ASSUME EfficiencyDrops = TRUE PROVE Spec => AdjusterAgrees
  OBVIOUS
<1>1. ASSUME AdjusterInv, [Next]_vars
      PROVE [\A r \in Rounds : \A d \in Durations : Adjust5(r[1], r[2], d) =>
               IF HitRatioHigh(r[1], r[2])
               THEN L' \in AdjustOutcomes(Mode, L) /\ Mode' = NextAdjuster(Mode)
               ELSE L' = L /\ Mode' = Mode]_vars
  BY <1>1, AdjusterOutcome
<1> QED
  BY AdjusterInit, AdjusterStep, <1>1, PTL DEF Spec, AdjusterAgrees

-----------------------------------------------------------------------------
(* The time-out *)

\* A set with one element more has twice the subsets.
LEMMA PowerDoubles ==
    ASSUME NEW n \in Nat
    PROVE  2^n \in Nat /\ 2^(n + 1) = 2 * 2^n
<1> DEFINE A == SUBSET (1 .. n)
           B == {x \cup {n + 1} : x \in A}
           f == [x \in A |-> x \cup {n + 1}]
<1>1. /\ IsFiniteSet(1 .. n) /\ Cardinality(1 .. n) = n
      /\ IsFiniteSet(1 .. (n + 1)) /\ Cardinality(1 .. (n + 1)) = n + 1
  BY FS_Interval
<1>2. /\ IsFiniteSet(A) /\ Cardinality(A) = 2^n
      /\ Cardinality(SUBSET (1 .. (n + 1))) = 2^(n + 1)
  BY <1>1, FS_SUBSET
<1>3. \A x \in A : n + 1 \notin x
  OBVIOUS
<1>4. f \in Bijection(A, B)
  <2>1. ASSUME NEW x \in A, NEW y \in A, f[x] = f[y] PROVE x = y
    BY <1>3, <2>1
  <2>2. f \in [A -> B] /\ \A z \in B : \E x \in A : f[x] = z
    OBVIOUS
  <2> QED
    BY <2>1, <2>2, Fun_IsBij
<1>5. IsFiniteSet(B) /\ Cardinality(B) = 2^n
  BY <1>2, <1>4, FS_Bijection DEF ExistsBijection
<1>6. A \cap B = {}
  BY <1>3
<1>7. A \cup B = SUBSET (1 .. (n + 1))
  <2>1. ASSUME NEW z \in SUBSET (1 .. (n + 1)), n + 1 \in z PROVE z \in B
    <3>1. z \ {n + 1} \in A /\ z = (z \ {n + 1}) \cup {n + 1}
      BY <2>1
    <3> QED
      BY <3>1
  <2>2. ASSUME NEW z \in SUBSET (1 .. (n + 1)), n + 1 \notin z PROVE z \in A
    BY <2>2
  <2>3. A \subseteq SUBSET (1 .. (n + 1)) /\ B \subseteq SUBSET (1 .. (n + 1))
    <3>1. (1 .. n) \subseteq 1 .. (n + 1) /\ n + 1 \in 1 .. (n + 1)
      OBVIOUS
    <3>2. ASSUME NEW x \in A
          PROVE  x \in SUBSET (1 .. (n + 1)) /\ x \cup {n + 1} \in SUBSET (1 .. (n + 1))
      BY <3>1
    <3>3. A \subseteq SUBSET (1 .. (n + 1))
      BY <3>2
    <3>4. ASSUME NEW z \in B PROVE z \in SUBSET (1 .. (n + 1))
      <4>1. PICK x \in A : z = x \cup {n + 1}
        OBVIOUS
      <4> HIDE DEF A
      <4> QED
        BY <3>2, <4>1
    <3> HIDE DEF A, B
    <3> QED
      BY <3>3, <3>4
  <2> HIDE DEF A, B
  <2>4. SUBSET (1 .. (n + 1)) \subseteq A \cup B
    BY <2>1, <2>2
  <2> QED
    BY <2>3, <2>4
<1> HIDE DEF A, B
<1>8. Cardinality(A \cup B) = Cardinality(A) + Cardinality(B) - Cardinality({})
  BY <1>2, <1>5, <1>6, FS_Union
<1>9. 2^n \in Nat /\ Cardinality({}) = 0
  BY <1>2, FS_CardinalityType, FS_EmptySet
<1>10. 2^(n + 1) = 2^n + 2^n - 0
  BY <1>2, <1>5, <1>7, <1>8, <1>9
<1> QED
  BY <1>9, <1>10

LEMMA PowerOfOne == 2^1 = 2
<1>1. Cardinality(SUBSET {}) = 2^Cardinality({}) /\ Cardinality({}) = 0
  BY FS_EmptySet, FS_SUBSET
<1>2. Cardinality({{}}) = 1 /\ SUBSET {} = {{}}
  BY FS_Singleton
<1>3. 2^0 = 1
  BY <1>1, <1>2
<1>4. 2^(0 + 1) = 2 * 2^0
  BY PowerDoubles
<1> QED
  BY <1>3, <1>4

\* The third empty round in a row is the first to double the time-out.
TolerateInv == continuousmisstimes \in Nat /\ TolerateFollowsMisses

LEMMA TolerateStep ==
    ASSUME TolerateInv, [Next]_vars
    PROVE  TolerateInv'
<1>1. ASSUME NEW r, NEW d, Adjust5(r[1], r[2], d)
      PROVE  \/ UNCHANGED <<continuousmisstimes, tolerate>>
             \/ continuousmisstimes' = 0 /\ tolerate' = 1
             \/ /\ continuousmisstimes' = continuousmisstimes + 1
                /\ tolerate' = IF continuousmisstimes' >= 3 THEN tolerate * 2 ELSE tolerate
  BY <1>1 DEF Adjust5, Miss, FirstHit, Hit, ResetTolerate
<1>2. ASSUME continuousmisstimes' = continuousmisstimes + 1,
             tolerate' = IF continuousmisstimes' >= 3 THEN tolerate * 2 ELSE tolerate
      PROVE  TolerateInv'
  <2>1. PICK n \in Nat : n = continuousmisstimes
    BY DEF TolerateInv
  <2>2. tolerate = IF n < 3 THEN 1 ELSE 2^(n - 2)
    BY <2>1 DEF TolerateInv, TolerateFollowsMisses
  <2>3. tolerate' = IF n + 1 < 3 THEN 1 ELSE 2^((n + 1) - 2)
    <3>1. CASE n < 2
      BY <1>2, <2>1, <2>2, <3>1
    <3>2. CASE n = 2
      <4>1. tolerate' = 2 /\ (n + 1) - 2 = 1 /\ ~(n + 1 < 3)
        BY <1>2, <2>1, <2>2, <3>2
      <4> QED
        BY <4>1, PowerOfOne
    <3>3. CASE n > 2
      <4>1. /\ tolerate' = tolerate * 2 /\ tolerate = 2^(n - 2)
            /\ n - 2 \in Nat /\ (n + 1) - 2 = (n - 2) + 1 /\ ~(n + 1 < 3)
        BY <1>2, <2>1, <2>2, <3>3
      <4>2. 2^(n - 2) \in Nat /\ 2^((n - 2) + 1) = 2 * 2^(n - 2)
        BY <4>1, PowerDoubles
      <4>3. tolerate' = 2^((n - 2) + 1)
        BY <4>1, <4>2
      <4> QED
        BY <4>1, <4>3
    <3> QED
      BY <3>1, <3>2, <3>3
  <2>4. continuousmisstimes' = n + 1
    BY <1>2, <2>1
  <2> QED
    BY <2>3, <2>4 DEF TolerateInv, TolerateFollowsMisses
<1>3. ASSUME UNCHANGED <<continuousmisstimes, tolerate>> PROVE TolerateInv'
  BY <1>3 DEF TolerateInv, TolerateFollowsMisses
<1>4. ASSUME continuousmisstimes' = 0, tolerate' = 1 PROVE TolerateInv'
  BY <1>4 DEF TolerateInv, TolerateFollowsMisses
<1> QED
  BY <1>1, <1>2, <1>3, <1>4 DEF Next, vars

\* For any batch sizes and durations: the time-out of a worker doubles with every
\* empty round from the third on, and is MaxWaitTime again once it got blocks
\* (adjust.go:259-270).
THEOREM TimeoutFollowsMisses == Spec => []TolerateFollowsMisses
<1>1. Init => TolerateInv
  BY DEF Init, TolerateInv, TolerateFollowsMisses
<1>2. TolerateInv /\ [Next]_vars => TolerateInv'
  BY TolerateStep
<1>3. TolerateInv => TolerateFollowsMisses
  BY DEF TolerateInv
<1> QED
  BY <1>1, <1>2, <1>3, PTL DEF Spec

-----------------------------------------------------------------------------
(* The loops of absorb2 and squeeze, which are folds *)

LEMMA LeastNat ==
    ASSUME NEW S \in SUBSET Nat, S # {}
    PROVE  \E n \in S : \A m \in S : n <= m
<1> DEFINE R == OpToRel(<, Nat)
<1>1. IsWellFoundedOn(R, Nat)
  BY NatLessThanWellFounded
<1>2. \A x, y \in Nat : y < x => <<y, x>> \in R
  BY DEF OpToRel
<1> HIDE DEF R
<1>3. PICK n \in S : \A y \in S : ~(<<y, n>> \in R)
  BY <1>1, WFMin, Zenon
<1>4. \A m \in S : ~(m < n) /\ m \in Nat /\ n \in Nat
  BY <1>2, <1>3
<1> QED
  BY <1>4

\* A set that holds 0, and with each number below N the next one.
LEMMA UpTo ==
    ASSUME NEW N \in Nat, NEW S, 0 \in S, \A n \in 0 .. (N - 1) : n \in S => n + 1 \in S
    PROVE  \A n \in 0 .. N : n \in S
<1> DEFINE T == {n \in 0 .. N : n \notin S}
<1>1. ASSUME T # {} PROVE FALSE
  <2>1. T \in SUBSET Nat
    OBVIOUS
  <2>2. \E n \in T : \A m \in T : n <= m
    <3> HIDE DEF T
    <3> QED
      BY <1>1, <2>1, LeastNat
  <2>3. PICK n \in T : \A m \in T : n <= m
    BY <2>2
  <2>4. n # 0 /\ n - 1 \in 0 .. (N - 1) /\ (n - 1) + 1 = n
    BY <2>3
  <2>5. n - 1 \notin T
    BY <2>3, <2>4
  <2> QED
    BY <2>3, <2>4, <2>5
<1> QED
  BY <1>1

\* The greatest of a set of numbers up to n that holds n.
LEMMA MaxOfUpTo ==
    ASSUME NEW n \in Nat, NEW s \in SUBSET (1 .. n), n \in s
    PROVE  Max(s) = n
<1>1. \A x \in s : x \in Nat /\ n >= x
  OBVIOUS
<1>2. \A m \in s : (\A x \in s : m >= x) => m = n
  BY <1>1
<1>3. Max(s) \in s /\ \A x \in s : Max(s) >= x
  BY <1>1 DEF Max
<1> QED
  BY <1>2, <1>3

\* One step of the loop that k names, from x, with the element e.
FoldStep(k, x, e) ==
    IF k[1] = "collect" THEN Collect(x, e)
    ELSE IF k[1] = "merge" THEN MergeTurn(k[2], k[3], x)
    ELSE SqueezeTurn(k[2], k[3], k[4], x, e)
IsFold(k, b, f, d, g) ==
    g = [s \in SUBSET d |-> IF s = {} THEN b ELSE FoldStep(k, g[s \ {Max(s)}], f[Max(s)])]

LEMMA FoldExists ==
    ASSUME NEW k, NEW b, NEW f, NEW N \in Nat
    PROVE  \E g : IsFold(k, b, f, 1 .. N, g)
<1> DEFINE S == {n \in 0 .. N : \E g : IsFold(k, b, f, 1 .. n, g)}
<1>1. 0 \in S
  <2> DEFINE g == [s \in SUBSET (1 .. 0) |-> b]
  <2>1. IsFold(k, b, f, 1 .. 0, g)
    BY DEF IsFold
  <2> QED
    BY <2>1
<1>2. ASSUME NEW n \in 0 .. (N - 1), n \in S
      PROVE  n + 1 \in S
  <2>1. PICK g : IsFold(k, b, f, 1 .. n, g)
    BY <1>2
  <2> DEFINE h == [s \in SUBSET (1 .. (n + 1)) |->
                     IF s \in SUBSET (1 .. n) THEN g[s]
                     ELSE FoldStep(k, g[s \ {Max(s)}], f[Max(s)])]
  <2>2. n + 1 \in Nat /\ (1 .. n) \subseteq 1 .. (n + 1) /\ n + 1 \notin 1 .. n
    OBVIOUS
  <2>3. \A s \in SUBSET (1 .. n) : h[s] = g[s]
    BY <2>2
  <2>4. \A s \in SUBSET (1 .. n) :
            g[s] = IF s = {} THEN b ELSE FoldStep(k, g[s \ {Max(s)}], f[Max(s)])
    BY <2>1 DEF IsFold
  <2>5. ASSUME NEW s \in SUBSET (1 .. (n + 1)), s \notin SUBSET (1 .. n)
        PROVE  s # {} /\ h[s] = FoldStep(k, h[s \ {Max(s)}], f[Max(s)])
    <3>1. n + 1 \in s
      BY <2>5
    <3>2. Max(s) = n + 1
      BY <2>2, <3>1, MaxOfUpTo
    <3>3. s \ {Max(s)} \in SUBSET (1 .. n)
      BY <3>2
    <3>4. h[s] = FoldStep(k, g[s \ {Max(s)}], f[Max(s)])
      BY <2>5
    <3> QED
      BY <2>3, <3>1, <3>3, <3>4
  <2>6. h = [s \in SUBSET (1 .. (n + 1)) |-> h[s]]
    OBVIOUS
  <2> HIDE DEF h
  <2>7. \A s \in SUBSET (1 .. (n + 1)) :
            h[s] = IF s = {} THEN b ELSE FoldStep(k, h[s \ {Max(s)}], f[Max(s)])
    <3> SUFFICES ASSUME NEW s \in SUBSET (1 .. (n + 1))
                 PROVE  h[s] = IF s = {} THEN b ELSE FoldStep(k, h[s \ {Max(s)}], f[Max(s)])
      OBVIOUS
    <3>1. CASE s \notin SUBSET (1 .. n)
      BY <2>5, <3>1
    <3>2. CASE s \in SUBSET (1 .. n)
      <4>1. s \ {Max(s)} \in SUBSET (1 .. n)
        BY <3>2
      <4> QED
        BY <2>3, <2>4, <3>2, <4>1
    <3> QED
      BY <3>1, <3>2
  <2>8. IsFold(k, b, f, 1 .. (n + 1), h)
    BY <2>6, <2>7 DEF IsFold
  <2> QED
    BY <2>8
<1> HIDE DEF S
<1>3. \A n \in 0 .. N : n \in S
  BY <1>1, <1>2, UpTo
<1> QED
  BY <1>3 DEF S

\* g[1 .. n] is what the loop has after n elements.
LoopFrom(k, b, f, N, g) ==
    /\ g[1 .. 0] = b
    /\ \A n \in 0 .. (N - 1) : g[1 .. (n + 1)] = FoldStep(k, g[1 .. n], f[n + 1])

LEMMA FoldSteps ==
    ASSUME NEW k, NEW b, NEW f, NEW N \in Nat, NEW g, IsFold(k, b, f, 1 .. N, g)
    PROVE  LoopFrom(k, b, f, N, g)
<1>1. \A s \in SUBSET (1 .. N) :
          g[s] = IF s = {} THEN b ELSE FoldStep(k, g[s \ {Max(s)}], f[Max(s)])
  BY DEF IsFold
<1>2. g[1 .. 0] = b
  <2>1. 1 .. 0 = {} /\ {} \in SUBSET (1 .. N)
    OBVIOUS
  <2>2. g[{}] = b
    BY <1>1, <2>1
  <2> QED
    BY <2>1, <2>2
<1>3. ASSUME NEW n \in 0 .. (N - 1)
      PROVE  g[1 .. (n + 1)] = FoldStep(k, g[1 .. n], f[n + 1])
  <2> DEFINE s == 1 .. (n + 1)
  <2>1. s \in SUBSET (1 .. N) /\ n + 1 \in s /\ n + 1 \in Nat /\ s \ {n + 1} = 1 .. n
    OBVIOUS
  <2>2. Max(s) = n + 1
    BY <2>1, MaxOfUpTo
  <2> QED
    BY <1>1, <2>1, <2>2
<1> QED
  BY <1>2, <1>3 DEF LoopFrom

\* The loops by name.
CollectAll(b, f) == FoldLeft(Collect, b, f)
MergeAll(u, v, b, f) == FoldLeft(LAMBDA m, i : MergeTurn(u, v, m), b, f)
Pass(q, st, m, b, f) == FoldLeft(LAMBDA x, c : SqueezeTurn(q, st, m, x, c), b, f)

IsCollect(b, f, d, g) ==
    g = [s \in SUBSET d |-> IF s = {} THEN b ELSE Collect(g[s \ {Max(s)}], f[Max(s)])]
IsMerge(u, v, b, f, d, g) ==
    g = [s \in SUBSET d |-> IF s = {} THEN b ELSE MergeTurn(u, v, g[s \ {Max(s)}])]
IsPass(q, st, m, b, f, d, g) ==
    g = [s \in SUBSET d |-> IF s = {} THEN b ELSE SqueezeTurn(q, st, m, g[s \ {Max(s)}], f[Max(s)])]

LEMMA CollectFold ==
    ASSUME NEW b, NEW f, NEW N \in Nat, DOMAIN f = 1 .. N
    PROVE  \E g : IsFold(<<"collect">>, b, f, 1 .. N, g) /\ CollectAll(b, f) = g[1 .. N]
<1> DEFINE g == CHOOSE g : IsCollect(b, f, DOMAIN f, g)
<1>1. PICK h : IsFold(<<"collect">>, b, f, 1 .. N, h)
  BY FoldExists
<1>2. IsCollect(b, f, DOMAIN f, h)
  BY <1>1 DEF IsFold, IsCollect, FoldStep
<1>3. IsCollect(b, f, DOMAIN f, g)
  BY <1>2
<1>4. CollectAll(b, f) = g[DOMAIN f]
  BY DEF CollectAll, FoldLeft, MapThenFoldSet, IsCollect
<1> HIDE DEF g
<1>5. IsFold(<<"collect">>, b, f, 1 .. N, g)
  BY <1>3 DEF IsFold, IsCollect, FoldStep
<1> QED
  BY <1>4, <1>5

LEMMA MergeFold ==
    ASSUME NEW u, NEW v, NEW b, NEW f, NEW N \in Nat, DOMAIN f = 1 .. N
    PROVE  \E g : /\ IsFold(<<"merge", u, v>>, b, f, 1 .. N, g)
                  /\ MergeAll(u, v, b, f) = g[1 .. N]
<1> DEFINE g == CHOOSE g : IsMerge(u, v, b, f, DOMAIN f, g)
<1>1. PICK h : IsFold(<<"merge", u, v>>, b, f, 1 .. N, h)
  BY FoldExists
<1>2. IsMerge(u, v, b, f, DOMAIN f, h)
  BY <1>1 DEF IsFold, IsMerge, FoldStep
<1>3. IsMerge(u, v, b, f, DOMAIN f, g)
  BY <1>2
<1>4. MergeAll(u, v, b, f) = g[DOMAIN f]
  BY DEF MergeAll, FoldLeft, MapThenFoldSet, IsMerge
<1> HIDE DEF g
<1>5. IsFold(<<"merge", u, v>>, b, f, 1 .. N, g)
  BY <1>3 DEF IsFold, IsMerge, FoldStep
<1> QED
  BY <1>4, <1>5

LEMMA PassFold ==
    ASSUME NEW q, NEW st, NEW m, NEW b, NEW f, NEW N \in Nat, DOMAIN f = 1 .. N
    PROVE  \E g : /\ IsFold(<<"squeeze", q, st, m>>, b, f, 1 .. N, g)
                  /\ Pass(q, st, m, b, f) = g[1 .. N]
<1> DEFINE g == CHOOSE g : IsPass(q, st, m, b, f, DOMAIN f, g)
<1>1. PICK h : IsFold(<<"squeeze", q, st, m>>, b, f, 1 .. N, h)
  BY FoldExists
<1>2. IsPass(q, st, m, b, f, DOMAIN f, h)
  BY <1>1 DEF IsFold, IsPass, FoldStep
<1>3. IsPass(q, st, m, b, f, DOMAIN f, g)
  BY <1>2
<1>4. Pass(q, st, m, b, f) = g[DOMAIN f]
  BY DEF Pass, FoldLeft, MapThenFoldSet, IsPass
<1> HIDE DEF g
<1>5. IsFold(<<"squeeze", q, st, m>>, b, f, 1 .. N, g)
  BY <1>3 DEF IsFold, IsPass, FoldStep
<1> QED
  BY <1>4, <1>5

-----------------------------------------------------------------------------
(* The first loop of absorb2 *)

Accs == [dist : SUBSET Cids, unadd : Seq(Cids), stopped : BOOLEAN]

\* r is what the loop has of the first n blocks of b.
Collects(D, b, n, r) ==
    /\ r \in Accs /\ Len(r.unadd) <= n
    /\ \A i \in 1 .. Len(r.unadd) : r.unadd[i] = b[i] /\ i \in FreshPrefix(D, b)
    /\ r.dist = D \cup {b[i] : i \in 1 .. Len(r.unadd)}
    /\ IF r.stopped THEN Len(r.unadd) + 1 \in DOMAIN b \ FreshPrefix(D, b)
       ELSE Len(r.unadd) = n

LEMMA CollectStep ==
    ASSUME NEW D \in SUBSET Cids, NEW b \in Seq(Cids), NEW n \in Nat, n < Len(b),
           NEW r, Collects(D, b, n, r)
    PROVE  Collects(D, b, n + 1, Collect(r, b[n + 1]))
<1> DEFINE c == b[n + 1]
<1>1. PICK N \in Nat : N = Len(b) /\ DOMAIN b = 1 .. N
  OBVIOUS
<1>2. n + 1 \in 1 .. N /\ c \in Cids
  BY <1>1
<1>3. r \in Accs /\ r.dist \in SUBSET Cids /\ r.unadd \in Seq(Cids) /\ r.stopped \in BOOLEAN
  BY DEF Collects, Accs
<1>4. PICK m \in Nat : m = Len(r.unadd) /\ DOMAIN r.unadd = 1 .. m
  BY <1>3
<1>5. /\ m <= n
      /\ \A i \in 1 .. m : r.unadd[i] = b[i] /\ i \in FreshPrefix(D, b)
      /\ r.dist = D \cup {b[i] : i \in 1 .. m}
      /\ IF r.stopped THEN m + 1 \in DOMAIN b \ FreshPrefix(D, b) ELSE m = n
  BY <1>4 DEF Collects
<1>6. CASE r.stopped
  <2>1. Collect(r, c) = [r EXCEPT !.stopped = TRUE]
    BY <1>6 DEF Collect
  <2>2. [r EXCEPT !.stopped = TRUE] = r
    BY <1>3, <1>6 DEF Accs
  <2>3. Collect(r, c) = r
    BY <2>1, <2>2
  <2>4. m <= n + 1
    BY <1>5
  <2>5. Collects(D, b, n + 1, r)
    BY <1>3, <1>4, <1>5, <1>6, <2>4 DEF Collects
  <2> QED
    BY <2>3, <2>5
<1>7. CASE ~r.stopped /\ c \in r.dist
  <2>1. Collect(r, c) = [r EXCEPT !.stopped = TRUE]
    BY <1>7 DEF Collect
  <2> DEFINE q == [r EXCEPT !.stopped = TRUE]
  <2>2. q \in Accs /\ q.dist = r.dist /\ q.unadd = r.unadd /\ q.stopped
    BY <1>3 DEF Accs
  <2>3. m = n /\ n + 1 \notin FreshPrefix(D, b)
    <3>1. m = n /\ (c \in D \/ \E i \in 1 .. n : b[i] = c)
      BY <1>5, <1>7
    <3>2. n + 1 \in 1 .. (n + 1) /\ (n + 1) - 1 = n
      OBVIOUS
    <3> QED
      BY <3>1, <3>2 DEF FreshPrefix
  <2> HIDE DEF q
  <2>4. Collects(D, b, n + 1, q)
    BY <2>2, <2>3, <1>1, <1>2, <1>4, <1>5 DEF Collects
  <2> QED
    BY <2>1, <2>4 DEF q
<1>8. CASE ~r.stopped /\ c \notin r.dist
  <2> DEFINE u == Append(r.unadd, c)
             e == r.dist \cup {c}
             q == [r EXCEPT !.dist = @ \cup {c}, !.unadd = Append(@, c)]
  <2>1. Collect(r, c) = q
    BY <1>8 DEF Collect
  <2>2. /\ u \in Seq(Cids) /\ Len(u) = m + 1 /\ u[m + 1] = c
        /\ \A i \in 1 .. m : u[i] = r.unadd[i]
    BY <1>2, <1>3, <1>4, AppendProperties
  <2>3. q = [r EXCEPT !.dist = e, !.unadd = u]
    OBVIOUS
  <2> HIDE DEF u, e
  <2>4. q \in Accs /\ q.dist = e /\ q.unadd = u /\ ~q.stopped
    <3>1. e \in SUBSET Cids
      BY <1>2, <1>3 DEF e
    <3> QED
      BY <1>3, <1>8, <2>2, <2>3, <3>1 DEF Accs
  <2> HIDE DEF q
  <2>5. m = n
    BY <1>5, <1>8
  <2>6. n + 1 \in FreshPrefix(D, b)
    <3> SUFFICES ASSUME NEW j \in 1 .. (n + 1)
                 PROVE  b[j] \notin D /\ \A k \in 1 .. (j - 1) : b[k] # b[j]
      BY <1>1, <1>2 DEF FreshPrefix
    <3>1. CASE j = n + 1
      <4>1. \A k \in 1 .. (j - 1) : k \in 1 .. m
        BY <2>5, <3>1
      <4> QED
        BY <1>5, <1>8, <3>1, <4>1
    <3>2. CASE j # n + 1
      <4>1. j \in 1 .. m /\ j \in 1 .. j
        BY <2>5, <3>2
      <4>2. j \in FreshPrefix(D, b)
        BY <1>5, <4>1
      <4> QED
        BY <4>1, <4>2 DEF FreshPrefix
    <3> QED
      BY <3>1, <3>2
  <2>7. \A i \in 1 .. (n + 1) : u[i] = b[i] /\ i \in FreshPrefix(D, b)
    <3> TAKE i \in 1 .. (n + 1)
    <3>1. CASE i = n + 1
      BY <2>2, <2>5, <2>6, <3>1
    <3>2. CASE i # n + 1
      <4>1. i \in 1 .. m
        BY <2>5, <3>2
      <4> QED
        BY <1>5, <2>2, <4>1
    <3> QED
      BY <3>1, <3>2
  <2>8. e = D \cup {b[i] : i \in 1 .. (n + 1)}
    <3>1. \A i : i \in 1 .. (n + 1) <=> i \in 1 .. m \/ i = n + 1
      BY <2>5
    <3> QED
      BY <1>5, <3>1 DEF e
  <2>9. Collects(D, b, n + 1, q)
    BY <2>2, <2>4, <2>5, <2>7, <2>8 DEF Collects
  <2> QED
    BY <2>1, <2>9
<1> QED
  BY <1>3, <1>6, <1>7, <1>8

LEMMA CollectIs ==
    ASSUME NEW D \in SUBSET Cids, NEW b \in Seq(Cids)
    PROVE  Collects(D, b, Len(b), CollectAll([dist |-> D, unadd |-> <<>>, stopped |-> FALSE], b))
<1> DEFINE b0 == [dist |-> D, unadd |-> <<>>, stopped |-> FALSE]
<1>1. PICK N \in Nat : N = Len(b) /\ DOMAIN b = 1 .. N
  OBVIOUS
<1>2. Collects(D, b, 0, b0)
  <2>1. <<>> \in Seq(Cids) /\ Len(<<>>) = 0 /\ 1 .. 0 = {}
    OBVIOUS
  <2>2. b0 \in Accs
    BY <2>1 DEF Accs
  <2> QED
    BY <2>1, <2>2 DEF Collects
<1> HIDE DEF b0
<1>3. PICK g : IsFold(<<"collect">>, b0, b, 1 .. N, g) /\ CollectAll(b0, b) = g[1 .. N]
  BY <1>1, CollectFold
<1> DEFINE k == <<"collect">>
<1> HIDE DEF k
<1>4. g[1 .. 0] = b0 /\ \A n \in 0 .. (N - 1) : g[1 .. (n + 1)] = FoldStep(k, g[1 .. n], b[n + 1])
  <2>1. IsFold(k, b0, b, 1 .. N, g)
    BY <1>3 DEF k
  <2> QED
    BY <2>1, FoldSteps DEF LoopFrom
<1>5. \A n \in 0 .. (N - 1) : g[1 .. (n + 1)] = Collect(g[1 .. n], b[n + 1])
  BY <1>4 DEF FoldStep, k
<1> DEFINE S == {n \in 0 .. N : Collects(D, b, n, g[1 .. n])}
<1>6. 0 \in S
  BY <1>2, <1>4
<1>7. ASSUME NEW n \in 0 .. (N - 1), n \in S PROVE n + 1 \in S
  <2>1. n \in Nat /\ n < Len(b) /\ n + 1 \in 0 .. N
    BY <1>1
  <2>2. Collects(D, b, n, g[1 .. n])
    BY <1>7
  <2>3. Collects(D, b, n + 1, Collect(g[1 .. n], b[n + 1]))
    BY <2>1, <2>2, CollectStep
  <2> QED
    BY <1>5, <2>1, <2>3
<1> HIDE DEF S
<1>8. \A n \in 0 .. N : n \in S
  BY <1>6, <1>7, UpTo
<1>9. N \in S
  BY <1>8
<1> QED
  BY <1>1, <1>3, <1>9 DEF S, b0

\* What absorb2 works with after the loop.
Collected(D, b, r) ==
    /\ r.dist = AbsorbDistances(D, b) /\ r.dist \in SUBSET Cids
    /\ r.unadd \in Seq(Cids)
    /\ r.stopped <=> FreshPrefix(D, b) # DOMAIN b
    /\ ~r.stopped => r.unadd = b
    /\ ToSet(r.unadd) \cap D = {} /\ ToSet(r.unadd) \subseteq r.dist
    /\ \A i, j \in DOMAIN r.unadd : r.unadd[i] = r.unadd[j] => i = j

LEMMA CollectedIs ==
    ASSUME NEW D \in SUBSET Cids, NEW b \in Seq(Cids), NEW r,
           r = CollectAll([dist |-> D, unadd |-> <<>>, stopped |-> FALSE], b)
    PROVE  Collected(D, b, r)
<1>1. Collects(D, b, Len(b), r)
  BY CollectIs
<1>2. PICK N \in Nat : N = Len(b) /\ DOMAIN b = 1 .. N
  OBVIOUS
<1>3. r \in Accs /\ r.dist \in SUBSET Cids /\ r.unadd \in Seq(Cids) /\ r.stopped \in BOOLEAN
  BY <1>1 DEF Collects, Accs
<1>4. PICK m \in Nat : m = Len(r.unadd) /\ DOMAIN r.unadd = 1 .. m
  BY <1>3
<1>5. /\ m <= N
      /\ \A i \in 1 .. m : r.unadd[i] = b[i] /\ i \in FreshPrefix(D, b)
      /\ r.dist = D \cup {b[i] : i \in 1 .. m}
      /\ IF r.stopped THEN m + 1 \in DOMAIN b \ FreshPrefix(D, b) ELSE m = N
  BY <1>1, <1>2, <1>4 DEF Collects
<1>6. FreshPrefix(D, b) = 1 .. m
  <2>1. ASSUME NEW i \in FreshPrefix(D, b), i > m PROVE FALSE
    <3>1. i \in 1 .. N /\ \A j \in 1 .. i : b[j] \notin D /\ \A k \in 1 .. (j - 1) : b[k] # b[j]
      BY <1>2 DEF FreshPrefix
    <3>2. m # N /\ m + 1 \notin FreshPrefix(D, b) /\ m + 1 \in 1 .. N
      BY <1>2, <1>5, <2>1, <3>1
    <3>3. \A j \in 1 .. (m + 1) : j \in 1 .. i
      BY <2>1, <3>1
    <3> QED
      BY <1>2, <3>1, <3>2, <3>3 DEF FreshPrefix
  <2>2. FreshPrefix(D, b) \subseteq 1 .. N
    BY <1>2 DEF FreshPrefix
  <2>3. \A i \in FreshPrefix(D, b) : i \in 1 .. N /\ ~(i > m)
    BY <2>1, <2>2
  <2>4. \A i \in FreshPrefix(D, b) : i \in 1 .. m
    BY <2>3
  <2>5. \A i \in 1 .. m : i \in FreshPrefix(D, b)
    BY <1>5
  <2> QED
    BY <2>4, <2>5
<1>7. r.dist = AbsorbDistances(D, b)
  BY <1>5, <1>6 DEF AbsorbDistances
<1>8. r.stopped <=> FreshPrefix(D, b) # DOMAIN b
  <2>1. CASE r.stopped
    BY <1>5, <2>1
  <2>2. CASE ~r.stopped
    BY <1>2, <1>5, <1>6, <2>2
  <2> QED
    BY <2>1, <2>2
<1>9. ~r.stopped => r.unadd = b
  <2> SUFFICES ASSUME ~r.stopped PROVE r.unadd = b
    OBVIOUS
  <2>1. Len(r.unadd) = Len(b) /\ \A i \in 1 .. Len(b) : r.unadd[i] = b[i]
    BY <1>2, <1>4, <1>5
  <2> QED
    BY <1>3, <2>1, SeqEqual
<1>10. \A i, j \in 1 .. m : i < j => r.unadd[i] # r.unadd[j]
  <2> TAKE i, j \in 1 .. m
  <2> HAVE i < j
  <2>1. j \in FreshPrefix(D, b) /\ j \in 1 .. j /\ i \in 1 .. (j - 1)
    BY <1>5
  <2>2. b[i] # b[j]
    BY <2>1 DEF FreshPrefix
  <2> QED
    BY <1>5, <2>2
<1>11. \A i, j \in DOMAIN r.unadd : r.unadd[i] = r.unadd[j] => i = j
  <2> SUFFICES ASSUME NEW i \in 1 .. m, NEW j \in 1 .. m, r.unadd[i] = r.unadd[j] PROVE i = j
    BY <1>4
  <2>1. ~(i < j) /\ ~(j < i)
    BY <1>10
  <2> QED
    BY <2>1
<1>12. ToSet(r.unadd) = {b[i] : i \in 1 .. m}
  BY <1>4, <1>5 DEF ToSet
<1>13. ToSet(r.unadd) \cap D = {}
  <2>1. \A i \in 1 .. m : i \in FreshPrefix(D, b) /\ i \in 1 .. i
    BY <1>5
  <2>2. \A i \in 1 .. m : b[i] \notin D
    BY <2>1 DEF FreshPrefix
  <2> QED
    BY <1>12, <2>2
<1> QED
  BY <1>3, <1>5, <1>7, <1>8, <1>9, <1>11, <1>12, <1>13 DEF Collected

-----------------------------------------------------------------------------
(* The sort and the merge *)

Strict(q) == \A i, j \in DOMAIN q : i < j => Closer(q[i], q[j])

LEMMA CloserIs ==
    /\ \A c, d \in Cids : Closer(c, d) \/ Closer(d, c) \/ c = d
    /\ \A c, d \in Cids : ~(Closer(c, d) /\ Closer(d, c))
    /\ \A c \in Cids : ~Closer(c, c)
    /\ \A c, d, e \in Cids : Closer(c, d) /\ Closer(d, e) => Closer(c, e)
<1>1. /\ \A c \in Cids : Distance[Owner][c] \in Nat
      /\ \A c, d \in Cids : Distance[Owner][c] = Distance[Owner][d] => c = d
  <2>1. Owner \in Peers
    BY BatchesAssumption
  <2> QED
    BY <2>1, DistanceAssumption
<1>2. \A c, d \in Cids : Closer(c, d) \/ Closer(d, c) \/ Distance[Owner][c] = Distance[Owner][d]
  BY <1>1 DEF Closer
<1>3. \A c, d \in Cids : Closer(c, d) \/ Closer(d, c) \/ c = d
  BY <1>1, <1>2
<1>4. \A c, d \in Cids : ~(Closer(c, d) /\ Closer(d, c))
  BY <1>1 DEF Closer
<1>5. \A c \in Cids : ~Closer(c, c)
  BY <1>1 DEF Closer
<1>6. \A c, d, e \in Cids : Closer(c, d) /\ Closer(d, e) => Closer(c, e)
  BY <1>1 DEF Closer
<1> QED
  BY <1>3, <1>4, <1>5, <1>6

\* The nearest of a set of blocks.
LEMMA NearestExists ==
    ASSUME NEW S \in SUBSET Cids, S # {}
    PROVE  \E c \in S : \A d \in S \ {c} : Closer(c, d)
<1>1. \A c \in Cids : Distance[Owner][c] \in Nat
  BY BatchesAssumption, DistanceAssumption
<1> DEFINE T == {Distance[Owner][c] : c \in S}
<1>2. T \in SUBSET Nat /\ T # {}
  BY <1>1
<1>3. PICK n \in T : \A m \in T : n <= m
  <2> HIDE DEF T
  <2> QED
    BY <1>2, LeastNat
<1>4. PICK c \in S : n = Distance[Owner][c]
  BY <1>3
<1>5. ASSUME NEW d \in S \ {c} PROVE Closer(c, d)
  <2>1. Distance[Owner][c] <= Distance[Owner][d]
    BY <1>3, <1>4
  <2>2. ~Closer(d, c)
    BY <1>1, <2>1 DEF Closer
  <2> QED
    BY <2>2, CloserIs
<1> QED
  BY <1>5

\* A set of n blocks in the order of their distances.
InOrder(T, n, q) ==
    /\ q \in [1 .. n -> T]
    /\ \A c \in T : \E i \in 1 .. n : q[i] = c
    /\ \A i, j \in 1 .. n : i < j => Closer(q[i], q[j])

LEMMA OrderStep ==
    ASSUME NEW T \in SUBSET Cids, NEW c \in T, \A d \in T \ {c} : Closer(c, d),
           NEW n \in Nat, NEW q, InOrder(T \ {c}, n, q)
    PROVE  InOrder(T, n + 1, [i \in 1 .. (n + 1) |-> IF i = 1 THEN c ELSE q[i - 1]])
<1> DEFINE h == [i \in 1 .. (n + 1) |-> IF i = 1 THEN c ELSE q[i - 1]]
<1>1. /\ q \in [1 .. n -> T \ {c}]
      /\ \A d \in T \ {c} : \E i \in 1 .. n : q[i] = d
      /\ \A i, j \in 1 .. n : i < j => Closer(q[i], q[j])
  BY DEF InOrder
<1>2. h[1] = c /\ \A i \in 1 .. (n + 1) : i # 1 => i - 1 \in 1 .. n /\ h[i] = q[i - 1]
  OBVIOUS
<1>3. \A i \in 1 .. n : i + 1 \in 1 .. (n + 1) /\ i + 1 # 1 /\ (i + 1) - 1 = i
  OBVIOUS
<1>4. h \in [1 .. (n + 1) -> T]
  BY <1>1
<1>5. ASSUME NEW d \in T PROVE \E i \in 1 .. (n + 1) : h[i] = d
  <2>1. CASE d = c
    <3>1. 1 \in 1 .. (n + 1)
      OBVIOUS
    <3> QED
      BY <1>2, <2>1, <3>1
  <2>2. CASE d # c
    <3>1. PICK i \in 1 .. n : q[i] = d
      BY <1>1, <2>2
    <3>2. h[i + 1] = d
      BY <1>2, <1>3, <3>1
    <3> QED
      BY <1>3, <3>2
  <2> QED
    BY <2>1, <2>2
<1>6. ASSUME NEW i \in 1 .. (n + 1), NEW j \in 1 .. (n + 1), i < j PROVE Closer(h[i], h[j])
  <2>1. j # 1 /\ j - 1 \in 1 .. n /\ h[j] = q[j - 1]
    BY <1>2, <1>6
  <2>2. CASE i = 1
    <3>1. q[j - 1] \in T \ {c}
      BY <1>1, <2>1
    <3> QED
      BY <1>2, <2>1, <2>2, <3>1
  <2>3. CASE i # 1
    <3>1. i - 1 \in 1 .. n /\ h[i] = q[i - 1] /\ i - 1 < j - 1
      BY <1>2, <1>6, <2>3
    <3> QED
      BY <1>1, <2>1, <3>1
  <2> QED
    BY <2>2, <2>3
<1> HIDE DEF h
<1>7. InOrder(T, n + 1, h)
  BY <1>4, <1>5, <1>6 DEF InOrder
<1> QED
  BY <1>7 DEF h

LEMMA OrderExists ==
    ASSUME NEW S \in SUBSET Cids, IsFiniteSet(S)
    PROVE  \E q : InOrder(S, Cardinality(S), q)
<1> DEFINE N == Cardinality(S)
           P == {n \in 0 .. N : \A T \in SUBSET S : Cardinality(T) = n => \E q : InOrder(T, n, q)}
<1>1. N \in Nat
  BY FS_CardinalityType
<1>2. \A T \in SUBSET S : IsFiniteSet(T) /\ T \in SUBSET Cids
  BY FS_Subset
<1>3. 0 \in P
  <2>1. ASSUME NEW T \in SUBSET S, Cardinality(T) = 0 PROVE \E q : InOrder(T, 0, q)
    <3>1. T = {}
      BY <1>2, <2>1, FS_EmptySet
    <3>2. InOrder(T, 0, [i \in 1 .. 0 |-> i])
      BY <3>1 DEF InOrder
    <3> QED
      BY <3>2
  <2> QED
    BY <1>1, <2>1
<1>4. ASSUME NEW n \in 0 .. (N - 1), n \in P PROVE n + 1 \in P
  <2>1. ASSUME NEW T \in SUBSET S, Cardinality(T) = n + 1 PROVE \E q : InOrder(T, n + 1, q)
    <3>1. T # {}
      BY <2>1, FS_EmptySet
    <3>2. PICK c \in T : \A d \in T \ {c} : Closer(c, d)
      BY <1>2, <3>1, NearestExists
    <3>3. Cardinality(T \ {c}) = n
      <4>1. Cardinality(T \ {c}) = Cardinality(T) - 1
        BY <1>2, FS_RemoveElement
      <4> QED
        BY <2>1, <4>1
    <3>4. PICK q : InOrder(T \ {c}, n, q)
      BY <1>4, <3>3
    <3>5. n \in Nat /\ T \in SUBSET Cids
      BY <1>2
    <3> QED
      BY <3>2, <3>4, <3>5, OrderStep
  <2>2. n + 1 \in 0 .. N
    BY <1>1
  <2> QED
    BY <2>1, <2>2
<1> HIDE DEF N
<1>5. P = {n \in 0 .. N : \A T \in SUBSET S : Cardinality(T) = n => \E q : InOrder(T, n, q)}
  OBVIOUS
<1> HIDE DEF P
<1>6. \A n \in 0 .. N : n \in P
  BY <1>1, <1>3, <1>4, UpTo
<1>7. N \in P
  BY <1>1, <1>6
<1> QED
  BY <1>5, <1>7 DEF N

\* As many places as there are blocks.
LEMMA CardinalityOfDistinct ==
    ASSUME NEW t \in Seq(Cids), \A i, j \in DOMAIN t : t[i] = t[j] => i = j
    PROVE  IsFiniteSet(ToSet(t)) /\ Cardinality(ToSet(t)) = Len(t)
<1>1. PICK n \in Nat : n = Len(t) /\ DOMAIN t = 1 .. n
  OBVIOUS
<1>2. t \in [1 .. n -> ToSet(t)]
  BY <1>1 DEF ToSet
<1>3. t \in Bijection(1 .. n, ToSet(t))
  BY <1>1, <1>2 DEF Bijection, Injection, IsInjective, Surjection, ToSet
<1>4. IsFiniteSet(1 .. n) /\ Cardinality(1 .. n) = n
  BY FS_Interval
<1> QED
  BY <1>1, <1>3, <1>4, FS_Bijection DEF ExistsBijection

\* What sort.Sort returns for different blocks.
LEMMA SortedIs ==
    ASSUME NEW t \in Seq(Cids), \A i, j \in DOMAIN t : t[i] = t[j] => i = j
    PROVE  /\ Sorted(t) \in Seq(Cids) /\ Len(Sorted(t)) = Len(t)
           /\ ToSet(Sorted(t)) = ToSet(t)
           /\ Strict(Sorted(t))
<1>1. PICK n \in Nat : n = Len(t) /\ DOMAIN t = 1 .. n
  OBVIOUS
<1>2. ToSet(t) \in SUBSET Cids
  BY DEF ToSet
<1>3. PICK q : InOrder(ToSet(t), n, q)
  BY <1>1, <1>2, CardinalityOfDistinct, OrderExists
<1>4. /\ q \in [DOMAIN t -> ToSet(t)]
      /\ ToSet(q) = ToSet(t)
      /\ \A i, j \in DOMAIN t : i < j => Closer(q[i], q[j])
  <2> DEFINE S == ToSet(t)
  <2> HIDE DEF S
  <2>1. InOrder(S, n, q)
    BY <1>3 DEF S
  <2>2. q \in [1 .. n -> S] /\ {q[i] : i \in 1 .. n} = S /\ \A i, j \in 1 .. n : i < j => Closer(q[i], q[j])
    BY <2>1 DEF InOrder
  <2>3. ToSet(q) = {q[i] : i \in 1 .. n}
    BY <2>2 DEF ToSet
  <2> QED
    BY <1>1, <2>2, <2>3 DEF S
<1> DEFINE p == Sorted(t)
<1>5. /\ p \in [DOMAIN t -> ToSet(t)]
      /\ ToSet(p) = ToSet(t)
      /\ \A i, j \in DOMAIN t : i < j => Closer(p[i], p[j])
  BY <1>4 DEF Sorted
<1> HIDE DEF p
<1>6. p \in [1 .. n -> Cids] /\ DOMAIN p = 1 .. n
  BY <1>1, <1>2, <1>5
<1>7. p \in Seq(Cids) /\ Len(p) = n
  BY <1>6
<1> QED
  BY <1>1, <1>5, <1>6, <1>7 DEF Strict, p

\* A longer list in order.
LEMMA AppendStrict ==
    ASSUME NEW o \in Seq(Cids), Strict(o), NEW c \in Cids, \A k \in 1 .. Len(o) : Closer(o[k], c)
    PROVE  /\ Append(o, c) \in Seq(Cids) /\ Len(Append(o, c)) = Len(o) + 1
           /\ Strict(Append(o, c))
           /\ ToSet(Append(o, c)) = ToSet(o) \cup {c}
           /\ \A d \in Cids : Closer(c, d) => \A k \in 1 .. (Len(o) + 1) : Closer(Append(o, c)[k], d)
<1> DEFINE u == Append(o, c)
<1>1. PICK n \in Nat : n = Len(o) /\ DOMAIN o = 1 .. n /\ \A i \in 1 .. n : o[i] \in Cids
  OBVIOUS
<1>2. /\ u \in Seq(Cids) /\ Len(u) = n + 1 /\ u[n + 1] = c
      /\ \A i \in 1 .. n : u[i] = o[i]
  BY <1>1, AppendProperties
<1> HIDE DEF u
<1>3. DOMAIN u = 1 .. (n + 1)
  BY <1>2
<1>4. \A i \in 1 .. (n + 1) : i = n + 1 \/ i \in 1 .. n
  OBVIOUS
<1>5. ASSUME NEW i \in 1 .. (n + 1), NEW j \in 1 .. (n + 1), i < j PROVE Closer(u[i], u[j])
  <2>1. i \in 1 .. n
    BY <1>5
  <2>2. CASE j = n + 1
    BY <1>1, <1>2, <2>1, <2>2
  <2>3. CASE j \in 1 .. n
    BY <1>1, <1>2, <1>5, <2>1, <2>3 DEF Strict
  <2> QED
    BY <1>4, <2>2, <2>3
<1>6. Strict(u)
  BY <1>3, <1>5 DEF Strict
<1>7. ToSet(u) = ToSet(o) \cup {c}
  <2>1. ToSet(u) = {u[i] : i \in 1 .. (n + 1)} /\ ToSet(o) = {o[i] : i \in 1 .. n}
    BY <1>1, <1>3 DEF ToSet
  <2>2. n + 1 \in 1 .. (n + 1) /\ \A i \in 1 .. n : i \in 1 .. (n + 1)
    OBVIOUS
  <2> QED
    BY <1>2, <1>4, <2>1, <2>2
<1>8. ASSUME NEW d \in Cids, Closer(c, d), NEW k \in 1 .. (n + 1) PROVE Closer(u[k], d)
  <2>1. CASE k = n + 1
    BY <1>2, <1>8, <2>1
  <2>2. CASE k \in 1 .. n
    <3>1. Closer(o[k], c) /\ o[k] \in Cids
      BY <1>1, <2>2
    <3> QED
      BY <1>2, <1>8, <2>2, <3>1, CloserIs
  <2> QED
    BY <1>4, <2>1, <2>2
<1> QED
  BY <1>1, <1>2, <1>6, <1>7, <1>8 DEF u

Merges == [p1 : Nat, p2 : Nat, out : Seq(Cids)]

\* m is what the merge of s and t has after n turns.
Merging(s, t, n, m) ==
    /\ m \in Merges
    /\ m.p1 \in 1 .. (Len(s) + 1) /\ m.p2 \in 1 .. (Len(t) + 1)
    /\ m.p1 + m.p2 = n + 2 /\ Len(m.out) = n
    /\ Strict(m.out)
    /\ ToSet(m.out) = {s[i] : i \in 1 .. (m.p1 - 1)} \cup {t[i] : i \in 1 .. (m.p2 - 1)}
    /\ m.p1 <= Len(s) => \A k \in 1 .. n : Closer(m.out[k], s[m.p1])
    /\ m.p2 <= Len(t) => \A k \in 1 .. n : Closer(m.out[k], t[m.p2])

\* The lists absorb2 merges.
Mergeable(s, t) ==
    /\ s \in Seq(Cids) /\ Strict(s) /\ t \in Seq(Cids) /\ Strict(t)
    /\ ToSet(s) \cap ToSet(t) = {}

LEMMA MergeStep ==
    ASSUME NEW s, NEW t, Mergeable(s, t), NEW n \in Nat, n < Len(s) + Len(t),
           NEW m, Merging(s, t, n, m)
    PROVE  Merging(s, t, n + 1, MergeTurn(s, t, m))
<1>1. s \in Seq(Cids) /\ Strict(s) /\ t \in Seq(Cids) /\ Strict(t)
  BY DEF Mergeable
<1>2. PICK N \in Nat : N = Len(s) /\ DOMAIN s = 1 .. N /\ \A i \in 1 .. N : s[i] \in Cids
  BY <1>1
<1>3. PICK M \in Nat : M = Len(t) /\ DOMAIN t = 1 .. M /\ \A i \in 1 .. M : t[i] \in Cids
  BY <1>1
<1>4. m \in Merges /\ m.p1 \in Nat /\ m.p2 \in Nat /\ m.out \in Seq(Cids)
  BY DEF Merging, Merges
<1>5. PICK a \in Nat : a = m.p1
  BY <1>4
<1>6. PICK b \in Nat : b = m.p2
  BY <1>4
<1> DEFINE o == m.out
<1>7. /\ a \in 1 .. (N + 1) /\ b \in 1 .. (M + 1) /\ a + b = n + 2
      /\ o \in Seq(Cids) /\ Len(o) = n /\ Strict(o)
      /\ ToSet(o) = {s[i] : i \in 1 .. (a - 1)} \cup {t[i] : i \in 1 .. (b - 1)}
      /\ a <= N => \A k \in 1 .. n : Closer(o[k], s[a])
      /\ b <= M => \A k \in 1 .. n : Closer(o[k], t[b])
  BY <1>2, <1>3, <1>4, <1>5, <1>6 DEF Merging
<1>8. a <= N => a \in 1 .. N /\ a \in DOMAIN s /\ s[a] \in Cids
  BY <1>2, <1>7
<1>9. b <= M => b \in 1 .. M /\ b \in DOMAIN t /\ t[b] \in Cids
  BY <1>3, <1>7
<1>10. a <= N \/ b <= M
  BY <1>2, <1>3, <1>7
<1>11. a <= N /\ b <= M => s[a] # t[b]
  BY <1>8, <1>9 DEF Mergeable, ToSet
<1>12. CASE a > N \/ (b <= M /\ ~Closer(s[a], t[b]))
  <2> DEFINE c == t[b]
             u == Append(o, c)
             e == b + 1
             q == [m EXCEPT !.out = u, !.p2 = e]
  <2>1. b <= M
    BY <1>7, <1>10, <1>12
  <2>2. MergeTurn(s, t, m) = q
    BY <1>2, <1>3, <1>5, <1>6, <1>12 DEF MergeTurn
  <2>3. c \in Cids /\ \A k \in 1 .. Len(o) : Closer(o[k], c)
    BY <1>7, <1>9, <2>1
  <2>4. /\ u \in Seq(Cids) /\ Len(u) = n + 1 /\ Strict(u) /\ ToSet(u) = ToSet(o) \cup {c}
        /\ \A d \in Cids : Closer(c, d) => \A k \in 1 .. (n + 1) : Closer(u[k], d)
    <3> HIDE DEF c
    <3> QED
      BY <1>7, <2>3, AppendStrict
  <2>5. a <= N => Closer(c, s[a])
    BY <1>8, <1>9, <1>11, <1>12, <2>1, CloserIs
  <2>6. e <= M => e \in DOMAIN t /\ t[e] \in Cids /\ Closer(c, t[e])
    <3> SUFFICES ASSUME e <= M PROVE e \in DOMAIN t /\ t[e] \in Cids /\ Closer(c, t[e])
      OBVIOUS
    <3>1. e \in 1 .. M /\ b \in 1 .. M /\ b < e
      BY <1>9, <2>1
    <3> QED
      BY <1>1, <1>3, <3>1 DEF Strict
  <2>7. \A i : i \in 1 .. (e - 1) <=> i \in 1 .. (b - 1) \/ i = b
    BY <1>7
  <2>8. ToSet(u) = {s[i] : i \in 1 .. (a - 1)} \cup {t[i] : i \in 1 .. (e - 1)}
    <3> HIDE DEF u, e
    <3> QED
      BY <1>7, <2>4, <2>7
  <2> HIDE DEF u, c
  <2>9. e \in Nat /\ e = b + 1
    BY <1>6
  <2> HIDE DEF e
  <2>10. q \in Merges /\ q.p1 = a /\ q.p2 = e /\ q.out = u
    BY <1>4, <1>5, <2>4, <2>9 DEF Merges
  <2> HIDE DEF q
  <2>11. a <= N => \A k \in 1 .. (n + 1) : Closer(u[k], s[a])
    BY <1>8, <2>4, <2>5
  <2>12. e <= M => \A k \in 1 .. (n + 1) : Closer(u[k], t[e])
    BY <2>4, <2>6
  <2>13. e \in 1 .. (M + 1) /\ a + e = (n + 1) + 2
    BY <1>7, <2>1, <2>9
  <2>14. Merging(s, t, n + 1, q)
    BY <1>2, <1>3, <1>7, <2>4, <2>8, <2>10, <2>11, <2>12, <2>13 DEF Merging
  <2> QED
    BY <2>2, <2>14
<1>13. CASE ~(a > N \/ (b <= M /\ ~Closer(s[a], t[b])))
  <2> DEFINE c == s[a]
             u == Append(o, c)
             e == a + 1
             q == [m EXCEPT !.out = u, !.p1 = e]
  <2>1. a <= N
    BY <1>13, <1>7
  <2>2. MergeTurn(s, t, m) = q
    BY <1>2, <1>3, <1>5, <1>6, <1>13 DEF MergeTurn
  <2>3. c \in Cids /\ \A k \in 1 .. Len(o) : Closer(o[k], c)
    BY <1>7, <1>8, <2>1
  <2>4. /\ u \in Seq(Cids) /\ Len(u) = n + 1 /\ Strict(u) /\ ToSet(u) = ToSet(o) \cup {c}
        /\ \A d \in Cids : Closer(c, d) => \A k \in 1 .. (n + 1) : Closer(u[k], d)
    <3> HIDE DEF c
    <3> QED
      BY <1>7, <2>3, AppendStrict
  <2>5. b <= M => Closer(c, t[b])
    BY <1>13
  <2>6. e <= N => e \in DOMAIN s /\ s[e] \in Cids /\ Closer(c, s[e])
    <3> SUFFICES ASSUME e <= N PROVE e \in DOMAIN s /\ s[e] \in Cids /\ Closer(c, s[e])
      OBVIOUS
    <3>1. e \in 1 .. N /\ a \in 1 .. N /\ a < e
      BY <1>8, <2>1
    <3> QED
      BY <1>1, <1>2, <3>1 DEF Strict
  <2>7. \A i : i \in 1 .. (e - 1) <=> i \in 1 .. (a - 1) \/ i = a
    BY <1>7
  <2>8. ToSet(u) = {s[i] : i \in 1 .. (e - 1)} \cup {t[i] : i \in 1 .. (b - 1)}
    <3> HIDE DEF u, e
    <3> QED
      BY <1>7, <2>4, <2>7
  <2> HIDE DEF u, c
  <2>9. e \in Nat /\ e = a + 1
    BY <1>5
  <2> HIDE DEF e
  <2>10. q \in Merges /\ q.p1 = e /\ q.p2 = b /\ q.out = u
    BY <1>4, <1>6, <2>4, <2>9 DEF Merges
  <2> HIDE DEF q
  <2>11. b <= M => \A k \in 1 .. (n + 1) : Closer(u[k], t[b])
    BY <1>9, <2>4, <2>5
  <2>12. e <= N => \A k \in 1 .. (n + 1) : Closer(u[k], s[e])
    BY <2>4, <2>6
  <2>13. e \in 1 .. (N + 1) /\ e + b = (n + 1) + 2
    BY <1>7, <2>1, <2>9
  <2>14. Merging(s, t, n + 1, q)
    BY <1>2, <1>3, <1>7, <2>4, <2>8, <2>10, <2>11, <2>12, <2>13 DEF Merging
  <2> QED
    BY <2>2, <2>14
<1> QED
  BY <1>12, <1>13

\* Two positions that have passed as many elements as two lists hold are past their ends.
LEMMA MergeEnds ==
    ASSUME NEW A \in Nat, NEW B \in Nat, NEW p \in 1 .. (A + 1), NEW q \in 1 .. (B + 1),
           p + q = A + B + 2
    PROVE  p - 1 = A /\ q - 1 = B
OBVIOUS

\* The merge of two lists in order has all of both, in order.
LEMMA MergeIs ==
    ASSUME NEW s, NEW t, Mergeable(s, t)
    PROVE  /\ Merge(s, t) \in Seq(Cids) /\ Strict(Merge(s, t))
           /\ ToSet(Merge(s, t)) = ToSet(s) \cup ToSet(t)
<1> DEFINE b0 == [p1 |-> 1, p2 |-> 1, out |-> <<>>]
<1>1. s \in Seq(Cids) /\ Strict(s) /\ t \in Seq(Cids) /\ Strict(t)
  BY DEF Mergeable
<1>2. PICK A \in Nat : A = Len(s) /\ DOMAIN s = 1 .. A
  BY <1>1
<1>3. PICK B \in Nat : B = Len(t) /\ DOMAIN t = 1 .. B
  BY <1>1
<1>4. PICK N \in Nat : N = A + B /\ N = Len(s) + Len(t)
  BY <1>2, <1>3
<1>5. Merging(s, t, 0, b0)
  <2>1. /\ <<>> \in Seq(Cids) /\ Len(<<>>) = 0 /\ 1 .. 0 = {} /\ 1 .. (1 - 1) = {}
        /\ ToSet(<<>>) = {} /\ Strict(<<>>)
    BY DEF ToSet, Strict
  <2>2. b0 \in Merges /\ b0.p1 = 1 /\ b0.p2 = 1 /\ b0.out = <<>>
    BY <2>1 DEF Merges
  <2>3. 1 \in 1 .. (Len(s) + 1) /\ 1 \in 1 .. (Len(t) + 1)
    BY <1>2, <1>3
  <2> HIDE DEF b0
  <2> QED
    BY <2>1, <2>2, <2>3 DEF Merging
<1> HIDE DEF b0
<1> DEFINE d == [i \in 1 .. (Len(s) + Len(t)) |-> i]
           k == <<"merge", s, t>>
<1>6. DOMAIN d = 1 .. N
  BY <1>4
<1> HIDE DEF d
<1>7. PICK g : /\ IsFold(k, b0, d, 1 .. N, g)
               /\ MergeAll(s, t, b0, d) = g[1 .. N]
  BY <1>6, MergeFold
<1>8. k[1] = "merge" /\ k[2] = s /\ k[3] = t
  OBVIOUS
<1> HIDE DEF k
<1>9. g[1 .. 0] = b0 /\ \A n \in 0 .. (N - 1) : g[1 .. (n + 1)] = FoldStep(k, g[1 .. n], d[n + 1])
  BY <1>7, FoldSteps DEF LoopFrom
<1>10. \A n \in 0 .. (N - 1) : g[1 .. (n + 1)] = MergeTurn(s, t, g[1 .. n])
  BY <1>8, <1>9 DEF FoldStep
<1> DEFINE S == {n \in 0 .. N : Merging(s, t, n, g[1 .. n])}
<1>11. 0 \in S
  BY <1>5, <1>9
<1>12. ASSUME NEW n \in 0 .. (N - 1), n \in S PROVE n + 1 \in S
  <2>1. n \in Nat /\ n < Len(s) + Len(t) /\ n + 1 \in 0 .. N
    BY <1>4
  <2>2. Merging(s, t, n, g[1 .. n])
    BY <1>12
  <2>3. Merging(s, t, n + 1, MergeTurn(s, t, g[1 .. n]))
    BY <2>1, <2>2, MergeStep
  <2> QED
    BY <1>10, <2>1, <2>3
<1> HIDE DEF S
<1>13. \A n \in 0 .. N : n \in S
  BY <1>11, <1>12, UpTo
<1>14. Merging(s, t, N, g[1 .. N])
  BY <1>13 DEF S
<1>15. Merge(s, t) = g[1 .. N].out
  BY <1>7 DEF Merge, MergeAll, d, b0
<1> DEFINE m == g[1 .. N]
<1> HIDE DEF m
<1>16. /\ m.out \in Seq(Cids) /\ Strict(m.out)
       /\ m.p1 \in 1 .. (A + 1) /\ m.p2 \in 1 .. (B + 1) /\ m.p1 + m.p2 = N + 2
       /\ ToSet(m.out) = {s[i] : i \in 1 .. (m.p1 - 1)} \cup {t[i] : i \in 1 .. (m.p2 - 1)}
  BY <1>2, <1>3, <1>14 DEF Merging, Merges, m
<1>17. 1 .. (m.p1 - 1) = 1 .. A /\ 1 .. (m.p2 - 1) = 1 .. B
  <2>1. m.p1 + m.p2 = A + B + 2
    BY <1>4, <1>16
  <2>2. m.p1 - 1 = A /\ m.p2 - 1 = B
    BY <1>16, <2>1, MergeEnds
  <2> QED
    BY <2>2
<1>18. ToSet(m.out) = ToSet(s) \cup ToSet(t)
  BY <1>2, <1>3, <1>16, <1>17 DEF ToSet
<1> QED
  BY <1>15, <1>16, <1>18 DEF m

-----------------------------------------------------------------------------
(* The list is sorted, and agrees with the sets *)

SequenceInv ==
    /\ distances \in SUBSET Cids /\ sequence \in Seq(Cids)
    /\ ToSet(sequence) \subseteq distances
    /\ Strict(sequence)

LEMMA SequenceFirst == SequenceInit => SequenceInv
<1> SUFFICES ASSUME SequenceInit PROVE SequenceInv
  OBVIOUS
<1>1. <<>> \in Seq(Cids) /\ ToSet(<<>>) = {} /\ Strict(<<>>)
  BY DEF ToSet, Strict
<1> QED
  BY <1>1 DEF SequenceInit, SequenceInv

\* One call of absorb2 keeps the list in order and does what BlockSets says.
LEMMA AbsorbStep ==
    ASSUME SequenceInv, NEW blks \in Seq(Cids), absorb2(blks)
    PROVE  /\ SequenceInv'
           /\ distances' = AbsorbDistances(distances, blks)
           /\ ToSet(sequence') = AbsorbSequence(distances, ToSet(sequence), blks)
<1> DEFINE r == CollectAll([dist |-> distances, unadd |-> <<>>, stopped |-> FALSE], blks)
           sorted == Sorted(r.unadd)
<1>1. /\ distances \in SUBSET Cids /\ sequence \in Seq(Cids)
      /\ ToSet(sequence) \subseteq distances
      /\ Strict(sequence)
  BY DEF SequenceInv
<1>2. /\ distances' = r.dist
      /\ sequence' = IF r.stopped THEN sequence
                     ELSE IF sequence = <<>> THEN sorted
                     ELSE Merge(sequence, sorted)
  BY DEF absorb2, CollectAll
<1>r. r = CollectAll([dist |-> distances, unadd |-> <<>>, stopped |-> FALSE], blks)
  OBVIOUS
<1> HIDE DEF r
<1>3. /\ r.dist = AbsorbDistances(distances, blks) /\ r.dist \in SUBSET Cids
      /\ r.unadd \in Seq(Cids)
      /\ r.stopped <=> FreshPrefix(distances, blks) # DOMAIN blks
      /\ ~r.stopped => r.unadd = blks
      /\ ToSet(r.unadd) \cap distances = {} /\ ToSet(r.unadd) \subseteq r.dist
      /\ \A i, j \in DOMAIN r.unadd : r.unadd[i] = r.unadd[j] => i = j
  <2>1. Collected(distances, blks, r)
    BY <1>1, <1>r, CollectedIs
  <2> QED
    BY <2>1 DEF Collected
<1>4. sorted \in Seq(Cids) /\ ToSet(sorted) = ToSet(r.unadd) /\ Strict(sorted)
  <2> DEFINE u == r.unadd
  <2> HIDE DEF u
  <2>1. u \in Seq(Cids) /\ \A i, j \in DOMAIN u : u[i] = u[j] => i = j
    BY <1>3 DEF u
  <2>2. Sorted(u) \in Seq(Cids) /\ ToSet(Sorted(u)) = ToSet(u) /\ Strict(Sorted(u))
    BY <2>1, SortedIs
  <2> QED
    BY <2>2 DEF u
<1> HIDE DEF sorted
<1>5. distances \subseteq r.dist
  BY <1>3 DEF AbsorbDistances
<1>6. CASE r.stopped
  <2>1. sequence' = sequence /\ AbsorbSequence(distances, ToSet(sequence), blks) = ToSet(sequence)
    BY <1>2, <1>3, <1>6 DEF AbsorbSequence
  <2> QED
    BY <1>1, <1>2, <1>3, <1>5, <2>1 DEF SequenceInv, Strict, ToSet
<1>7. CASE ~r.stopped
  <2>1. /\ sequence' \in Seq(Cids) /\ Strict(sequence')
        /\ ToSet(sequence') = ToSet(sequence) \cup ToSet(sorted)
    <3>1. CASE sequence = <<>>
      <4>1. ToSet(sequence) = {}
        BY <3>1 DEF ToSet
      <4> QED
        BY <1>2, <1>4, <1>7, <3>1, <4>1
    <3>2. CASE sequence # <<>>
      <4>1. Mergeable(sequence, sorted)
        BY <1>1, <1>3, <1>4 DEF Mergeable
      <4> QED
        BY <1>2, <1>7, <3>2, <4>1, MergeIs
    <3> QED
      BY <3>1, <3>2
  <2>2. ToSet(sequence') = AbsorbSequence(distances, ToSet(sequence), blks)
    <3>1. ToSet(sorted) = {blks[i] : i \in DOMAIN blks}
      BY <1>3, <1>4, <1>7 DEF ToSet
    <3> QED
      BY <1>3, <1>7, <2>1, <3>1 DEF AbsorbSequence
  <2>3. ToSet(sequence') \subseteq r.dist
    BY <1>1, <1>3, <1>4, <1>5, <2>1
  <2>4. SequenceInv'
    BY <1>2, <1>3, <2>1, <2>3 DEF SequenceInv, Strict, ToSet
  <2> QED
    BY <1>2, <1>3, <2>2, <2>4
<1> QED
  BY <1>6, <1>7

-----------------------------------------------------------------------------
(* The two passes of squeeze *)

Requests == [result : Seq(Cids), fetched : Nat, full : BOOLEAN]

\* The blocks of state st among the first k of q, and those of them a pass takes that has
\* place for m blocks.
Met(qs, st, q, k) == {c \in Cids : \E j \in 1 .. k : q[j] = c /\ qs[c] = st}
Taken(qs, st, q, k, m) ==
    {c \in Cids : \E j \in 1 .. k :
        q[j] = c /\ qs[c] = st /\ Cardinality(Met(qs, st, q, j - 1)) < m}

Distinct(t) == \A i, j \in DOMAIN t : t[i] = t[j] => i = j
Place(n, b) == IF b.fetched < n THEN n - b.fetched ELSE 1

\* What a pass with the result b so far may start from.
Started(qs, st, q, b) ==
    /\ b \in Requests /\ ~b.full /\ b.fetched = Len(b.result)
    /\ Distinct(b.result)
    /\ \A c \in ToSet(b.result) : qs[c] # st

\* r is what the pass has after k blocks of q.
Passed(qs, st, n, b, q, k, r) ==
    LET m == Place(n, b)
        x == Cardinality(Met(qs, st, q, k)) IN
    /\ r \in Requests /\ r.fetched = Len(r.result)
    /\ Distinct(r.result)
    /\ ToSet(r.result) = ToSet(b.result) \cup Taken(qs, st, q, k, m)
    /\ IF x < m THEN ~r.full /\ r.fetched = b.fetched + x
       ELSE r.full /\ r.fetched = b.fetched + m

LEMMA MetGrows ==
    ASSUME NEW qs, NEW st, NEW q \in Seq(Cids), Strict(q), NEW k \in Nat, k < Len(q)
    PROVE  /\ Cardinality(Met(qs, st, q, k)) \in Nat
           /\ qs[q[k + 1]] = st =>
                 Cardinality(Met(qs, st, q, k + 1)) = Cardinality(Met(qs, st, q, k)) + 1
           /\ qs[q[k + 1]] # st => Met(qs, st, q, k + 1) = Met(qs, st, q, k)
<1> DEFINE c == q[k + 1]
           S == Met(qs, st, q, k)
<1>1. PICK N \in Nat : N = Len(q) /\ DOMAIN q = 1 .. N /\ \A i \in 1 .. N : q[i] \in Cids
  OBVIOUS
<1>2. k + 1 \in 1 .. N /\ c \in Cids /\ \A j \in 1 .. k : j \in 1 .. N /\ j < k + 1
  BY <1>1
<1>3. \A j : j \in 1 .. (k + 1) <=> j \in 1 .. k \/ j = k + 1
  OBVIOUS
<1>4. IsFiniteSet(S)
  <2>1. S \in SUBSET Cids
    BY DEF Met
  <2> QED
    BY <2>1, DistanceAssumption, FS_Subset
<1>5. c \notin S
  <2> SUFFICES ASSUME NEW j \in 1 .. k, q[j] = c PROVE FALSE
    BY DEF Met
  <2>1. Closer(q[j], c)
    BY <1>1, <1>2 DEF Strict
  <2> QED
    BY <1>2, <2>1, CloserIs
<1>6. qs[c] = st => Met(qs, st, q, k + 1) = S \cup {c}
  BY <1>2, <1>3 DEF Met
<1>7. qs[c] # st => Met(qs, st, q, k + 1) = S
  BY <1>3 DEF Met
<1>8. Cardinality(S \cup {c}) = Cardinality(S) + 1 /\ Cardinality(S) \in Nat
  BY <1>4, <1>5, FS_AddElement, FS_CardinalityType
<1> QED
  BY <1>6, <1>7, <1>8

LEMMA AppendDistinct ==
    ASSUME NEW o \in Seq(Cids), Distinct(o), NEW c \in Cids, c \notin ToSet(o)
    PROVE  /\ Append(o, c) \in Seq(Cids) /\ Len(Append(o, c)) = Len(o) + 1
           /\ Distinct(Append(o, c))
           /\ ToSet(Append(o, c)) = ToSet(o) \cup {c}
<1> DEFINE u == Append(o, c)
<1>1. PICK n \in Nat : n = Len(o) /\ DOMAIN o = 1 .. n /\ \A i \in 1 .. n : o[i] \in Cids
  OBVIOUS
<1>2. /\ u \in Seq(Cids) /\ Len(u) = n + 1 /\ u[n + 1] = c
      /\ \A i \in 1 .. n : u[i] = o[i]
  BY <1>1, AppendProperties
<1> HIDE DEF u
<1>3. DOMAIN u = 1 .. (n + 1) /\ n + 1 \in 1 .. (n + 1)
  BY <1>2
<1>4. \A i : i \in 1 .. (n + 1) <=> i = n + 1 \/ i \in 1 .. n
  OBVIOUS
<1>5. \A i \in 1 .. n : u[i] \in ToSet(o)
  BY <1>1, <1>2 DEF ToSet
<1>6. Distinct(u)
  <2> SUFFICES ASSUME NEW i \in 1 .. (n + 1), NEW j \in 1 .. (n + 1), u[i] = u[j] PROVE i = j
    BY <1>3 DEF Distinct
  <2>1. CASE i = n + 1 \/ j = n + 1
    BY <1>2, <1>4, <1>5, <2>1
  <2>2. CASE i \in 1 .. n /\ j \in 1 .. n
    BY <1>1, <1>2, <2>2 DEF Distinct
  <2> QED
    BY <1>4, <2>1, <2>2
<1>7. ToSet(u) = ToSet(o) \cup {c}
  <2>1. ToSet(u) = {u[i] : i \in 1 .. (n + 1)} /\ ToSet(o) = {o[i] : i \in 1 .. n}
    BY <1>1, <1>3 DEF ToSet
  <2> QED
    BY <1>2, <1>3, <1>4, <2>1
<1> QED
  BY <1>1, <1>2, <1>6, <1>7 DEF u

\* A request that had v blocks and met y more has its n when it met m, the place of its last.
LEMMA FullAtPlace ==
    ASSUME NEW n \in Nat, NEW v \in Nat, NEW m \in Nat, NEW y \in Nat, y >= 1,
           v < n => m = n - v, v >= n => m = 1
    PROVE  v + y >= n <=> ~(y < m)
OBVIOUS

LEMMA PassStep ==
    ASSUME NEW qs, NEW st, NEW n \in Nat, NEW q \in Seq(Cids), Strict(q),
           NEW b, Started(qs, st, q, b), NEW k \in Nat, k < Len(q),
           NEW r, Passed(qs, st, n, b, q, k, r)
    PROVE  Passed(qs, st, n, b, q, k + 1, SqueezeTurn(qs, st, n, r, q[k + 1]))
<1> DEFINE c == q[k + 1]
           m == Place(n, b)
           x == Cardinality(Met(qs, st, q, k))
           y == Cardinality(Met(qs, st, q, k + 1))
           g == SqueezeTurn(qs, st, n, r, q[k + 1])
<1>1. PICK N \in Nat : N = Len(q) /\ DOMAIN q = 1 .. N /\ \A i \in 1 .. N : q[i] \in Cids
  OBVIOUS
<1>2. k + 1 \in 1 .. N /\ c \in Cids /\ (k + 1) - 1 = k
  BY <1>1
<1>3. \A j : j \in 1 .. (k + 1) <=> j \in 1 .. k \/ j = k + 1
  OBVIOUS
<1>4. b \in Requests /\ b.fetched \in Nat /\ ~b.full /\ \A d \in ToSet(b.result) : qs[d] # st
  BY DEF Started, Requests
<1>5. m \in Nat /\ m >= 1 /\ (b.fetched < n => m = n - b.fetched) /\ (b.fetched >= n => m = 1)
  BY <1>4 DEF Place
<1>6. x \in Nat /\ (qs[c] = st => y = x + 1) /\ (qs[c] # st => y = x)
  BY MetGrows
<1> HIDE DEF x, y, m
<1>7. /\ r \in Requests /\ r.result \in Seq(Cids) /\ r.fetched \in Nat /\ r.full \in BOOLEAN
      /\ r.fetched = Len(r.result)
      /\ Distinct(r.result)
      /\ ToSet(r.result) = ToSet(b.result) \cup Taken(qs, st, q, k, m)
      /\ IF x < m THEN ~r.full /\ r.fetched = b.fetched + x
         ELSE r.full /\ r.fetched = b.fetched + m
  BY DEF Passed, Requests, x, m
<1>8. Taken(qs, st, q, k + 1, m) =
         IF qs[c] = st /\ x < m THEN Taken(qs, st, q, k, m) \cup {c} ELSE Taken(qs, st, q, k, m)
  <2>1. \A d : d \in Taken(qs, st, q, k + 1, m) <=>
                 d \in Taken(qs, st, q, k, m) \/ (d = c /\ qs[c] = st /\ x < m)
    BY <1>2, <1>3 DEF Taken, x
  <2> QED
    BY <2>1
<1>9. CASE qs[c] # st
  <2>1. g = r
    BY <1>9 DEF SqueezeTurn
  <2> QED
    BY <1>6, <1>7, <1>8, <1>9, <2>1 DEF Passed, x, y, m
<1>10. CASE qs[c] = st /\ r.full
  <2>1. g = r
    BY <1>10 DEF SqueezeTurn
  <2>2. x >= m /\ y >= m /\ y \in Nat
    BY <1>5, <1>6, <1>7, <1>10
  <2> QED
    BY <1>5, <1>6, <1>7, <1>8, <1>10, <2>1, <2>2 DEF Passed, x, y, m
<1>11. CASE qs[c] = st /\ ~r.full
  <2> DEFINE u == Append(r.result, c)
             e == r.fetched + 1
             f == (e >= n)
  <2>1. x < m /\ r.fetched = b.fetched + x
    BY <1>5, <1>6, <1>7, <1>11
  <2>2. c \notin ToSet(r.result)
    <3>1. c \notin ToSet(b.result)
      BY <1>4, <1>11
    <3>2. c \notin Taken(qs, st, q, k, m)
      <4> SUFFICES ASSUME NEW j \in 1 .. k, q[j] = c PROVE FALSE
        BY DEF Taken
      <4>1. j \in 1 .. N /\ j < k + 1
        BY <1>1
      <4>2. Closer(q[j], c)
        BY <1>1, <1>2, <4>1 DEF Strict
      <4> QED
        BY <1>2, <4>2, CloserIs
    <3> QED
      BY <1>7, <3>1, <3>2
  <2>3. /\ u \in Seq(Cids) /\ Len(u) = Len(r.result) + 1
        /\ Distinct(u) /\ ToSet(u) = ToSet(r.result) \cup {c}
    <3> HIDE DEF c
    <3> QED
      BY <1>2, <1>7, <2>2, AppendDistinct
  <2>4. g = [result |-> u, fetched |-> e, full |-> f]
    BY <1>11 DEF SqueezeTurn
  <2>5. e \in Nat /\ e = b.fetched + y /\ f \in BOOLEAN
    BY <1>4, <1>6, <1>7, <1>11, <2>1
  <2>6. f <=> ~(y < m)
    <3>1. y \in Nat /\ y >= 1
      BY <1>6, <1>11
    <3>2. b.fetched + y >= n <=> ~(y < m)
      BY <1>4, <1>5, <3>1, FullAtPlace
    <3> QED
      BY <2>5, <3>2
  <2>7. y <= m
    BY <1>5, <1>6, <1>11, <2>1
  <2>8. e = Len(u)
    BY <1>7, <2>3
  <2>9. ToSet(u) = ToSet(b.result) \cup Taken(qs, st, q, k + 1, m)
    BY <1>7, <1>8, <1>11, <2>1, <2>3
  <2> HIDE DEF u, e, f
  <2>10. g \in Requests /\ g.result = u /\ g.fetched = e /\ g.full = f
    BY <2>3, <2>4, <2>5 DEF Requests
  <2> HIDE DEF g
  <2>11. IF y < m THEN ~g.full /\ g.fetched = b.fetched + y
         ELSE g.full /\ g.fetched = b.fetched + m
    BY <1>5, <1>6, <1>11, <2>5, <2>6, <2>7, <2>10
  <2>12. Passed(qs, st, n, b, q, k + 1, g)
    BY <2>3, <2>8, <2>9, <2>10, <2>11 DEF Passed, y, m
  <2> QED
    BY <2>12 DEF g
<1> QED
  BY <1>7, <1>9, <1>10, <1>11

\* The blocks a whole pass takes are the nearest of its state.
LEMMA TakenIsNearest ==
    ASSUME NEW qs, NEW st, NEW q \in Seq(Cids), Strict(q), NEW m \in Nat
    PROVE  Taken(qs, st, q, Len(q), m) = Nearest(Owner, {c \in ToSet(q) : qs[c] = st}, m)
<1> DEFINE S == {c \in ToSet(q) : qs[c] = st}
<1>1. PICK N \in Nat : N = Len(q) /\ DOMAIN q = 1 .. N /\ \A i \in 1 .. N : q[i] \in Cids
  OBVIOUS
<1>2. ASSUME NEW j \in 1 .. N
      PROVE  Met(qs, st, q, j - 1) = {d \in S : Distance[Owner][d] < Distance[Owner][q[j]]}
  <2>1. ASSUME NEW i \in 1 .. N PROVE i \in 1 .. (j - 1) <=> Closer(q[i], q[j])
    <3>1. CASE i < j
      BY <1>1, <3>1 DEF Strict
    <3>2. CASE i = j
      BY <1>1, <3>2, CloserIs
    <3>3. CASE i > j
      <4>1. Closer(q[j], q[i])
        BY <1>1, <3>3 DEF Strict
      <4> QED
        BY <1>1, <3>3, <4>1, CloserIs
    <3> QED
      BY <3>1, <3>2, <3>3
  <2>2. \A i \in 1 .. (j - 1) : i \in 1 .. N
    OBVIOUS
  <2>3. \A d : d \in S <=> qs[d] = st /\ \E i \in 1 .. N : q[i] = d
    BY <1>1 DEF ToSet
  <2>4. \A d : d \in Met(qs, st, q, j - 1) <=> qs[d] = st /\ \E i \in 1 .. (j - 1) : q[i] = d
    BY <1>1, <2>2 DEF Met
  <2> HIDE DEF S
  <2>5. \A d : d \in Met(qs, st, q, j - 1) <=> d \in S /\ Closer(d, q[j])
    BY <2>1, <2>2, <2>3, <2>4
  <2> QED
    BY <2>5 DEF Closer
<1>3. \A c : c \in S <=> qs[c] = st /\ \E j \in 1 .. N : q[j] = c
  BY <1>1 DEF ToSet
<1> DEFINE Near(c) == {d \in S : Distance[Owner][d] < Distance[Owner][c]}
<1>4. \A c : c \in Nearest(Owner, S, m) <=> c \in S /\ Cardinality(Near(c)) < m
  BY DEF Nearest
<1>5. \A j \in 1 .. N : Met(qs, st, q, j - 1) = Near(q[j])
  BY <1>2
<1> HIDE DEF S, Near
<1>6. \A c : c \in Taken(qs, st, q, N, m) <=> c \in S /\ Cardinality(Near(c)) < m
  <2> TAKE c
  <2>1. c \in Taken(qs, st, q, N, m) <=>
           \E j \in 1 .. N : q[j] = c /\ qs[c] = st /\ Cardinality(Met(qs, st, q, j - 1)) < m
    BY <1>1 DEF Taken
  <2>2. \A j \in 1 .. N : q[j] = c => Met(qs, st, q, j - 1) = Near(c)
    BY <1>5
  <2> QED
    BY <1>3, <2>1, <2>2
<1>7. Taken(qs, st, q, N, m) = Nearest(Owner, S, m)
  BY <1>4, <1>6
<1> QED
  BY <1>1, <1>7 DEF S

\* r is what a pass makes of b.
PassGives(qs, st, n, b, q, r) ==
    /\ r \in Requests /\ r.fetched = Len(r.result) /\ Distinct(r.result)
    /\ ToSet(r.result) = ToSet(b.result)
          \cup Nearest(Owner, {c \in ToSet(q) : qs[c] = st}, Place(n, b))
    /\ r.fetched <= b.fetched + Place(n, b)

LEMMA PassIs ==
    ASSUME NEW qs, NEW st, NEW n \in Nat, NEW q \in Seq(Cids), Strict(q),
           NEW b, Started(qs, st, q, b)
    PROVE  PassGives(qs, st, n, b, q, Pass(qs, st, n, b, q))
<1> DEFINE m == Place(n, b)
<1>1. PICK N \in Nat : N = Len(q) /\ DOMAIN q = 1 .. N
  OBVIOUS
<1>2. b \in Requests /\ b.fetched \in Nat /\ ~b.full /\ b.fetched = Len(b.result) /\ Distinct(b.result)
  BY DEF Started, Requests
<1>3. m \in Nat /\ m >= 1
  BY <1>2 DEF Place
<1>4. Passed(qs, st, n, b, q, 0, b)
  <2>1. Met(qs, st, q, 0) = {} /\ Taken(qs, st, q, 0, m) = {}
    BY DEF Met, Taken
  <2>2. Cardinality(Met(qs, st, q, 0)) = 0
    BY <2>1, FS_EmptySet
  <2> HIDE DEF m
  <2>3. 0 < m /\ b.fetched = b.fetched + 0
    BY <1>2, <1>3
  <2> QED
    BY <1>2, <2>1, <2>2, <2>3 DEF Passed, m
<1> HIDE DEF m
<1> DEFINE k == <<"squeeze", qs, st, n>>
<1>5. PICK g : IsFold(k, b, q, 1 .. N, g) /\ Pass(qs, st, n, b, q) = g[1 .. N]
  BY <1>1, PassFold
<1>6. k[1] = "squeeze" /\ k[2] = qs /\ k[3] = st /\ k[4] = n
  OBVIOUS
<1> HIDE DEF k
<1>7. g[1 .. 0] = b /\ \A i \in 0 .. (N - 1) : g[1 .. (i + 1)] = FoldStep(k, g[1 .. i], q[i + 1])
  <2>1. LoopFrom(k, b, q, N, g)
    BY <1>5, FoldSteps
  <2> QED
    BY <2>1 DEF LoopFrom
<1>8. \A i \in 0 .. (N - 1) : g[1 .. (i + 1)] = SqueezeTurn(qs, st, n, g[1 .. i], q[i + 1])
  BY <1>6, <1>7 DEF FoldStep
<1> DEFINE S == {i \in 0 .. N : Passed(qs, st, n, b, q, i, g[1 .. i])}
<1>9. 0 \in S
  BY <1>4, <1>7
<1>10. ASSUME NEW i \in 0 .. (N - 1), i \in S PROVE i + 1 \in S
  <2>1. i \in Nat /\ i < Len(q) /\ i + 1 \in 0 .. N
    BY <1>1
  <2>2. Passed(qs, st, n, b, q, i, g[1 .. i])
    BY <1>10
  <2>3. Passed(qs, st, n, b, q, i + 1, SqueezeTurn(qs, st, n, g[1 .. i], q[i + 1]))
    BY <2>1, <2>2, PassStep
  <2> QED
    BY <1>8, <2>1, <2>3
<1> HIDE DEF S
<1>11. \A i \in 0 .. N : i \in S
  BY <1>9, <1>10, UpTo
<1>12. Passed(qs, st, n, b, q, N, g[1 .. N])
  BY <1>11 DEF S
<1> DEFINE r == g[1 .. N]
<1> HIDE DEF r
<1>13. /\ r \in Requests /\ r.fetched = Len(r.result) /\ Distinct(r.result)
       /\ ToSet(r.result) = ToSet(b.result) \cup Taken(qs, st, q, N, m)
  BY <1>12 DEF Passed, r, m
<1>14. Taken(qs, st, q, N, m) = Nearest(Owner, {c \in ToSet(q) : qs[c] = st}, m)
  BY <1>1, <1>3, TakenIsNearest
<1>15. r.fetched <= b.fetched + m
  <2> DEFINE x == Cardinality(Met(qs, st, q, N))
  <2>1. x \in Nat
    <3>1. Met(qs, st, q, N) \in SUBSET Cids
      BY DEF Met
    <3> QED
      BY <3>1, DistanceAssumption, FS_Subset, FS_CardinalityType
  <2>2. IF x < m THEN r.fetched = b.fetched + x ELSE r.fetched = b.fetched + m
    BY <1>12 DEF Passed, r, m
  <2> HIDE DEF x
  <2> QED
    BY <1>2, <1>3, <2>1, <2>2
<1> QED
  BY <1>5, <1>13, <1>14, <1>15 DEF PassGives, r, m

Found(qs, st) == {c \in ToSet(sequence) : qs[c] = st}

LEMMA SqueezeIs ==
    ASSUME SequenceInv, NEW qs, NEW n \in Nat
    PROVE  LET empties == Nearest(Owner, Found(qs, "Empty"), IF n = 0 THEN 1 ELSE n)
               rest    == n - Cardinality(empties)
               got     == squeeze(qs, n)
           IN /\ ToSet(got) = empties \cup (IF rest > 0 THEN Nearest(Owner, Found(qs, "Pending"), rest)
                                            ELSE {})
              /\ Len(got) = Cardinality(ToSet(got))
              /\ got \in Seq(Cids) /\ Len(got) <= IF n = 0 THEN 1 ELSE n
<1> DEFINE b == [result |-> <<>>, fetched |-> 0, full |-> FALSE]
           first == Pass(qs, "Empty", n, b, sequence)
           again == [first EXCEPT !.full = FALSE]
           second == Pass(qs, "Pending", n, again, sequence)
           empties == Nearest(Owner, Found(qs, "Empty"), IF n = 0 THEN 1 ELSE n)
           rest == n - Cardinality(empties)
           got == squeeze(qs, n)
<1>1. got = IF first.fetched < n THEN second.result ELSE first.result
  BY DEF squeeze, Pass
<1>2. sequence \in Seq(Cids) /\ Strict(sequence)
  BY DEF SequenceInv
<1>3. Started(qs, "Empty", sequence, b) /\ b.fetched = 0 /\ b.result = <<>>
  <2>1. <<>> \in Seq(Cids) /\ Len(<<>>) = 0 /\ ToSet(<<>>) = {} /\ Distinct(<<>>)
    BY DEF ToSet, Distinct
  <2>2. b \in Requests
    BY <2>1 DEF Requests
  <2> QED
    BY <2>1, <2>2 DEF Started
<1> HIDE DEF b, got
<1>4. Place(n, b) = IF n = 0 THEN 1 ELSE n
  BY <1>3 DEF Place
<1>5. /\ first \in Requests /\ first.fetched = Len(first.result) /\ Distinct(first.result)
      /\ ToSet(first.result) = ToSet(b.result) \cup empties
      /\ first.fetched <= IF n = 0 THEN 1 ELSE n
  <2>1. PassGives(qs, "Empty", n, b, sequence, first)
    BY <1>2, <1>3, PassIs
  <2> HIDE DEF first
  <2> QED
    BY <1>3, <1>4, <2>1 DEF Found, PassGives
<1> HIDE DEF first
<1>6. /\ first.result \in Seq(Cids) /\ first.fetched \in Nat /\ ToSet(first.result) = empties
  BY <1>3, <1>5 DEF Requests, ToSet
<1>7. Cardinality(empties) = first.fetched
  BY <1>5, <1>6, CardinalityOfDistinct DEF Distinct
<1>8. CASE first.fetched < n
  <2>1. again \in Requests /\ again.result = first.result /\ again.fetched = first.fetched /\ ~again.full
    BY <1>5 DEF Requests
  <2> HIDE DEF again
  <2>2. \A c \in empties : qs[c] # "Pending"
    BY DEF Nearest, Found
  <2>3. Started(qs, "Pending", sequence, again)
    <3> HIDE DEF empties
    <3> QED
      BY <1>5, <1>6, <2>1, <2>2 DEF Started
  <2>4. Place(n, again) = rest /\ rest > 0
    <3> HIDE DEF empties
    <3> QED
      BY <1>6, <1>7, <1>8, <2>1 DEF Place
  <2>5. /\ second \in Requests /\ second.fetched = Len(second.result) /\ Distinct(second.result)
        /\ ToSet(second.result) = ToSet(again.result) \cup Nearest(Owner, Found(qs, "Pending"), rest)
        /\ second.fetched <= again.fetched + rest
    <3>1. PassGives(qs, "Pending", n, again, sequence, second)
      BY <1>2, <2>3, PassIs
    <3> HIDE DEF empties, rest, second
    <3> QED
      BY <2>4, <3>1 DEF Found, PassGives
  <2> HIDE DEF second
  <2>6. second.result \in Seq(Cids)
    BY <2>5 DEF Requests
  <2>7. Cardinality(ToSet(second.result)) = Len(second.result)
    BY <2>5, <2>6, CardinalityOfDistinct DEF Distinct
  <2> HIDE DEF empties, rest
  <2>8. /\ ToSet(got) = empties \cup (IF rest > 0 THEN Nearest(Owner, Found(qs, "Pending"), rest)
                                            ELSE {})
        /\ Len(got) = Cardinality(ToSet(got))
    BY <1>1, <1>6, <1>8, <2>1, <2>4, <2>5, <2>7
  <2>9. second.fetched <= n
    <3>1. rest = n - first.fetched
      BY <1>7 DEF rest
    <3> QED
      BY <1>6, <2>1, <2>5, <3>1 DEF Requests
  <2>10. got \in Seq(Cids) /\ Len(got) <= IF n = 0 THEN 1 ELSE n
    BY <1>1, <1>6, <1>8, <2>5, <2>6, <2>9
  <2> QED
    BY <2>8, <2>10 DEF empties, rest, got
<1>9. CASE ~(first.fetched < n)
  <2>1. ~(rest > 0)
    <3> HIDE DEF empties
    <3> QED
      BY <1>6, <1>7, <1>9
  <2> HIDE DEF empties, rest
  <2>2. /\ ToSet(got) = empties \cup (IF rest > 0 THEN Nearest(Owner, Found(qs, "Pending"), rest)
                                            ELSE {})
        /\ Len(got) = Cardinality(ToSet(got))
    BY <1>1, <1>5, <1>6, <1>7, <1>9, <2>1
  <2>3. got \in Seq(Cids) /\ Len(got) <= IF n = 0 THEN 1 ELSE n
    BY <1>1, <1>5, <1>6, <1>9
  <2> QED
    BY <2>2, <2>3 DEF empties, rest, got
<1> QED
  BY <1>8, <1>9

LEMMA SequenceStep == SequenceInv /\ [SequenceNext]_lists => SequenceInv'
<1> SUFFICES ASSUME SequenceInv, [SequenceNext]_lists PROVE SequenceInv'
  OBVIOUS
<1>1. CASE SequenceNext
  <2>1. PICK blks \in Batches : absorb2(blks)
    BY <1>1 DEF SequenceNext
  <2>2. blks \in Seq(Cids)
    BY BatchesAssumption
  <2> QED
    BY <2>1, <2>2, AbsorbStep
<1>2. CASE UNCHANGED lists
  BY <1>2 DEF lists, SequenceInv, Strict, ToSet
<1> QED
  BY <1>1, <1>2

\* For any blocks, distances and calls of absorb2: the list of a worker stays sorted by
\* distance and names no block twice (worker.go:113-174).
THEOREM ListStaysSorted == SequenceSpec => []SequenceSorted
<1>1. SequenceInv => SequenceSorted
  BY DEF SequenceInv, Strict, SequenceSorted
<1> QED
  BY <1>1, SequenceFirst, SequenceStep, PTL DEF SequenceSpec

\* For any blocks, block table and batch size: a request is the nearest Empty blocks of
\* the list, then the nearest Pending ones, up to its size (worker.go:237-276).
THEOREM SqueezeTakesNearest == SequenceSpec => []SqueezeAgrees
<1>1. SequenceInv => SqueezeAgrees
  <2> SUFFICES ASSUME SequenceInv,
                      NEW queryState \in [Cids -> {"Empty", "Pending", "Filled"}],
                      NEW n \in 0 .. Cardinality(Cids)
               PROVE  LET S(s)    == {c \in ToSet(sequence) : queryState[c] = s}
                          empties == Nearest(Owner, S("Empty"), IF n = 0 THEN 1 ELSE n)
                          rest    == n - Cardinality(empties)
                          got     == squeeze(queryState, n)
                      IN /\ ToSet(got) = empties \cup (IF rest > 0 THEN Nearest(Owner, S("Pending"), rest)
                                                       ELSE {})
                         /\ Len(got) = Cardinality(ToSet(got))
    BY DEF SqueezeAgrees
  <2>1. n \in Nat
    BY DistanceAssumption, FS_CardinalityType
  <2> QED
    BY <2>1, SqueezeIs DEF Found
<1> QED
  BY <1>1, SequenceFirst, SequenceStep, PTL DEF SequenceSpec

\* For any blocks, distances and batches: a call of absorb2 adds to the distances and to
\* the list what the sets of Dispatcher say (worker.go:113-174).
THEOREM AbsorbImplements == SequenceSpec => AbsorbAgrees
<1>1. ASSUME SequenceInv, [SequenceNext]_lists
      PROVE [\A blks \in Batches : absorb2(blks) =>
                /\ distances' = AbsorbDistances(distances, blks)
                /\ ToSet(sequence') = AbsorbSequence(distances, ToSet(sequence), blks)]_lists
  BY <1>1, BatchesAssumption, AbsorbStep
<1>2. SequenceSpec => []SequenceInv
  BY SequenceFirst, SequenceStep, PTL DEF SequenceSpec
<1> QED
  BY <1>1, <1>2, PTL DEF SequenceSpec, AbsorbAgrees
-----------------------------------------------------------------------------
(* The worker *)

\* The worker keeps the invariant of its lists and the one of its adjuster, and
\* an L within its bound.
WorkerInv == SequenceInv /\ AdjusterInv

\* A request is never empty and has at most L blocks, one if L is 0: a round of
\* the worker is one of the rounds Adjust5 is specified for.
LEMMA RoundIsNext == WorkerInv /\ Round => Next
<1> SUFFICES ASSUME WorkerInv, Round PROVE Next
  OBVIOUS
<1>1. PICK total \in TotalRequests :
         \E numOfRequest \in 0 .. total : \E d \in Durations : Adjust5(total, numOfRequest, d)
  BY DEF Round
<1>2. PICK numOfRequest \in 0 .. total, d \in Durations : Adjust5(total, numOfRequest, d)
  BY <1>1
<1>3. L \in 0 .. MaxBatch /\ MaxBatch \in Nat \ {0}
  BY MaxBatchAssumption DEF WorkerInv, AdjusterInv, InitRequestBlkNumber
<1>4. PICK queryState \in Tables : total = Len(squeeze(queryState, L)) /\ total # 0
  BY <1>1 DEF TotalRequests
<1>5. Len(squeeze(queryState, L)) <= IF L = 0 THEN 1 ELSE L
  BY <1>3, SqueezeIs DEF WorkerInv
<1>6. total \in Nat
  <2>1. squeeze(queryState, L) \in Seq(Cids)
    BY <1>3, SqueezeIs DEF WorkerInv
  <2> QED
    BY <1>4, <2>1
<1>7. total \in 1 .. MaxBatch /\ numOfRequest \in 0 .. MaxBatch /\ numOfRequest <= total
  BY <1>3, <1>4, <1>5, <1>6, <1>2
<1>8. <<total, numOfRequest>> \in Rounds
  BY <1>7 DEF Rounds
<1> QED
  BY <1>8, <1>2 DEF Next

LEMMA WorkerStep ==
    WorkerInv /\ [WorkerNext]_worker => WorkerInv' /\ [Next]_vars /\ [SequenceNext]_lists
<1> SUFFICES ASSUME WorkerInv, [WorkerNext]_worker
             PROVE  WorkerInv' /\ [Next]_vars /\ [SequenceNext]_lists
  OBVIOUS
<1>1. [Next]_vars /\ [SequenceNext]_lists
  <2>1. CASE Absorb
    BY <2>1 DEF Absorb
  <2>2. CASE Round
    BY <2>2, RoundIsNext DEF Round
  <2>3. CASE UNCHANGED worker
    BY <2>3 DEF worker
  <2> QED
    BY <2>1, <2>2, <2>3 DEF WorkerNext
<1> QED
  BY <1>1, SequenceStep, AdjusterStep DEF WorkerInv

\* A worker implements the specifications its two parts are checked and proved
\* against: whatever the lists hold, every round asks for at most L blocks, so
\* that all theorems above hold of it (run, worker.go:303-405).
THEOREM WorkerIsBoth == WorkerSpec => SequenceSpec /\ Spec
<1>1. WorkerInit => WorkerInv
  BY SequenceFirst, AdjusterInit DEF WorkerInit, WorkerInv
<1>2. WorkerInit => SequenceInit /\ Init
  BY DEF WorkerInit
<1> QED
  BY <1>1, <1>2, WorkerStep, PTL DEF WorkerSpec, SequenceSpec, Spec

\* In a worker, too, the list stays in order, squeeze takes the nearest blocks and
\* the time-out follows the empty rounds.
THEOREM WorkerKeepsOrder == WorkerSpec => [](SequenceSorted /\ SqueezeAgrees /\ TolerateFollowsMisses)
  BY WorkerIsBoth, ListStaysSorted, SqueezeTakesNearest, TimeoutFollowsMisses, PTL
==============================================================================
