---------------------- MODULE PeerResponseHistoryProofs ----------------------
(***************************************************************************)
(* PeerResponseHistory for any peers, goroutines, times and sizes of the   *)
(* cache, and any number of runs and updates: the average, whose time is   *)
(* whose, and what a restart remembers.                                    *)
(***************************************************************************)
EXTENDS PeerResponseHistory, FiniteSetTheorems, SequenceTheorems, WellFoundedInduction, TLAPS

-----------------------------------------------------------------------------
(* The average *)

Averages == Nat \X (Nat \ {0})
Steps == {"none", "load", "count", "inc", "store"}
Updates == [step : Steps, dur : Nat, avg : Averages, cnt : Nat]

MeanType ==
    /\ avgTime \in Averages /\ updateCnt \in Nat
    /\ upd \in [Routines -> Updates]
    /\ sums \in Nat \X Nat \X Nat
    /\ overlap \in BOOLEAN

\* No time and no average that is about to be stored is above the slowest answer.
MeanBelow ==
    /\ avgTime[1] <= sums[3] * avgTime[2]
    /\ \A g \in Routines :
          upd[g].dur <= sums[3] /\ upd[g].avg[1] <= sums[3] * upd[g].avg[2]

\* The mean of n answers that add up to s.
IsMean(avg, n, s) == avg[1] * n = s * avg[2]

\* g added its answer, and will update the mean of the others.
Updating(g) ==
    LET before == sums[2] - upd[g].dur IN
    /\ sums[1] > 0 /\ upd[g].dur <= sums[2]
    /\ upd[g].step \in {"load", "count", "inc"} =>
          updateCnt = sums[1] - 1 /\ IsMean(avgTime, updateCnt, before)
    /\ upd[g].step \in {"count", "inc"} => upd[g].avg = avgTime
    /\ upd[g].step = "inc" => upd[g].cnt = updateCnt
    /\ upd[g].step = "store" =>
          updateCnt = sums[1] /\ upd[g].cnt = sums[1] - 1 /\ IsMean(upd[g].avg, upd[g].cnt, before)

\* Updates that do not overlap come one after the other.
MeanExact ==
    ~overlap =>
        /\ Quiet => updateCnt = sums[1] /\ IsMean(avgTime, sums[1], sums[2])
        /\ \A g \in Routines : upd[g].step # "none" =>
              /\ Updating(g)
              /\ \A o \in Routines \ {g} : upd[o].step = "none"

MeanInv == MeanType /\ MeanBelow /\ MeanExact

-----------------------------------------------------------------------------
(* Arithmetic *)

LEMMA MaxIs ==
    ASSUME NEW a \in Nat, NEW b \in Nat
    PROVE  Max({a, b}) \in Nat /\ Max({a, b}) >= a /\ Max({a, b}) >= b
<1>1. \E x \in {a, b} : \A y \in {a, b} : x >= y
  OBVIOUS
<1>2. Max({a, b}) \in {a, b} /\ \A y \in {a, b} : Max({a, b}) >= y
  BY <1>1 DEF Max
<1> QED
  BY <1>2

LEMMA TimesMonotone ==
    ASSUME NEW a \in Nat, NEW b \in Nat, NEW c \in Nat, a <= b
    PROVE  a * c \in Nat /\ b * c \in Nat /\ a * c <= b * c /\ c * a = a * c
  OBVIOUS

\* What Weighted returns is an average, and below what its parts are below.
LEMMA WeightedBelow ==
    ASSUME NEW avg \in Averages, NEW cnt \in Nat, NEW tm \in Nat, NEW m \in Nat,
           avg[1] <= m * avg[2], tm <= m
    PROVE  /\ Weighted(avg, cnt, tm) \in Averages
           /\ Weighted(avg, cnt, tm)[1] <= m * Weighted(avg, cnt, tm)[2]
<1>1. PICK n \in Nat, d \in Nat \ {0} : avg[1] = n /\ avg[2] = d
  BY DEF Averages
<1>2. Weighted(avg, cnt, tm) = <<n * cnt + tm * d, d * (cnt + 1)>>
  BY <1>1 DEF Weighted
<1>3. n * cnt \in Nat /\ tm * d \in Nat /\ m * d \in Nat /\ (m * d) * cnt \in Nat
      /\ n * cnt <= (m * d) * cnt /\ tm * d <= m * d
  BY <1>1, TimesMonotone
<1>4. d * (cnt + 1) \in Nat \ {0}
  OBVIOUS
<1>5. m * (d * (cnt + 1)) = (m * d) * cnt + m * d
  OBVIOUS
<1> QED
  BY <1>2, <1>3, <1>4, <1>5 DEF Averages

\* The mean of cnt answers and one more.
LEMMA WeightedMean ==
    ASSUME NEW avg \in Averages, NEW cnt \in Nat, NEW tm \in Nat, NEW s \in Nat,
           tm <= s, IsMean(avg, cnt, s - tm)
    PROVE  IsMean(Weighted(avg, cnt, tm), cnt + 1, s)
<1>1. PICK n \in Nat, d \in Nat \ {0} : avg[1] = n /\ avg[2] = d
  BY DEF Averages
<1>2. Weighted(avg, cnt, tm) = <<n * cnt + tm * d, d * (cnt + 1)>>
  BY <1>1 DEF Weighted
<1>3. n * cnt = (s - tm) * d
  BY <1>1 DEF IsMean
<1>4. (s - tm) * d + tm * d = s * d
  OBVIOUS
<1>5. (s * d) * (cnt + 1) = s * (d * (cnt + 1))
  OBVIOUS
<1>6. n * cnt + tm * d = s * d
  BY <1>3, <1>4
<1> QED
  BY <1>2, <1>5, <1>6 DEF IsMean

-----------------------------------------------------------------------------
(* The invariant *)

LEMMA UpdFields ==
    ASSUME MeanType, NEW g \in Routines
    PROVE  /\ upd[g].step \in Steps /\ upd[g].dur \in Nat
           /\ upd[g].avg \in Averages /\ upd[g].cnt \in Nat
  BY DEF MeanType, Updates

LEMMA NoCallFields ==
    /\ NoCall \in Updates
    /\ NoCall.step = "none" /\ NoCall.dur = 0 /\ NoCall.cnt = 0
    /\ NoCall.avg = <<0, 1>> /\ NoCall.avg[1] = 0 /\ NoCall.avg[2] = 1
    /\ <<0, 1>> \in Averages
  BY DEF NoCall, Updates, Steps, Averages

\* A run that starts, or is over.
LEMMA MeanFresh ==
    ASSUME avgTime = <<0, 1>>, updateCnt = 0, upd = [g \in Routines |-> NoCall],
           sums = <<0, 0, 0>>, overlap = FALSE
    PROVE  MeanInv
<1>1. MeanType
  BY NoCallFields DEF MeanType
<1>2. MeanBelow
  BY NoCallFields DEF MeanBelow
<1>3. MeanExact
  BY NoCallFields DEF MeanExact, IsMean
<1> QED
  BY <1>1, <1>2, <1>3 DEF MeanInv

LEMMA MeanFreshNext ==
    ASSUME avgTime' = <<0, 1>>, updateCnt' = 0, upd' = [g \in Routines |-> NoCall],
           sums' = <<0, 0, 0>>, overlap' = FALSE
    PROVE  MeanInv'
<1>1. MeanType'
  BY NoCallFields DEF MeanType
<1>2. MeanBelow'
  BY NoCallFields DEF MeanBelow
<1>3. MeanExact'
  BY NoCallFields DEF MeanExact, IsMean, Quiet
<1> QED
  BY <1>1, <1>2, <1>3 DEF MeanInv

LEMMA MeanUpdateAdd ==
    ASSUME HistoryAssumption, MeanInv, NEW g \in Routines, NEW p \in Peers, NEW tm \in Durs,
           UpdateAdd(g, p, tm)
    PROVE  MeanInv'
<1> USE DEF MeanInv
<1>0. PICK n \in Nat, s \in Nat, m \in Nat : sums = <<n, s, m>>
  BY DEF MeanType
<1>1. tm \in Nat
  BY DEF HistoryAssumption
<1> DEFINE big == Max({m, tm})  new == [NoCall EXCEPT !.step = "load", !.dur = tm]
<1>2. big \in Nat /\ big >= m /\ big >= tm
  BY <1>0, <1>1, MaxIs
<1>3. sums' = <<n + 1, s + tm, big>>
  BY <1>0 DEF UpdateAdd
<1>4. new \in Updates /\ new.step = "load" /\ new.dur = tm /\ new.avg = <<0, 1>>
  <2>1. /\ NoCall \in [step : Steps, dur : Nat, avg : Averages, cnt : Nat]
        /\ NoCall.avg = <<0, 1>> /\ "load" \in Steps
    BY NoCallFields DEF Updates, Steps
  <2> QED
    BY <1>1, <2>1 DEF Updates
<1> HIDE DEF big, new
<1>5. upd' = [upd EXCEPT ![g] = new] /\ avgTime' = avgTime /\ updateCnt' = updateCnt
      /\ upd[g].step = "none"
  BY DEF UpdateAdd, new
<1>6. upd \in [Routines -> Updates]
  BY DEF MeanType
<1>7. /\ upd'[g] = new
      /\ \A o \in Routines \ {g} : upd'[o] = upd[o]
  BY <1>5, <1>6
<1>8. MeanType'
  <2>1. overlap' \in BOOLEAN
    BY DEF UpdateAdd, MeanType
  <2>2. sums' \in Nat \X Nat \X Nat
    BY <1>0, <1>1, <1>2, <1>3
  <2>3. upd' \in [Routines -> Updates]
    BY <1>4, <1>5, <1>6
  <2> QED
    BY <1>5, <2>1, <2>2, <2>3 DEF MeanType
<1>9. MeanBelow'
  <2>1. \A a \in Averages : a[1] <= m * a[2] => a[1] <= big * a[2]
    <3> TAKE a \in Averages
    <3>1. a[1] \in Nat /\ a[2] \in Nat
      BY DEF Averages
    <3>2. m * a[2] <= big * a[2] /\ m * a[2] \in Nat /\ big * a[2] \in Nat
      BY <3>1, <1>0, <1>2, TimesMonotone
    <3> QED
      BY <3>1, <3>2
  <2>2. avgTime'[1] <= sums'[3] * avgTime'[2]
    BY <2>1, <1>0, <1>3, <1>5 DEF MeanBelow, MeanType
  <2>3. ASSUME NEW o \in Routines
        PROVE  upd'[o].dur <= sums'[3] /\ upd'[o].avg[1] <= sums'[3] * upd'[o].avg[2]
    <3>1. CASE o = g
      BY <3>1, <1>2, <1>3, <1>4, <1>7
    <3>2. CASE o # g
      <4>1. upd'[o] = upd[o] /\ upd[o].dur <= m /\ upd[o].avg[1] <= m * upd[o].avg[2]
        BY <3>2, <1>0, <1>7 DEF MeanBelow
      <4>2. upd[o].dur \in Nat /\ upd[o].avg \in Averages
        BY UpdFields
      <4>3. upd[o].dur <= big
        BY <4>1, <4>2, <1>0, <1>2
      <4> QED
        BY <4>1, <4>2, <4>3, <2>1, <1>3
    <3> QED
      BY <3>1, <3>2
  <2> QED
    BY <2>2, <2>3 DEF MeanBelow
<1>10. MeanExact'
  <2> SUFFICES ASSUME ~overlap'
               PROVE  /\ ~Quiet'
                      /\ \A o \in Routines : upd'[o].step # "none" =>
                            Updating(o)' /\ \A q \in Routines \ {o} : upd'[q].step = "none"
    BY DEF MeanExact
  <2>1. ~overlap /\ \A o \in Routines : upd[o].step = "none"
    BY DEF UpdateAdd, MeanType
  <2>2. updateCnt = n /\ IsMean(avgTime, n, s)
    BY <2>1, <1>0 DEF MeanExact, Quiet
  <2>3. \A o \in Routines \ {g} : upd'[o].step = "none"
    BY <2>1, <1>7
  <2>4. Updating(g)'
    <3>1. (s + tm) - tm = s /\ (n + 1) - 1 = n /\ n + 1 > 0 /\ tm <= s + tm
      BY <1>0, <1>1
    <3>2. IsMean(avgTime', updateCnt', sums'[2] - upd'[g].dur)
      BY <3>1, <2>2, <1>3, <1>4, <1>5, <1>7
    <3> QED
      BY <3>1, <3>2, <2>2, <1>3, <1>4, <1>5, <1>7 DEF Updating
  <2>5. ~Quiet'
    BY <1>4, <1>7 DEF Quiet
  <2> QED
    BY <2>3, <2>4, <2>5
<1> QED
  BY <1>8, <1>9, <1>10

\* A step of a call that keeps the average and the answers.
LEMMA MeanCallStep ==
    ASSUME MeanInv, NEW g \in Routines, NEW new \in Updates,
           upd' = [upd EXCEPT ![g] = new], upd[g].step # "none", new.step # "none",
           new.dur = upd[g].dur, new.avg[1] <= sums[3] * new.avg[2],
           avgTime' = avgTime, updateCnt' \in Nat, sums' = sums, overlap' = overlap,
           ~overlap /\ Updating(g) => Updating(g)'
    PROVE  MeanInv'
<1> USE DEF MeanInv
<1>1. upd \in [Routines -> Updates]
  BY DEF MeanType
<1>2. upd'[g] = new /\ \A o \in Routines \ {g} : upd'[o] = upd[o]
  BY <1>1
<1>3. MeanType'
  BY <1>1 DEF MeanType
<1>4. MeanBelow'
  BY <1>2 DEF MeanBelow
<1>5. MeanExact'
  <2> SUFFICES ASSUME ~overlap
               PROVE  /\ ~Quiet'
                      /\ \A o \in Routines : upd'[o].step # "none" =>
                            Updating(o)' /\ \A q \in Routines \ {o} : upd'[q].step = "none"
    BY DEF MeanExact
  <2>1. Updating(g) /\ \A o \in Routines \ {g} : upd[o].step = "none"
    BY DEF MeanExact
  <2>2. \A o \in Routines \ {g} : upd'[o].step = "none"
    BY <2>1, <1>2
  <2>3. ~Quiet'
    BY <1>2 DEF Quiet
  <2> QED
    BY <2>1, <2>2, <2>3
<1> QED
  BY <1>3, <1>4, <1>5

LEMMA MeanStoreAvg ==
    ASSUME MeanInv, NEW g \in Routines, StoreAvg(g)
    PROVE  MeanInv'
<1> USE DEF MeanInv
<1>0. PICK n \in Nat, s \in Nat, m \in Nat : sums = <<n, s, m>>
  BY DEF MeanType
<1> DEFINE avg == upd[g].avg  cnt == upd[g].cnt  tm == upd[g].dur
           new == Weighted(avg, cnt, tm)
<1>1. avg \in Averages /\ cnt \in Nat /\ tm \in Nat /\ avg[1] <= m * avg[2] /\ tm <= m
  BY <1>0, UpdFields DEF MeanBelow
<1>2. upd[g].step = "store" /\ avgTime' = new /\ upd' = [upd EXCEPT ![g] = NoCall]
      /\ updateCnt' = updateCnt /\ sums' = sums /\ overlap' = overlap
  BY DEF StoreAvg
<1>3. ~overlap => /\ updateCnt = n /\ cnt = n - 1 /\ IsMean(avg, cnt, s - tm) /\ n > 0 /\ tm <= s
                  /\ \A o \in Routines \ {g} : upd[o].step = "none"
  BY <1>0, <1>2 DEF MeanExact, Updating
<1> HIDE DEF avg, cnt, tm, new
<1>4. new \in Averages /\ new[1] <= m * new[2]
  BY <1>0, <1>1, WeightedBelow DEF new
<1>5. upd \in [Routines -> Updates]
  BY DEF MeanType
<1>6. upd'[g] = NoCall /\ \A o \in Routines \ {g} : upd'[o] = upd[o]
  BY <1>2, <1>5
<1>7. MeanType'
  BY <1>2, <1>4, <1>5, NoCallFields DEF MeanType
<1>8. MeanBelow'
  <2>1. \A o \in Routines : upd'[o].dur <= sums'[3] /\ upd'[o].avg[1] <= sums'[3] * upd'[o].avg[2]
    BY <1>0, <1>2, <1>6, NoCallFields DEF MeanBelow
  <2> QED
    BY <2>1, <1>0, <1>2, <1>4 DEF MeanBelow
<1>9. MeanExact'
  <2> SUFFICES ASSUME ~overlap
               PROVE  /\ updateCnt = n /\ IsMean(new, n, s)
                      /\ \A o \in Routines : upd'[o].step = "none"
    BY <1>0, <1>2 DEF MeanExact
  <2>1. IsMean(new, cnt + 1, s)
    BY <1>0, <1>1, <1>3, WeightedMean DEF new
  <2>2. cnt + 1 = n
    BY <1>0, <1>1, <1>3
  <2> QED
    BY <2>1, <2>2, <1>3, <1>6, NoCallFields
<1> QED
  BY <1>7, <1>8, <1>9

\* The step of an action that neither the average nor the updates see.
LEMMA MeanSame ==
    ASSUME MeanInv, UNCHANGED <<avgTime, updateCnt, upd, sums, overlap>>
    PROVE  MeanInv'
  BY DEF MeanInv, MeanType, MeanBelow, MeanExact, Quiet, Updating, IsMean

LEMMA MeanStep ==
    ASSUME HistoryAssumption, MeanInv, [Next]_vars
    PROVE  MeanInv'
<1> USE DEF MeanInv
<1>1. CASE Start \/ (\E p \in Peers : FindTime(p)) \/ BeginStore \/ StoreEntry \/ UNCHANGED vars
  <2>1. UNCHANGED <<avgTime, updateCnt, upd, sums, overlap>>
    BY <1>1 DEF Start, FindTime, BeginStore, StoreEntry, vars, memVars
  <2> QED
    BY <2>1, MeanSame
<1>2. CASE EndStore \/ StorePanics \/ Kill
  BY <1>2, MeanFreshNext DEF EndStore, StorePanics, Kill, Down
<1>3. ASSUME NEW g \in Routines, Update(g)
      PROVE  MeanInv'
  <2>0. /\ upd \in [Routines -> Updates] /\ updateCnt \in Nat /\ avgTime \in Averages
        /\ upd[g] \in Updates /\ sums \in Nat \X Nat \X Nat
    BY DEF MeanType
  <2>00. /\ upd[g].step \in Steps /\ upd[g].dur \in Nat
         /\ upd[g].avg \in Averages /\ upd[g].cnt \in Nat
    BY UpdFields
  <2>1. CASE \E p \in Peers, tm \in Durs : UpdateAdd(g, p, tm)
    BY <2>1, MeanUpdateAdd
  <2>2. CASE LoadAvg(g)
    <3> DEFINE new == [upd[g] EXCEPT !.step = "count", !.avg = avgTime]
    <3>1. /\ new \in Updates /\ new.step = "count" /\ new.avg = avgTime
          /\ new.dur = upd[g].dur
      BY <2>0 DEF Updates, Steps
    <3>2. upd' = [upd EXCEPT ![g] = new]
      BY <2>0, <2>2 DEF LoadAvg
    <3> HIDE DEF new
    <3>3. upd'[g] = new
      BY <3>2, <2>0
    <3>4. upd[g].step = "load" /\ UNCHANGED <<avgTime, updateCnt, sums, overlap>>
      BY <2>2 DEF LoadAvg
    <3>5. Updating(g) => Updating(g)'
      BY <3>1, <3>3, <3>4 DEF Updating, IsMean
    <3>6. new.avg[1] <= sums[3] * new.avg[2]
      BY <3>1 DEF MeanBelow
    <3> QED
      BY <2>0, <3>1, <3>2, <3>4, <3>5, <3>6, MeanCallStep
  <2>3. CASE ReadCount(g)
    <3> DEFINE new == [upd[g] EXCEPT !.step = "inc", !.cnt = updateCnt]
    <3>1. /\ new \in Updates /\ new.step = "inc" /\ new.avg = upd[g].avg
          /\ new.dur = upd[g].dur /\ new.cnt = updateCnt
      BY <2>0 DEF Updates, Steps
    <3>2. upd' = [upd EXCEPT ![g] = new]
      BY <2>0, <2>3 DEF ReadCount
    <3> HIDE DEF new
    <3>3. upd'[g] = new
      BY <3>2, <2>0
    <3>4. upd[g].step = "count" /\ UNCHANGED <<avgTime, updateCnt, sums, overlap>>
      BY <2>3 DEF ReadCount
    <3>5. Updating(g) => Updating(g)'
      BY <3>1, <3>3, <3>4 DEF Updating, IsMean
    <3>6. new.avg[1] <= sums[3] * new.avg[2]
      BY <3>1 DEF MeanBelow
    <3> QED
      BY <2>0, <3>1, <3>2, <3>4, <3>5, <3>6, MeanCallStep
  <2>4. CASE Inc(g)
    <3> DEFINE new == [upd[g] EXCEPT !.step = "store"]
    <3>1. /\ new \in Updates /\ new.step = "store" /\ new.avg = upd[g].avg
          /\ new.dur = upd[g].dur /\ new.cnt = upd[g].cnt
      BY <2>0 DEF Updates, Steps
    <3>2. upd' = [upd EXCEPT ![g] = new]
      BY <2>0, <2>4 DEF Inc
    <3> HIDE DEF new
    <3>3. upd'[g] = new
      BY <3>2, <2>0
    <3>4. upd[g].step = "inc" /\ UNCHANGED <<avgTime, sums, overlap>>
          /\ updateCnt' = updateCnt + 1
      BY <2>4 DEF Inc
    <3>5. Updating(g) => Updating(g)'
      <4> SUFFICES ASSUME Updating(g) PROVE Updating(g)'
        OBVIOUS
      <4>1. /\ updateCnt = sums[1] - 1 /\ IsMean(avgTime, updateCnt, sums[2] - upd[g].dur)
            /\ upd[g].avg = avgTime /\ upd[g].cnt = updateCnt
            /\ sums[1] > 0 /\ upd[g].dur <= sums[2]
        BY <3>4 DEF Updating
      <4>2. updateCnt' = sums[1]
        BY <4>1, <3>4, <2>0
      <4> QED
        BY <4>1, <4>2, <3>1, <3>3, <3>4 DEF Updating
    <3>6. new.avg[1] <= sums[3] * new.avg[2]
      BY <3>1 DEF MeanBelow
    <3>7. updateCnt' \in Nat
      BY <2>0, <3>4
    <3> QED
      BY <2>0, <3>1, <3>2, <3>4, <3>5, <3>6, <3>7, MeanCallStep
  <2>5. CASE StoreAvg(g)
    BY <2>5, MeanStoreAvg
  <2> QED
    BY <1>3, <2>1, <2>2, <2>3, <2>4, <2>5 DEF Update
<1> QED
  BY <1>1, <1>2, <1>3 DEF Next, Store

\* Without overlapping updates the average is the mean of the answers of the run, and it
\* is never above the slowest of them, whatever updates get lost
\* (PeerResponseHistory.go:247-256).
THEOREM AverageIsSound == Spec => []AverageSound
<1>1. HistoryAssumption
  BY HistoryAssumption
<1>2. Init => MeanInv
  BY MeanFresh DEF Init
<1>3. MeanInv /\ [Next]_vars => MeanInv'
  BY <1>1, MeanStep
<1>4. MeanInv => AverageSound
  BY DEF MeanInv, MeanExact, MeanBelow, AverageSound, IsMean
<1> QED
  BY <1>2, <1>3, <1>4, PTL DEF Spec

-----------------------------------------------------------------------------
(* Folds over the lines *)

LEMMA LeastNat ==
    ASSUME NEW S \in SUBSET Nat, S # {}
    PROVE  \E n \in S : \A m \in S : n <= m
<1> DEFINE R == OpToRel(<, Nat)
<1>1. IsWellFoundedOn(R, Nat)
  BY NatLessThanWellFounded
<1>2. \A x, y \in Nat : y < x => <<y, x>> \in R
  BY DEF OpToRel
<1> HIDE DEF R
<1>3. PICK n \in S : \A y \in S : ~(<<y, n>> \in R)
  BY <1>1, WFMin, Zenon
<1>4. \A m \in S : ~(m < n) /\ m \in Nat /\ n \in Nat
  BY <1>2, <1>3
<1> QED
  BY <1>4

\* A set that holds 0, and with each number below N the next one.
LEMMA UpTo ==
    ASSUME NEW N \in Nat, NEW S, 0 \in S, \A n \in 0 .. (N - 1) : n \in S => n + 1 \in S
    PROVE  \A n \in 0 .. N : n \in S
<1> DEFINE T == {n \in 0 .. N : n \notin S}
<1>1. ASSUME T # {} PROVE FALSE
  <2>1. T \in SUBSET Nat
    OBVIOUS
  <2>2. \E n \in T : \A m \in T : n <= m
    <3> HIDE DEF T
    <3> QED
      BY <1>1, <2>1, LeastNat
  <2>3. PICK n \in T : \A m \in T : n <= m
    BY <2>2
  <2>4. n # 0 /\ n - 1 \in 0 .. (N - 1) /\ (n - 1) + 1 = n
    BY <2>3
  <2>5. n - 1 \notin T
    BY <2>3, <2>4
  <2> QED
    BY <2>3, <2>4, <2>5
<1> QED
  BY <1>1

\* The greatest of a set of numbers up to n that holds n.
LEMMA MaxOfUpTo ==
    ASSUME NEW n \in Nat, NEW s \in SUBSET (1 .. n), n \in s
    PROVE  Max(s) = n
<1>1. \A x \in s : x \in Nat /\ n >= x
  OBVIOUS
<1>2. \A m \in s : (\A x \in s : m >= x) => m = n
  BY <1>1
<1>3. Max(s) \in s /\ \A x \in s : Max(s) >= x
  BY <1>1 DEF Max
<1> QED
  BY <1>2, <1>3

AddLine(c, l) == AddEntry(c, Entry(l.key, l.dur))
IsRead(f, d, g) ==
    g = [s \in SUBSET d |-> IF s = {} THEN <<>> ELSE AddLine(g[s \ {Max(s)}], f[Max(s)])]
IsWrite(b, f, d, g) ==
    g = [s \in SUBSET d |-> IF s = {} THEN b ELSE Written(g[s \ {Max(s)}], f[Max(s)])]

\* What the fold has after n lines.
ReadUpTo(f, n) == (CHOOSE g : IsRead(f, DOMAIN f, g))[1 .. n]
WriteUpTo(b, f, n) == (CHOOSE g : IsWrite(b, f, DOMAIN f, g))[1 .. n]

\* One lemma for both folds: FoldStep is the step of the one that k names.
FoldStep(k, c, l) == IF k = "read" THEN AddLine(c, l) ELSE Written(c, l)
IsFold(k, b, f, d, g) ==
    g = [s \in SUBSET d |-> IF s = {} THEN b ELSE FoldStep(k, g[s \ {Max(s)}], f[Max(s)])]

LEMMA FoldExists ==
    ASSUME NEW k, NEW b, NEW f, NEW N \in Nat
    PROVE  \E g : IsFold(k, b, f, 1 .. N, g)
<1> DEFINE S == {n \in 0 .. N : \E g : IsFold(k, b, f, 1 .. n, g)}
<1>1. 0 \in S
  <2> DEFINE g == [s \in SUBSET (1 .. 0) |-> b]
  <2>1. IsFold(k, b, f, 1 .. 0, g)
    BY DEF IsFold
  <2> QED
    BY <2>1
<1>2. ASSUME NEW n \in 0 .. (N - 1), n \in S
      PROVE  n + 1 \in S
  <2>1. PICK g : IsFold(k, b, f, 1 .. n, g)
    BY <1>2
  <2> DEFINE h == [s \in SUBSET (1 .. (n + 1)) |->
                     IF s \in SUBSET (1 .. n) THEN g[s]
                     ELSE FoldStep(k, g[s \ {Max(s)}], f[Max(s)])]
  <2>2. n + 1 \in Nat /\ (1 .. n) \subseteq 1 .. (n + 1) /\ n + 1 \notin 1 .. n
    OBVIOUS
  <2>3. \A s \in SUBSET (1 .. n) : h[s] = g[s]
    BY <2>2
  <2>4. \A s \in SUBSET (1 .. n) :
            g[s] = IF s = {} THEN b ELSE FoldStep(k, g[s \ {Max(s)}], f[Max(s)])
    BY <2>1 DEF IsFold
  <2>5. ASSUME NEW s \in SUBSET (1 .. (n + 1)), s \notin SUBSET (1 .. n)
        PROVE  s # {} /\ h[s] = FoldStep(k, h[s \ {Max(s)}], f[Max(s)])
    <3>1. n + 1 \in s
      BY <2>5
    <3>2. Max(s) = n + 1
      BY <2>2, <3>1, MaxOfUpTo
    <3>3. s \ {Max(s)} \in SUBSET (1 .. n)
      BY <3>2
    <3>4. h[s] = FoldStep(k, g[s \ {Max(s)}], f[Max(s)])
      BY <2>5
    <3> QED
      BY <2>3, <3>1, <3>3, <3>4
  <2>6. h = [s \in SUBSET (1 .. (n + 1)) |-> h[s]]
    OBVIOUS
  <2> HIDE DEF h
  <2>7. \A s \in SUBSET (1 .. (n + 1)) :
            h[s] = IF s = {} THEN b ELSE FoldStep(k, h[s \ {Max(s)}], f[Max(s)])
    <3> SUFFICES ASSUME NEW s \in SUBSET (1 .. (n + 1))
                 PROVE  h[s] = IF s = {} THEN b ELSE FoldStep(k, h[s \ {Max(s)}], f[Max(s)])
      OBVIOUS
    <3>1. CASE s \notin SUBSET (1 .. n)
      BY <2>5, <3>1
    <3>2. CASE s \in SUBSET (1 .. n)
      <4>1. s \ {Max(s)} \in SUBSET (1 .. n)
        BY <3>2
      <4> QED
        BY <2>3, <2>4, <3>2, <4>1
    <3> QED
      BY <3>1, <3>2
  <2>8. IsFold(k, b, f, 1 .. (n + 1), h)
    BY <2>6, <2>7 DEF IsFold
  <2> QED
    BY <2>8
<1> HIDE DEF S
<1>3. \A n \in 0 .. N : n \in S
  BY <1>1, <1>2, UpTo
<1> QED
  BY <1>3 DEF S

LEMMA ReadExists ==
    ASSUME NEW f, NEW N \in Nat
    PROVE  \E g : IsRead(f, 1 .. N, g)
<1>1. PICK g : IsFold("read", <<>>, f, 1 .. N, g)
  BY FoldExists
<1>2. IsRead(f, 1 .. N, g)
  BY <1>1 DEF IsFold, IsRead, FoldStep
<1> QED
  BY <1>2

LEMMA WriteExists ==
    ASSUME NEW b, NEW f, NEW N \in Nat
    PROVE  \E g : IsWrite(b, f, 1 .. N, g)
<1>1. PICK g : IsFold("write", b, f, 1 .. N, g)
  BY FoldExists
<1>2. IsWrite(b, f, 1 .. N, g)
  BY <1>1 DEF IsFold, IsWrite, FoldStep
<1> QED
  BY <1>2

LEMMA ReadSteps ==
    ASSUME NEW f, NEW N \in Nat, DOMAIN f = 1 .. N
    PROVE  /\ ReadUpTo(f, 0) = <<>>
           /\ \A n \in 0 .. (N - 1) : ReadUpTo(f, n + 1) = AddLine(ReadUpTo(f, n), f[n + 1])
<1> DEFINE g == CHOOSE g : IsRead(f, DOMAIN f, g)
<1>1. IsRead(f, DOMAIN f, g)
  BY ReadExists
<1>2. ReadUpTo(f, 0) = g[1 .. 0] /\ \A n : ReadUpTo(f, n) = g[1 .. n]
  BY DEF ReadUpTo
<1> HIDE DEF g
<1>3. \A s \in SUBSET (1 .. N) :
          g[s] = IF s = {} THEN <<>> ELSE AddLine(g[s \ {Max(s)}], f[Max(s)])
  BY <1>1 DEF IsRead
<1>4. ReadUpTo(f, 0) = <<>>
  BY <1>2, <1>3
<1>5. ASSUME NEW n \in 0 .. (N - 1)
      PROVE  ReadUpTo(f, n + 1) = AddLine(ReadUpTo(f, n), f[n + 1])
  <2> DEFINE s == 1 .. (n + 1)
  <2>1. s \in SUBSET (1 .. N) /\ n + 1 \in s /\ n + 1 \in Nat /\ s \ {n + 1} = 1 .. n
    OBVIOUS
  <2>2. Max(s) = n + 1
    BY <2>1, MaxOfUpTo
  <2> QED
    BY <1>2, <1>3, <2>1, <2>2
<1> QED
  BY <1>4, <1>5

LEMMA WriteFirst ==
    ASSUME NEW b, NEW f, NEW N \in Nat, DOMAIN f = 1 .. N
    PROVE  WriteUpTo(b, f, 0) = b
<1> DEFINE g == CHOOSE g : IsWrite(b, f, DOMAIN f, g)
<1>1. IsWrite(b, f, DOMAIN f, g)
  BY WriteExists
<1>2. WriteUpTo(b, f, 0) = g[1 .. 0]
  BY DEF WriteUpTo
<1> HIDE DEF g
<1>3. 1 .. 0 = {} /\ {} \in SUBSET (1 .. N)
  OBVIOUS
<1>4. g[{}] = b
  BY <1>1, <1>3 DEF IsWrite
<1> QED
  BY <1>2, <1>3, <1>4

LEMMA WriteNext ==
    ASSUME NEW b, NEW f, NEW N \in Nat, DOMAIN f = 1 .. N, NEW n \in 0 .. (N - 1)
    PROVE  WriteUpTo(b, f, n + 1) = Written(WriteUpTo(b, f, n), f[n + 1])
<1> DEFINE g == CHOOSE g : IsWrite(b, f, DOMAIN f, g)
           s == 1 .. (n + 1)
<1>1. IsWrite(b, f, DOMAIN f, g)
  BY WriteExists
<1>2. WriteUpTo(b, f, n + 1) = g[s] /\ WriteUpTo(b, f, n) = g[1 .. n]
  BY DEF WriteUpTo
<1> HIDE DEF g
<1>3. s \in SUBSET (1 .. N) /\ n + 1 \in s /\ n + 1 \in Nat /\ s \ {n + 1} = 1 .. n
  OBVIOUS
<1>4. Max(s) = n + 1
  BY <1>3, MaxOfUpTo
<1> HIDE DEF s
<1>5. g[s] = Written(g[s \ {Max(s)}], f[Max(s)])
  BY <1>1, <1>3 DEF IsWrite
<1> QED
  BY <1>2, <1>3, <1>4, <1>5

LEMMA ReadNext ==
    ASSUME NEW f, NEW N \in Nat, DOMAIN f = 1 .. N, NEW n \in 0 .. (N - 1)
    PROVE  ReadUpTo(f, n + 1) = AddLine(ReadUpTo(f, n), f[n + 1])
  BY ReadSteps

LEMMA LoadedIs ==
    ASSUME NEW f
    PROVE  LET r == SubSeq(f, 1, Cardinality(Readable(f)))
           IN Loaded(f) = (CHOOSE g : IsRead(r, DOMAIN r, g))[DOMAIN r]
  BY DEF Loaded, FoldLeft, MapThenFoldSet, IsRead, AddLine

LEMMA WriteIs ==
    ASSUME NEW b, NEW f
    PROVE  FoldLeft(Written, b, f) = (CHOOSE g : IsWrite(b, f, DOMAIN f, g))[DOMAIN f]
  BY DEF FoldLeft, MapThenFoldSet, IsWrite

LEMMA ReadAgree ==
    ASSUME NEW f, NEW g, NEW N \in Nat, NEW M \in Nat, NEW K \in Nat,
           DOMAIN f = 1 .. N, DOMAIN g = 1 .. M, K <= N, K <= M,
           \A i \in 1 .. K : f[i] = g[i]
    PROVE  \A n \in 0 .. K : ReadUpTo(f, n) = ReadUpTo(g, n)
<1> DEFINE S == {n \in 0 .. K : ReadUpTo(f, n) = ReadUpTo(g, n)}
<1>1. 0 \in S
  BY ReadSteps
<1>2. ASSUME NEW n \in 0 .. (K - 1), n \in S
      PROVE  n + 1 \in S
  <2>1. n \in 0 .. (N - 1) /\ n \in 0 .. (M - 1) /\ n + 1 \in 1 .. K
    OBVIOUS
  <2>2. ReadUpTo(f, n + 1) = AddLine(ReadUpTo(f, n), f[n + 1])
    BY <2>1, ReadSteps
  <2>3. ReadUpTo(g, n + 1) = AddLine(ReadUpTo(g, n), g[n + 1])
    BY <2>1, ReadSteps
  <2> QED
    BY <1>2, <2>1, <2>2, <2>3
<1> HIDE DEF S
<1>3. \A n \in 0 .. K : n \in S
  BY <1>1, <1>2, UpTo
<1> QED
  BY <1>3 DEF S

-----------------------------------------------------------------------------
(* The cache and the lines *)

Known == Peers \cup {torn}
Entries == [key : Known, dur : Int]
Ends == {"line", "key", "value"}
Lines == [key : Known, dur : Int, end : Ends]

\* A key has one entry, and there are at most Size.
Caches ==
    {c \in Seq(Entries) :
        /\ Len(c) <= Size
        /\ \A i, j \in 1 .. Len(c) : c[i].key = c[j].key => i = j}

KeySet(c) == {c[i].key : i \in 1 .. Len(c)}

LEMMA OthersShape ==
    ASSUME NEW c \in Caches, NEW k
    PROVE  /\ k \notin KeySet(c) => Others(c, k) = c
           /\ \A i \in 1 .. Len(c) : c[i].key = k =>
                 /\ Others(c, k) \in Seq(Entries)
                 /\ Len(Others(c, k)) = Len(c) - 1
                 /\ \A j \in 1 .. (Len(c) - 1) :
                       Others(c, k)[j] = IF j < i THEN c[j] ELSE c[j + 1]
<1>0. c \in Seq(Entries) /\ Len(c) \in Nat /\ DOMAIN c = 1 .. Len(c)
  BY DEF Caches
<1>1. ASSUME k \notin KeySet(c) PROVE Others(c, k) = c
  BY <1>0, <1>1 DEF Others, KeySet
<1>2. ASSUME NEW i \in 1 .. Len(c), c[i].key = k
      PROVE  /\ Others(c, k) \in Seq(Entries)
             /\ Len(Others(c, k)) = Len(c) - 1
             /\ \A j \in 1 .. (Len(c) - 1) :
                   Others(c, k)[j] = IF j < i THEN c[j] ELSE c[j + 1]
  <2> DEFINE at == {j \in DOMAIN c : c[j].key = k}
             a == SubSeq(c, 1, i - 1)
             b == SubSeq(c, i + 1, Len(c))
  <2>1. at = {i}
    BY <1>0, <1>2 DEF Caches
  <2>2. Others(c, k) = a \o b
    BY <2>1 DEF Others, RemoveAt
  <2>3. a \in Seq(Entries) /\ Len(a) = i - 1 /\ \A j \in 1 .. (i - 1) : a[j] = c[j]
    <3>1. \A j \in 1 .. (i - 1) : c[j] \in Entries
      BY <1>0
    <3>2. /\ a \in Seq(Entries) /\ Len(a) = IF 1 <= i - 1 THEN i - 1 - 1 + 1 ELSE 0
          /\ \A j \in 1 .. (i - 1 - 1 + 1) : a[j] = c[1 + j - 1]
      BY <1>0, <3>1, SubSeqProperties
    <3> HIDE DEF a
    <3> QED
      BY <1>0, <3>2
  <2>4. b \in Seq(Entries) /\ Len(b) = Len(c) - i /\ \A j \in 1 .. (Len(c) - i) : b[j] = c[i + j]
    <3>1. \A j \in (i + 1) .. Len(c) : c[j] \in Entries
      BY <1>0
    <3>2. /\ b \in Seq(Entries)
          /\ Len(b) = IF i + 1 <= Len(c) THEN Len(c) - (i + 1) + 1 ELSE 0
          /\ \A j \in 1 .. (Len(c) - (i + 1) + 1) : b[j] = c[(i + 1) + j - 1]
      BY <1>0, <3>1, SubSeqProperties
    <3> HIDE DEF b
    <3>3. PICK n \in Nat : n = Len(c)
      BY <1>0
    <3>4. i \in 1 .. n /\ (IF i + 1 <= n THEN n - (i + 1) + 1 ELSE 0) = n - i
          /\ n - (i + 1) + 1 = n - i /\ \A j \in Int : (i + 1) + j - 1 = i + j
      BY <3>3
    <3> QED
      BY <3>2, <3>3, <3>4
  <2> HIDE DEF a, b
  <2>5. /\ a \o b \in Seq(Entries) /\ Len(a \o b) = Len(c) - 1
        /\ \A j \in 1 .. (Len(c) - 1) :
              (a \o b)[j] = IF j <= i - 1 THEN a[j] ELSE b[j - (i - 1)]
    <3>1. /\ a \o b \in Seq(Entries) /\ Len(a \o b) = Len(a) + Len(b)
          /\ \A j \in 1 .. (Len(a) + Len(b)) :
                (a \o b)[j] = IF j <= Len(a) THEN a[j] ELSE b[j - Len(a)]
      BY <2>3, <2>4, ConcatProperties
    <3>2. Len(a) = i - 1 /\ Len(a) + Len(b) = Len(c) - 1
      BY <1>0, <2>3, <2>4
    <3> QED
      BY <3>1, <3>2
  <2>6. \A j \in 1 .. (Len(c) - 1) : (a \o b)[j] = IF j < i THEN c[j] ELSE c[j + 1]
    <3> TAKE j \in 1 .. (Len(c) - 1)
    <3>1. CASE j < i
      BY <1>0, <2>3, <2>5, <3>1
    <3>2. CASE ~(j < i)
      <4>1. j - (i - 1) \in 1 .. (Len(c) - i) /\ i + (j - (i - 1)) = j + 1
        BY <1>0, <3>2
      <4> QED
        BY <1>0, <2>4, <2>5, <3>2, <4>1
    <3> QED
      BY <3>1, <3>2
  <2> QED
    BY <2>2, <2>5, <2>6
<1> QED
  BY <1>1, <1>2

\* o has the entries of c but that of k, in their order: the j-th is the from[j]-th of c.
TakenFrom(o, c, k, from) ==
    /\ from \in [1 .. Len(o) -> 1 .. Len(c)]
    /\ o \in Seq(Entries) /\ Len(o) <= Len(c) /\ Len(c) - 1 <= Len(o)
    /\ \A j \in 1 .. Len(o) : o[j] = c[from[j]] /\ c[from[j]].key # k
    /\ \A i, j \in 1 .. Len(o) : from[i] = from[j] => i = j
    /\ \A i \in 1 .. Len(c) : c[i].key # k => \E j \in 1 .. Len(o) : from[j] = i
    /\ k \notin KeySet(c) => Len(o) = Len(c)
    /\ \A i \in 1 .. Len(c) : (\A r \in 1 .. Len(c) : c[r].key = k => r < i) =>
          i - Len(c) + Len(o) \in 1 .. Len(o) /\ o[i - Len(c) + Len(o)] = c[i]

LEMMA OthersFrom ==
    ASSUME NEW c \in Caches, NEW k
    PROVE  \E from : TakenFrom(Others(c, k), c, k, from)
<1>0. c \in Seq(Entries) /\ Len(c) \in Nat
  BY DEF Caches
<1> DEFINE o == Others(c, k)
<1>1. CASE k \notin KeySet(c)
  <2>1. o = c
    BY <1>1, OthersShape
  <2> DEFINE id == [j \in 1 .. Len(o) |-> j]
  <2> HIDE DEF o
  <2>2. id \in [1 .. Len(o) -> 1 .. Len(c)] /\ \A j \in 1 .. Len(o) : id[j] = j
    BY <2>1
  <2> HIDE DEF id
  <2>3. \A i \in 1 .. Len(c) : c[i].key # k
    BY <1>1 DEF KeySet
  <2>4. \A i \in 1 .. Len(c) : i - Len(c) + Len(o) = i
    BY <1>0, <2>1
  <2>5. TakenFrom(o, c, k, id)
    BY <1>0, <2>1, <2>2, <2>3, <2>4 DEF TakenFrom
  <2> QED
    BY <2>5 DEF o
<1>2. CASE k \in KeySet(c)
  <2>1. PICK r \in 1 .. Len(c) : c[r].key = k
    BY <1>2 DEF KeySet
  <2>2. /\ o \in Seq(Entries) /\ Len(o) = Len(c) - 1
        /\ \A j \in 1 .. (Len(c) - 1) : o[j] = IF j < r THEN c[j] ELSE c[j + 1]
    BY <2>1, OthersShape
  <2> DEFINE from == [j \in 1 .. Len(o) |-> IF j < r THEN j ELSE j + 1]
  <2> HIDE DEF o
  <2>3. /\ from \in [1 .. Len(o) -> 1 .. Len(c)]
        /\ \A j \in 1 .. Len(o) : from[j] = (IF j < r THEN j ELSE j + 1)
    BY <1>0, <2>2
  <2> HIDE DEF from
  <2>4. \A i \in 1 .. Len(c) : c[i].key = k => i = r
    BY <2>1 DEF Caches
  <2>5. \A j \in 1 .. Len(o) : o[j] = c[from[j]] /\ from[j] # r
    BY <1>0, <2>2, <2>3
  <2>6. \A i, j \in 1 .. Len(o) : from[i] = from[j] => i = j
    BY <1>0, <2>2, <2>3
  <2>7. \A i \in 1 .. Len(c) : c[i].key # k => \E j \in 1 .. Len(o) : from[j] = i
    <3> SUFFICES ASSUME NEW i \in 1 .. Len(c), i # r
                 PROVE  \E j \in 1 .. Len(o) : from[j] = i
      BY <2>1
    <3>1. CASE i < r
      <4>1. i \in 1 .. Len(o) /\ from[i] = i
        BY <1>0, <2>2, <2>3, <3>1
      <4> QED
        BY <4>1
    <3>2. CASE i > r
      <4>1. i - 1 \in 1 .. Len(o) /\ from[i - 1] = i
        BY <1>0, <2>2, <2>3, <3>2
      <4> QED
        BY <4>1
    <3> QED
      BY <3>1, <3>2
  <2>8. \A i \in 1 .. Len(c) : r < i =>
            i - Len(c) + Len(o) \in 1 .. Len(o) /\ o[i - Len(c) + Len(o)] = c[i]
    <3> SUFFICES ASSUME NEW i \in 1 .. Len(c), r < i
                 PROVE  i - Len(c) + Len(o) \in 1 .. Len(o) /\ o[i - Len(c) + Len(o)] = c[i]
      OBVIOUS
    <3>0. r < i
      OBVIOUS
    <3>1. i - Len(c) + Len(o) = i - 1 /\ i - 1 \in 1 .. Len(o) /\ i - 1 \in 1 .. (Len(c) - 1)
          /\ ~(i - 1 < r) /\ (i - 1) + 1 = i
      <4>1. PICK n \in Nat : n = Len(c)
        BY <1>0
      <4>2. Len(o) = n - 1 /\ i \in 1 .. n /\ r \in 1 .. n
        BY <2>2, <4>1
      <4> QED
        BY <3>0, <4>1, <4>2
    <3> QED
      BY <2>2, <3>1
  <2>9. \A j \in 1 .. Len(o) : c[from[j]].key # k
    BY <2>3, <2>4, <2>5
  <2>11. Len(o) <= Len(c) /\ Len(c) - 1 <= Len(o)
    BY <1>0, <2>2
  <2>12. \A i \in 1 .. Len(c) : (\A x \in 1 .. Len(c) : c[x].key = k => x < i) =>
            i - Len(c) + Len(o) \in 1 .. Len(o) /\ o[i - Len(c) + Len(o)] = c[i]
    BY <2>1, <2>8
  <2>10. TakenFrom(o, c, k, from)
    BY <1>2, <2>2, <2>3, <2>5, <2>6, <2>7, <2>9, <2>11, <2>12 DEF TakenFrom
  <2> QED
    BY <2>10 DEF o
<1> QED
  BY <1>1, <1>2

\* d is c with e as the newest entry: the j-th but the last is the from[j]-th of c.
AddedTo(d, c, e, from) ==
    /\ d \in Caches /\ Len(d) >= 1 /\ d[Len(d)] = e /\ Len(d) >= Len(c)
    /\ from \in [1 .. (Len(d) - 1) -> 1 .. Len(c)]
    /\ \A j \in 1 .. (Len(d) - 1) : d[j] = c[from[j]]
    /\ Len(d) = Size \/ KeySet(c) \subseteq KeySet(d)
    /\ e.key \notin KeySet(c) => Len(d) = Len(c) + 1 \/ Len(d) = Size
    /\ \A i \in 1 .. Len(c) : (\A r \in 1 .. Len(c) : c[r].key = e.key => r < i) =>
          (i - Len(c) + Len(d) - 1 >= 1 => d[i - Len(c) + Len(d) - 1] = c[i])

LEMMA AddShape ==
    ASSUME NEW c \in Caches, NEW e \in Entries, Size \in Nat \ {0}
    PROVE  \E from : AddedTo(AddEntry(c, e), c, e, from)
<1> DEFINE o == Others(c, e.key)  a == Append(o, e)  d == AddEntry(c, e)
<1>0. c \in Seq(Entries) /\ Len(c) \in Nat /\ Len(c) <= Size
      /\ \A i, j \in 1 .. Len(c) : c[i].key = c[j].key => i = j
  BY DEF Caches
<1>1. PICK from : TakenFrom(o, c, e.key, from)
  BY OthersFrom
<1>2. /\ from \in [1 .. Len(o) -> 1 .. Len(c)]
      /\ o \in Seq(Entries) /\ Len(o) \in Nat /\ Len(o) <= Len(c) /\ Len(c) - 1 <= Len(o)
      /\ \A j \in 1 .. Len(o) : o[j] = c[from[j]] /\ c[from[j]].key # e.key
      /\ \A i, j \in 1 .. Len(o) : from[i] = from[j] => i = j
      /\ \A i \in 1 .. Len(c) : c[i].key # e.key => \E j \in 1 .. Len(o) : from[j] = i
      /\ e.key \notin KeySet(c) => Len(o) = Len(c)
      /\ \A i \in 1 .. Len(c) : (\A r \in 1 .. Len(c) : c[r].key = e.key => r < i) =>
            i - Len(c) + Len(o) \in 1 .. Len(o) /\ o[i - Len(c) + Len(o)] = c[i]
  BY <1>1 DEF TakenFrom
<1>3. d = IF Len(a) > Size THEN Tail(a) ELSE a
  BY DEF AddEntry
<1> HIDE DEF o
<1>4. /\ a \in Seq(Entries) /\ a # <<>> /\ Len(a) = Len(o) + 1
      /\ \A j \in 1 .. Len(o) : a[j] = o[j]
      /\ a[Len(o) + 1] = e
  BY <1>2, AppendProperties
<1> HIDE DEF a, d
<1>5. CASE Len(a) > Size
  <2>1. Len(o) = Size /\ Len(c) = Size
    BY <1>0, <1>2, <1>4, <1>5
  <2>2. /\ d \in Seq(Entries) /\ Len(d) = Len(o)
        /\ \A j \in 1 .. Len(o) : d[j] = a[j + 1]
    <3>1. /\ d \in Seq(Entries) /\ Len(d) = Len(a) - 1
          /\ \A j \in 1 .. Len(d) : d[j] = a[j + 1]
      BY <1>3, <1>4, <1>5, HeadTailProperties
    <3>2. Len(a) - 1 = Len(o)
      BY <1>2, <1>4
    <3> QED
      BY <3>1, <3>2
  <2>3. d[Len(o)] = e /\ \A j \in 1 .. (Len(o) - 1) : d[j] = o[j + 1]
    <3>1. Len(o) \in 1 .. Len(o)
      BY <2>1
    <3>2. \A j \in 1 .. (Len(o) - 1) : j \in 1 .. Len(o) /\ j + 1 \in 1 .. Len(o)
      BY <1>2
    <3> QED
      BY <1>4, <2>2, <3>1, <3>2
  <2> DEFINE g == [j \in 1 .. (Len(o) - 1) |-> from[j + 1]]
  <2>4. /\ g \in [1 .. (Len(o) - 1) -> 1 .. Len(c)]
        /\ \A j \in 1 .. (Len(o) - 1) : g[j] = from[j + 1] /\ d[j] = c[g[j]] /\ d[j].key # e.key
    <3>1. \A j \in 1 .. (Len(o) - 1) : j + 1 \in 1 .. Len(o)
      BY <1>2
    <3>2. \A j \in 1 .. (Len(o) - 1) : from[j + 1] \in 1 .. Len(c)
      BY <1>2, <3>1
    <3>3. \A j \in 1 .. (Len(o) - 1) : d[j] = c[from[j + 1]] /\ c[from[j + 1]].key # e.key
      BY <1>2, <2>3, <3>1
    <3> QED
      BY <3>2, <3>3
  <2> HIDE DEF g
  <2>5. \A i, j \in 1 .. (Len(o) - 1) : g[i] = g[j] => i = j
    <3> SUFFICES ASSUME NEW i \in 1 .. (Len(o) - 1), NEW j \in 1 .. (Len(o) - 1), g[i] = g[j]
                 PROVE  i = j
      OBVIOUS
    <3>1. i + 1 \in 1 .. Len(o) /\ j + 1 \in 1 .. Len(o) /\ from[i + 1] = from[j + 1]
      BY <1>2, <2>4
    <3>2. i + 1 = j + 1
      BY <1>2, <3>1
    <3> QED
      BY <3>2
  <2>6. \A i, j \in 1 .. Len(d) : d[i].key = d[j].key => i = j
    <3> SUFFICES ASSUME NEW i \in 1 .. Len(d), NEW j \in 1 .. Len(d), d[i].key = d[j].key
                 PROVE  i = j
      OBVIOUS
    <3>1. i \in 1 .. (Len(o) - 1) \/ i = Len(o)
      BY <1>2, <2>2
    <3>2. j \in 1 .. (Len(o) - 1) \/ j = Len(o)
      BY <1>2, <2>2
    <3>3. CASE i \in 1 .. (Len(o) - 1) /\ j \in 1 .. (Len(o) - 1)
      <4>1. c[g[i]].key = c[g[j]].key /\ g[i] \in 1 .. Len(c) /\ g[j] \in 1 .. Len(c)
        BY <2>4, <3>3
      <4> QED
        BY <1>0, <2>5, <3>3, <4>1
    <3> QED
      BY <2>3, <2>4, <3>1, <3>2, <3>3
  <2>7. d \in Caches
    BY <2>1, <2>2, <2>6 DEF Caches
  <2>8. ASSUME NEW i \in 1 .. Len(c), \A r \in 1 .. Len(c) : c[r].key = e.key => r < i,
               i - Len(c) + Len(d) - 1 >= 1
        PROVE  d[i - Len(c) + Len(d) - 1] = c[i]
    <3>1. o[i - Len(c) + Len(o)] = c[i]
      BY <1>2, <2>8
    <3>2. i - Len(c) + Len(o) = i /\ i - Len(c) + Len(d) - 1 = i - 1 /\ i - 1 \in 1 .. (Len(o) - 1)
          /\ (i - 1) + 1 = i
      BY <2>1, <2>2, <2>8
    <3> QED
      BY <2>3, <3>1, <3>2
  <2>9. AddedTo(d, c, e, g)
    BY <2>1, <2>2, <2>3, <2>4, <2>7, <2>8 DEF AddedTo
  <2> QED
    BY <2>9 DEF d
<1>6. CASE ~(Len(a) > Size)
  <2>1. d = a /\ Len(d) = Len(o) + 1 /\ Len(d) - 1 = Len(o) /\ Len(d) <= Size /\ Len(d) >= Len(c)
    BY <1>0, <1>2, <1>3, <1>4, <1>6
  <2>2. \A j \in 1 .. (Len(d) - 1) : d[j] = c[from[j]] /\ d[j].key # e.key
    BY <1>2, <1>4, <2>1
  <2>3. \A i, j \in 1 .. Len(d) : d[i].key = d[j].key => i = j
    <3> SUFFICES ASSUME NEW i \in 1 .. Len(d), NEW j \in 1 .. Len(d), d[i].key = d[j].key
                 PROVE  i = j
      OBVIOUS
    <3>1. i \in 1 .. Len(o) \/ i = Len(o) + 1
      BY <1>2, <2>1
    <3>2. j \in 1 .. Len(o) \/ j = Len(o) + 1
      BY <1>2, <2>1
    <3>3. CASE i \in 1 .. Len(o) /\ j \in 1 .. Len(o)
      <4>1. from[i] \in 1 .. Len(c) /\ from[j] \in 1 .. Len(c)
        BY <1>2, <3>3
      <4>2. i \in 1 .. (Len(d) - 1) /\ j \in 1 .. (Len(d) - 1)
        BY <2>1, <3>3
      <4>3. c[from[i]].key = c[from[j]].key
        BY <2>2, <4>2
      <4>4. from[i] = from[j]
        BY <1>0, <4>1, <4>3
      <4> QED
        BY <1>2, <3>3, <4>4
    <3> QED
      BY <1>4, <2>1, <2>2, <3>1, <3>2, <3>3
  <2>4. d \in Caches
    BY <1>4, <2>1, <2>3 DEF Caches
  <2>5. KeySet(c) \subseteq KeySet(d)
    <3> SUFFICES ASSUME NEW i \in 1 .. Len(c)
                 PROVE  \E j \in 1 .. Len(d) : c[i].key = d[j].key
      BY DEF KeySet
    <3>1. CASE c[i].key = e.key
      BY <1>2, <1>4, <2>1, <3>1
    <3>2. CASE c[i].key # e.key
      <4>1. PICK j \in 1 .. Len(o) : from[j] = i
        BY <1>2, <3>2
      <4>2. j \in 1 .. Len(d) /\ d[j] = c[i]
        BY <1>2, <2>1, <2>2, <4>1
      <4> QED
        BY <4>2
    <3> QED
      BY <3>1, <3>2
  <2>6. ASSUME NEW i \in 1 .. Len(c), \A r \in 1 .. Len(c) : c[r].key = e.key => r < i
        PROVE  d[i - Len(c) + Len(d) - 1] = c[i]
    <3>1. i - Len(c) + Len(o) \in 1 .. Len(o) /\ o[i - Len(c) + Len(o)] = c[i]
      BY <1>2, <2>6
    <3>2. i - Len(c) + Len(d) - 1 = i - Len(c) + Len(o)
      BY <1>2, <2>1
    <3> QED
      BY <1>4, <2>1, <3>1, <3>2
  <2>7. Len(d) >= 1 /\ d[Len(d)] = e
    BY <1>2, <1>4, <2>1
  <2>8. e.key \notin KeySet(c) => Len(d) = Len(c) + 1
    BY <1>2, <2>1
  <2>9. AddedTo(d, c, e, from)
    BY <1>2, <2>1, <2>2, <2>4, <2>5, <2>6, <2>7, <2>8 DEF AddedTo
  <2> QED
    BY <2>9 DEF d
<1> QED
  BY <1>5, <1>6

LineIs(l) == l.dur # -1 /\ l.end = "line"

\* Load reads up to the first line that it cannot read.
LEMMA LoadedRead ==
    ASSUME NEW f \in Seq(Lines)
    PROVE  \E m \in 0 .. Len(f) :
              /\ Loaded(f) = ReadUpTo(f, m)
              /\ \A i \in 1 .. m : LineIs(f[i])
              /\ Intact(f) => m = Len(f)
<1>0. Len(f) \in Nat /\ DOMAIN f = 1 .. Len(f) /\ \A i \in 1 .. Len(f) : f[i] \in Lines
  OBVIOUS
<1> DEFINE bad == {i \in DOMAIN f : f[i].dur = -1 \/ f[i].end # "line"}
<1>1. Readable(f) = {i \in DOMAIN f : \A j \in bad : i < j}
  BY DEF Readable
<1>2. \A i \in DOMAIN f : i \notin bad => LineIs(f[i])
  BY DEF LineIs
<1>3. Intact(f) => bad = {}
  BY DEF Intact
<1>4. bad \in SUBSET Nat /\ bad \subseteq DOMAIN f
  BY <1>0
<1> HIDE DEF bad
<1>5. \E m \in 0 .. Len(f) : /\ Readable(f) = 1 .. m
                             /\ \A i \in 1 .. m : i \notin bad
                             /\ bad = {} => m = Len(f)
  <2>1. CASE bad = {}
    <3>1. Readable(f) = 1 .. Len(f)
      BY <1>0, <1>1, <2>1
    <3>2. Len(f) \in 0 .. Len(f)
      BY <1>0
    <3> QED
      BY <2>1, <3>1, <3>2
  <2>2. CASE bad # {}
    <3>1. PICK j \in bad : \A k \in bad : j <= k
      BY <1>4, <2>2, LeastNat
    <3>2. j \in 1 .. Len(f)
      BY <1>0, <1>4
    <3>3. \A i \in 1 .. Len(f) : (\A k \in bad : i < k) <=> i < j
      BY <1>0, <1>4, <3>1, <3>2
    <3>4. Readable(f) = 1 .. (j - 1)
      BY <1>0, <1>1, <3>2, <3>3
    <3>5. j - 1 \in 0 .. Len(f) /\ \A i \in 1 .. (j - 1) : i \notin bad
      BY <1>0, <3>1, <3>2
    <3> QED
      BY <2>2, <3>4, <3>5
  <2> QED
    BY <2>1, <2>2
<1>6. PICK m \in 0 .. Len(f) : /\ Readable(f) = 1 .. m
                               /\ \A i \in 1 .. m : i \notin bad
                               /\ bad = {} => m = Len(f)
  BY <1>5
<1>7. m \in Nat /\ m <= Len(f) /\ Cardinality(Readable(f)) = m
  <2>1. m \in Nat /\ m <= Len(f)
    BY <1>0
  <2>2. Cardinality(1 .. m) = IF 1 > m THEN 0 ELSE m - 1 + 1
    BY <2>1, FS_Interval
  <2>3. Cardinality(1 .. m) = m
    BY <2>1, <2>2
  <2> QED
    BY <1>6, <2>1, <2>3
<1> DEFINE r == SubSeq(f, 1, m)
<1>8. DOMAIN r = 1 .. m /\ \A i \in 1 .. m : r[i] = f[i]
  <2>1. \A i \in 1 .. m : f[i] \in Lines
    BY <1>0, <1>7
  <2>2. /\ r \in Seq(Lines) /\ Len(r) = IF 1 <= m THEN m - 1 + 1 ELSE 0
        /\ \A i \in 1 .. (m - 1 + 1) : r[i] = f[1 + i - 1]
    BY <1>7, <2>1, SubSeqProperties
  <2> HIDE DEF r
  <2>3. Len(r) = m /\ m - 1 + 1 = m /\ \A i \in 1 .. m : 1 + i - 1 = i
    BY <1>7, <2>2
  <2> QED
    BY <2>2, <2>3
<1>9. Loaded(f) = (CHOOSE g : IsRead(r, DOMAIN r, g))[DOMAIN r]
  BY <1>7, LoadedIs
<1> HIDE DEF r
<1>10. Loaded(f) = ReadUpTo(r, m)
  BY <1>8, <1>9 DEF ReadUpTo
<1>11. ReadUpTo(r, m) = ReadUpTo(f, m)
  BY <1>0, <1>7, <1>8, ReadAgree
<1>12. \A i \in 1 .. m : LineIs(f[i])
  <2>1. \A i \in 1 .. m : i \in DOMAIN f
    BY <1>0, <1>7
  <2> QED
    BY <1>2, <1>6, <2>1
<1> QED
  BY <1>3, <1>6, <1>10, <1>11, <1>12

-----------------------------------------------------------------------------
(* Nobody gets the time of another *)

Own(x, m) == x.key \in Peers => x.dur \in m[x.key]
CacheOwn(c, m) == \A i \in 1 .. Len(c) : Own(c[i], m)
FileOwn(f, m) == \A i \in 1 .. Len(f) : LineIs(f[i]) => Own(f[i], m)

LEMMA AddOwn ==
    ASSUME NEW c \in Caches, NEW e \in Entries, NEW m, Size \in Nat \ {0},
           CacheOwn(c, m), Own(e, m)
    PROVE  AddEntry(c, e) \in Caches /\ CacheOwn(AddEntry(c, e), m)
<1> DEFINE d == AddEntry(c, e)
<1>1. PICK from : AddedTo(d, c, e, from)
  BY AddShape
<1> HIDE DEF d
<1>2. /\ d \in Caches /\ Len(d) \in Nat /\ Len(d) >= 1 /\ d[Len(d)] = e
      /\ from \in [1 .. (Len(d) - 1) -> 1 .. Len(c)]
      /\ \A j \in 1 .. (Len(d) - 1) : d[j] = c[from[j]]
  BY <1>1 DEF AddedTo, Caches
<1>3. ASSUME NEW i \in 1 .. Len(d) PROVE Own(d[i], m)
  <2>1. CASE i = Len(d)
    BY <1>2, <2>1
  <2>2. CASE i # Len(d)
    <3>1. i \in 1 .. (Len(d) - 1)
      BY <1>2, <2>2
    <3>2. d[i] = c[from[i]] /\ from[i] \in 1 .. Len(c)
      BY <1>2, <3>1
    <3> QED
      BY <3>2 DEF CacheOwn
  <2> QED
    BY <2>1, <2>2
<1> QED
  BY <1>2, <1>3 DEF CacheOwn, d

LEMMA EmptyCache == <<>> \in Caches /\ KeySet(<<>>) = {} /\ \A m : CacheOwn(<<>>, m)
<1>1. <<>> \in Seq(Entries) /\ Len(<<>>) = 0
  OBVIOUS
<1>2. <<>> \in Caches
  BY <1>1, HistoryAssumption DEF Caches, HistoryAssumption
<1> QED
  BY <1>1, <1>2 DEF KeySet, CacheOwn

LEMMA ReadOwn ==
    ASSUME NEW f \in Seq(Lines), NEW N \in 0 .. Len(f), NEW m, Size \in Nat \ {0},
           \A i \in 1 .. N : LineIs(f[i]), FileOwn(f, m)
    PROVE  \A n \in 0 .. N : ReadUpTo(f, n) \in Caches /\ CacheOwn(ReadUpTo(f, n), m)
<1> DEFINE S == {n \in 0 .. N : ReadUpTo(f, n) \in Caches /\ CacheOwn(ReadUpTo(f, n), m)}
<1>0. Len(f) \in Nat /\ DOMAIN f = 1 .. Len(f) /\ \A i \in 1 .. Len(f) : f[i] \in Lines
  OBVIOUS
<1>1. 0 \in S
  BY <1>0, ReadSteps, EmptyCache
<1>2. ASSUME NEW n \in 0 .. (N - 1), n \in S
      PROVE  n + 1 \in S
  <2>1. n \in 0 .. (Len(f) - 1) /\ n + 1 \in 1 .. N /\ n + 1 \in 1 .. Len(f)
    BY <1>0
  <2> DEFINE l == f[n + 1]
  <2>2. ReadUpTo(f, n + 1) = AddEntry(ReadUpTo(f, n), Entry(l.key, l.dur))
    BY <1>0, <2>1, ReadSteps DEF AddLine
  <2>3. Own(l, m) /\ l \in Lines
    BY <1>0, <2>1 DEF FileOwn
  <2> HIDE DEF l
  <2>4. Entry(l.key, l.dur) \in Entries /\ Own(Entry(l.key, l.dur), m)
    BY <2>3 DEF Entry, Entries, Own, Lines
  <2> QED
    BY <1>2, <2>1, <2>2, <2>4, AddOwn
<1> HIDE DEF S
<1>3. \A n \in 0 .. N : n \in S
  BY <1>0, <1>1, <1>2, UpTo
<1> QED
  BY <1>3 DEF S

LEMMA LoadedOwn ==
    ASSUME NEW f \in Seq(Lines), NEW m, Size \in Nat \ {0}, FileOwn(f, m)
    PROVE  Loaded(f) \in Caches /\ CacheOwn(Loaded(f), m)
<1>1. PICK n \in 0 .. Len(f) : Loaded(f) = ReadUpTo(f, n) /\ \A i \in 1 .. n : LineIs(f[i])
  BY LoadedRead
<1>2. n \in 0 .. n
  OBVIOUS
<1> QED
  BY <1>1, <1>2, ReadOwn

LEMMA JoinedOwn ==
    ASSUME NEW cut \in Lines, NEW l \in Lines, NEW m, torn \notin Peers, cut.end # "line",
           LineIs(l) => Own(l, m)
    PROVE  Joined(cut, l) \in Lines /\ (LineIs(Joined(cut, l)) => Own(Joined(cut, l), m))
<1>1. CASE cut.end = "key"
  <2>1. Joined(cut, l) = [l EXCEPT !.key = torn]
    BY <1>1 DEF Joined
  <2>2. [l EXCEPT !.key = torn] \in Lines /\ [l EXCEPT !.key = torn].key = torn
    BY DEF Lines, Known
  <2> QED
    BY <2>1, <2>2 DEF Own
<1>2. CASE cut.end = "value" /\ l.end = "line"
  <2>1. Joined(cut, l) = [cut EXCEPT !.dur = -1, !.end = "line"]
    BY <1>2 DEF Joined
  <2>2. [cut EXCEPT !.dur = -1, !.end = "line"] \in Lines
        /\ [cut EXCEPT !.dur = -1, !.end = "line"].dur = -1
    <3>1. cut \in [key : Known, dur : Int, end : Ends] /\ -1 \in Int /\ "line" \in Ends
      BY DEF Lines, Ends
    <3> DEFINE z == -1
    <3> HIDE DEF z
    <3>2. z \in Int => [cut EXCEPT !.dur = z, !.end = "line"] \in [key : Known, dur : Int, end : Ends]
                        /\ [cut EXCEPT !.dur = z, !.end = "line"].dur = z
      BY <3>1
    <3> QED
      BY <3>1, <3>2 DEF Lines, z
  <2> QED
    BY <2>1, <2>2 DEF LineIs
<1>3. CASE cut.end # "key" /\ ~(cut.end = "value" /\ l.end = "line")
  BY <1>3 DEF Joined, LineIs
<1> QED
  BY <1>1, <1>2, <1>3

LEMMA WrittenOwn ==
    ASSUME NEW f \in Seq(Lines), NEW l \in Lines, NEW m, torn \notin Peers,
           FileOwn(f, m), LineIs(l) => Own(l, m)
    PROVE  Written(f, l) \in Seq(Lines) /\ FileOwn(Written(f, l), m)
<1>1. CASE f # <<>> /\ Last(f).end # "line"
  <2>1. Len(f) \in Nat \ {0} /\ f[Len(f)] \in Lines /\ f[Len(f)].end # "line"
    BY <1>1 DEF Last
  <2> DEFINE j == Joined(f[Len(f)], l)  w == SubSeq(f, 1, Len(f) - 1)
  <2>2. j \in Lines /\ (LineIs(j) => Own(j, m))
    BY <2>1, JoinedOwn
  <2>3. Written(f, l) = Append(w, j)
    BY <1>1 DEF Written, Last, Front
  <2>4. w \in Seq(Lines) /\ Len(w) = Len(f) - 1 /\ \A i \in 1 .. Len(w) : w[i] = f[i] /\ i \in 1 .. Len(f)
    <3>1. \A i \in 1 .. (Len(f) - 1) : f[i] \in Lines
      BY <2>1
    <3>2. /\ w \in Seq(Lines)
          /\ Len(w) = IF 1 <= Len(f) - 1 THEN Len(f) - 1 - 1 + 1 ELSE 0
          /\ \A i \in 1 .. (Len(f) - 1 - 1 + 1) : w[i] = f[1 + i - 1]
      BY <2>1, <3>1, SubSeqProperties
    <3> HIDE DEF w
    <3>3. Len(w) = Len(f) - 1 /\ Len(f) - 1 - 1 + 1 = Len(f) - 1
          /\ \A i \in 1 .. (Len(f) - 1) : 1 + i - 1 = i /\ i \in 1 .. Len(f)
      <4>1. PICK n \in Nat : n = Len(f) /\ n > 0
        BY <2>1
      <4> QED
        BY <3>2, <4>1
    <3> QED
      BY <3>2, <3>3
  <2> HIDE DEF j, w
  <2>5. /\ Append(w, j) \in Seq(Lines) /\ Len(Append(w, j)) = Len(w) + 1
        /\ \A i \in 1 .. Len(w) : Append(w, j)[i] = w[i]
        /\ Append(w, j)[Len(w) + 1] = j
    BY <2>2, <2>4, AppendProperties
  <2>6. FileOwn(Append(w, j), m)
    <3> SUFFICES ASSUME NEW i \in 1 .. (Len(w) + 1), LineIs(Append(w, j)[i])
                 PROVE  Own(Append(w, j)[i], m)
      BY <2>5 DEF FileOwn
    <3>1. i \in 1 .. Len(w) \/ i = Len(w) + 1
      BY <2>1, <2>4
    <3> QED
      BY <2>2, <2>4, <2>5, <3>1 DEF FileOwn
  <2> QED
    BY <2>3, <2>5, <2>6
<1>2. CASE ~(f # <<>> /\ Last(f).end # "line")
  <2>1. Written(f, l) = Append(f, l)
    BY <1>2 DEF Written
  <2>2. /\ Append(f, l) \in Seq(Lines) /\ Len(Append(f, l)) = Len(f) + 1 /\ Len(f) \in Nat
        /\ \A i \in 1 .. Len(f) : Append(f, l)[i] = f[i]
        /\ Append(f, l)[Len(f) + 1] = l
    BY AppendProperties
  <2>3. FileOwn(Append(f, l), m)
    <3> SUFFICES ASSUME NEW i \in 1 .. (Len(f) + 1), LineIs(Append(f, l)[i])
                 PROVE  Own(Append(f, l)[i], m)
      BY <2>2 DEF FileOwn
    <3>1. i \in 1 .. Len(f) \/ i = Len(f) + 1
      BY <2>2
    <3> QED
      BY <2>2, <3>1 DEF FileOwn
  <2> QED
    BY <2>1, <2>2, <2>3
<1> QED
  BY <1>1, <1>2

LEMMA FlushedOwn ==
    ASSUME NEW f \in Seq(Lines), NEW w \in Seq(Lines), NEW m, torn \notin Peers,
           FileOwn(f, m), FileOwn(w, m)
    PROVE  FoldLeft(Written, f, w) \in Seq(Lines) /\ FileOwn(FoldLeft(Written, f, w), m)
<1> DEFINE N == Len(w)
           S == {n \in 0 .. N : WriteUpTo(f, w, n) \in Seq(Lines) /\ FileOwn(WriteUpTo(f, w, n), m)}
<1>0. N \in Nat /\ DOMAIN w = 1 .. N /\ \A i \in 1 .. N : w[i] \in Lines
  OBVIOUS
<1>1. FoldLeft(Written, f, w) = WriteUpTo(f, w, N)
  BY <1>0, WriteIs DEF WriteUpTo
<1> HIDE DEF N
<1>2. 0 \in S
  BY <1>0, WriteFirst
<1>3. ASSUME NEW n \in 0 .. (N - 1), n \in S
      PROVE  n + 1 \in S
  <2>1. n + 1 \in 1 .. N /\ n + 1 \in 0 .. N
    BY <1>0
  <2>2. WriteUpTo(f, w, n + 1) = Written(WriteUpTo(f, w, n), w[n + 1])
    BY <1>0, WriteNext
  <2>3. w[n + 1] \in Lines /\ (LineIs(w[n + 1]) => Own(w[n + 1], m))
    BY <1>0, <2>1 DEF FileOwn, N
  <2>4. WriteUpTo(f, w, n + 1) \in Seq(Lines) /\ FileOwn(WriteUpTo(f, w, n + 1), m)
    BY <1>3, <2>2, <2>3, WrittenOwn
  <2> QED
    BY <2>1, <2>4
<1> HIDE DEF S
<1>4. \A n \in 0 .. N : n \in S
  BY <1>0, <1>2, <1>3, UpTo
<1> QED
  BY <1>0, <1>1, <1>4 DEF S

HistType ==
    /\ proc \in {"down", "up", "storing"} /\ complete \in BOOLEAN
    /\ lruCache \in Caches
    /\ file \in Seq(Lines) /\ written \in Seq(Lines) /\ keys \in Seq(Known)
    /\ measured \in [Peers -> SUBSET Nat]
    /\ Len(written) <= Len(keys)
    /\ \A i \in 1 .. Len(written) : written[i].key = keys[i] /\ written[i].end = "line"

OwnInv ==
    CacheOwn(lruCache, measured) /\ FileOwn(file, measured) /\ FileOwn(written, measured)

\* A longer record of what was measured.
LEMMA OwnGrows ==
    ASSUME HistType, OwnInv, measured' \in [Peers -> SUBSET Nat],
           \A p \in Peers : measured[p] \subseteq measured'[p]
    PROVE  CacheOwn(lruCache, measured') /\ FileOwn(file, measured') /\ FileOwn(written, measured')
  BY DEF OwnInv, CacheOwn, FileOwn, Own

\* What a flush that is cut short leaves in the buffer's place.
LEMMA CutOwn ==
    ASSUME NEW w \in Seq(Lines), NEW m, FileOwn(w, m),
           NEW n \in 0 .. Len(w), NEW cut \in {"none", "key", "value"}, cut # "none" => n < Len(w)
    PROVE  LET c == SubSeq(w, 1, n) \o IF cut = "none" THEN <<>> ELSE <<[w[n + 1] EXCEPT !.end = cut]>>
           IN c \in Seq(Lines) /\ FileOwn(c, m)
<1> DEFINE a == SubSeq(w, 1, n)
           b == IF cut = "none" THEN <<>> ELSE <<[w[n + 1] EXCEPT !.end = cut]>>
<1>1. Len(w) \in Nat /\ \A i \in 1 .. Len(w) : w[i] \in Lines
  OBVIOUS
<1>2. a \in Seq(Lines) /\ Len(a) = n /\ \A i \in 1 .. n : a[i] = w[i] /\ i \in 1 .. Len(w)
  <2>1. n \in Nat /\ \A i \in 1 .. n : i \in 1 .. Len(w) /\ 1 + i - 1 = i
    BY <1>1
  <2>2. /\ a \in Seq(Lines)
        /\ Len(a) = IF 1 <= n THEN n - 1 + 1 ELSE 0
        /\ \A i \in 1 .. (n - 1 + 1) : a[i] = w[1 + i - 1]
    BY <1>1, <2>1, SubSeqProperties
  <2> HIDE DEF a
  <2>3. Len(a) = n /\ n - 1 + 1 = n
    BY <2>1, <2>2
  <2> QED
    BY <2>1, <2>2, <2>3
<1>3. b \in Seq(Lines) /\ \A i \in 1 .. Len(b) : b[i].end # "line"
  <2>1. CASE cut = "none"
    BY <2>1
  <2>2. CASE cut # "none"
    <3>1. w[n + 1] \in Lines /\ cut \in Ends
      BY <1>1, <2>2 DEF Ends
    <3>2. [w[n + 1] EXCEPT !.end = cut] \in Lines /\ [w[n + 1] EXCEPT !.end = cut].end = cut
      BY <3>1 DEF Lines
    <3> DEFINE l == [w[n + 1] EXCEPT !.end = cut]
    <3> HIDE DEF l
    <3>3. l \in Lines /\ l.end # "line"
      BY <3>2, <2>2 DEF l
    <3>4. <<l>> \in Seq(Lines) /\ Len(<<l>>) = 1 /\ <<l>>[1] = l
      BY <3>3
    <3>5. b = <<l>>
      BY <2>2 DEF l
    <3> HIDE DEF b
    <3> QED
      BY <3>3, <3>4, <3>5
  <2> QED
    BY <2>1, <2>2
<1> HIDE DEF a, b
<1>4. /\ a \o b \in Seq(Lines) /\ Len(a \o b) = Len(a) + Len(b)
      /\ \A i \in 1 .. (Len(a) + Len(b)) : (a \o b)[i] = IF i <= Len(a) THEN a[i] ELSE b[i - Len(a)]
  BY <1>2, <1>3, ConcatProperties
<1>5. ASSUME NEW i \in 1 .. Len(a \o b), LineIs((a \o b)[i])
      PROVE  Own((a \o b)[i], m)
  <2>0. Len(a) \in Nat /\ Len(b) \in Nat
    BY <1>2, <1>3
  <2>1. CASE i <= Len(a)
    <3>1. (a \o b)[i] = w[i] /\ i \in 1 .. Len(w)
      BY <1>2, <1>4, <2>0, <2>1
    <3> QED
      BY <1>5, <3>1 DEF FileOwn
  <2>2. CASE ~(i <= Len(a))
    <3>1. (a \o b)[i] = b[i - Len(a)] /\ i - Len(a) \in 1 .. Len(b)
      BY <1>4, <2>0, <2>2
    <3> QED
      BY <1>3, <1>5, <3>1 DEF LineIs
  <2> QED
    BY <2>1, <2>2
<1>6. FileOwn(a \o b, m)
  BY <1>5 DEF FileOwn
<1> QED
  BY <1>4, <1>6 DEF a, b

\* The file after the process went down in the middle of Store.
LEMMA CutShortOwn ==
    ASSUME HistoryAssumption, HistType, OwnInv, CutShort
    PROVE  file' \in Seq(Lines) /\ FileOwn(file', measured)
<1> DEFINE C(n, cut) == SubSeq(written, 1, n) \o
                        IF cut = "none" THEN <<>> ELSE <<[written[n + 1] EXCEPT !.end = cut]>>
<1>1. PICK n \in 0 .. Len(written), cut \in {"none", "key", "value"} :
          /\ cut # "none" => n < Len(written)
          /\ file' = FoldLeft(Written, file, C(n, cut))
  BY DEF CutShort
<1>2. written \in Seq(Lines) /\ FileOwn(written, measured) /\ file \in Seq(Lines) /\ FileOwn(file, measured)
  BY DEF HistType, OwnInv
<1>3. C(n, cut) \in Seq(Lines) /\ FileOwn(C(n, cut), measured)
  BY <1>1, <1>2, CutOwn
<1>4. torn \notin Peers
  BY DEF HistoryAssumption
<1> HIDE DEF C
<1> QED
  BY <1>1, <1>2, <1>3, <1>4, FlushedOwn

LEMMA PeekIs ==
    ASSUME NEW c \in Caches, NEW k
    PROVE  \A e \in Peek(c, k) : e \in Entries /\ e.key = k /\ \E i \in 1 .. Len(c) : c[i] = e
<1>1. c \in Seq(Entries) /\ DOMAIN c = 1 .. Len(c) /\ \A i \in 1 .. Len(c) : c[i] \in Entries
  BY DEF Caches
<1> QED
  BY <1>1 DEF Peek

LEMMA OwnInit == HistoryAssumption /\ Init => HistType /\ OwnInv
<1> SUFFICES ASSUME HistoryAssumption, Init PROVE HistType /\ OwnInv
  OBVIOUS
<1>1. /\ <<>> \in Seq(Lines) /\ <<>> \in Seq(Known) /\ Len(<<>>) = 0
  OBVIOUS
<1>2. HistType
  BY <1>1, EmptyCache DEF Init, HistType
<1>3. OwnInv
  BY <1>1, EmptyCache DEF Init, OwnInv, FileOwn
<1> QED
  BY <1>2, <1>3

LEMMA OwnStep ==
    ASSUME HistoryAssumption, HistType, OwnInv, [Next]_vars
    PROVE  HistType' /\ OwnInv'
<1>0. /\ Size \in Nat \ {0} /\ torn \notin Peers /\ Durs \subseteq Nat
  BY DEF HistoryAssumption
<1>1. /\ lruCache \in Caches /\ file \in Seq(Lines) /\ written \in Seq(Lines)
      /\ keys \in Seq(Known) /\ measured \in [Peers -> SUBSET Nat]
      /\ CacheOwn(lruCache, measured) /\ FileOwn(file, measured) /\ FileOwn(written, measured)
  BY DEF HistType, OwnInv
<1>2. <<>> \in Seq(Lines) /\ <<>> \in Seq(Known) /\ Len(<<>>) = 0 /\ \A m : FileOwn(<<>>, m)
  BY DEF FileOwn
<1>3. CASE Start
  <2>1. lruCache' \in Caches /\ CacheOwn(lruCache', measured)
    BY <1>0, <1>1, <1>3, LoadedOwn DEF Start
  <2>2. UNCHANGED <<file, written, keys, measured, complete>> /\ proc' = "up"
    BY <1>3 DEF Start, diskVars
  <2> QED
    BY <2>1, <2>2 DEF HistType, OwnInv
<1>4. ASSUME NEW g \in Routines, NEW p \in Peers, NEW tm \in Durs, UpdateAdd(g, p, tm)
      PROVE  HistType' /\ OwnInv'
  <2>1. /\ lruCache' = AddEntry(lruCache, Entry(p, tm))
        /\ measured' = [measured EXCEPT ![p] = @ \cup {tm}]
        /\ UNCHANGED <<file, written, keys, complete, proc>>
    BY <1>4 DEF UpdateAdd, diskVars
  <2>2. /\ measured' \in [Peers -> SUBSET Nat] /\ tm \in measured'[p]
        /\ \A q \in Peers : measured[q] \subseteq measured'[q]
    BY <1>0, <1>1, <2>1
  <2>3. CacheOwn(lruCache, measured') /\ FileOwn(file, measured') /\ FileOwn(written, measured')
    BY <2>2, OwnGrows
  <2>4. Entry(p, tm) \in Entries /\ Own(Entry(p, tm), measured')
    BY <1>0, <2>2 DEF Entry, Entries, Known, Own
  <2>5. lruCache' \in Caches /\ CacheOwn(lruCache', measured')
    BY <1>0, <1>1, <2>1, <2>3, <2>4, AddOwn
  <2> QED
    BY <2>1, <2>2, <2>3, <2>5 DEF HistType, OwnInv
<1>5. ASSUME NEW g \in Routines, LoadAvg(g) \/ ReadCount(g) \/ Inc(g) \/ StoreAvg(g)
      PROVE  HistType' /\ OwnInv'
  <2>1. UNCHANGED <<lruCache, file, written, keys, complete, proc, measured>>
    BY <1>5 DEF LoadAvg, ReadCount, Inc, StoreAvg, diskVars
  <2> QED
    BY <2>1 DEF HistType, OwnInv
<1>6. ASSUME NEW p \in Peers, FindTime(p)
      PROVE  HistType' /\ OwnInv'
  <2>1. PICK e \in Peek(lruCache, p) : lruCache' = AddEntry(lruCache, e)
    BY <1>6 DEF FindTime
  <2>2. e \in Entries /\ Own(e, measured)
    BY <1>1, PeekIs DEF CacheOwn
  <2>3. lruCache' \in Caches /\ CacheOwn(lruCache', measured)
    BY <1>0, <1>1, <2>1, <2>2, AddOwn
  <2>4. UNCHANGED <<file, written, keys, complete, proc, measured>>
    BY <1>6 DEF FindTime, diskVars
  <2> QED
    BY <2>3, <2>4 DEF HistType, OwnInv
<1>7. CASE BeginStore
  <2>1. /\ proc' = "storing" /\ keys' = Keys(lruCache) /\ written' = <<>>
        /\ UNCHANGED <<lruCache, file, complete, measured>>
    BY <1>7 DEF BeginStore, memVars
  <2>2. keys' \in Seq(Known) /\ Len(keys') \in Nat
    <3>1. /\ lruCache \in Seq(Entries) /\ DOMAIN lruCache = 1 .. Len(lruCache) /\ Len(lruCache) \in Nat
          /\ \A i \in 1 .. Len(lruCache) : lruCache[i].key \in Known
      <4>1. lruCache \in Seq(Entries)
        BY <1>1 DEF Caches
      <4>2. \A i \in 1 .. Len(lruCache) : lruCache[i] \in Entries
        BY <4>1
      <4>3. \A x \in Entries : x.key \in Known
        BY DEF Entries
      <4> QED
        BY <4>1, <4>2, <4>3
    <3>2. Keys(lruCache) = [i \in 1 .. Len(lruCache) |-> lruCache[i].key]
      BY <3>1 DEF Keys
    <3> QED
      BY <2>1, <3>1, <3>2
  <2> QED
    BY <1>2, <2>1, <2>2 DEF HistType, OwnInv
<1>8. CASE StoreEntry
  <2> DEFINE k == keys[Len(written) + 1]
  <2>1. /\ Len(written) < Len(keys)
        /\ UNCHANGED <<lruCache, file, keys, complete, proc, measured>>
    BY <1>8 DEF StoreEntry, memVars
  <2>2. PICK e \in Peek(lruCache, k) : written' = Append(written, Line(e))
    BY <1>8 DEF StoreEntry
  <2>3. e \in Entries /\ e.key = k /\ Own(e, measured)
    BY <1>1, PeekIs DEF CacheOwn
  <2> HIDE DEF k
  <2>4. Line(e) \in Lines /\ Line(e).key = k /\ Line(e).end = "line" /\ Own(Line(e), measured)
    BY <2>3 DEF Line, Lines, Entries, Ends, Own
  <2>5. /\ written' \in Seq(Lines) /\ Len(written') = Len(written) + 1 /\ Len(written) \in Nat
        /\ \A i \in 1 .. Len(written) : written'[i] = written[i]
        /\ written'[Len(written) + 1] = Line(e)
    BY <1>1, <2>2, <2>4, AppendProperties
  <2>6. ASSUME NEW i \in 1 .. Len(written')
        PROVE  /\ written'[i].key = keys[i] /\ written'[i].end = "line"
               /\ LineIs(written'[i]) => Own(written'[i], measured)
    <3>1. i \in 1 .. Len(written) \/ i = Len(written) + 1
      BY <2>5
    <3>2. CASE i \in 1 .. Len(written)
      BY <1>1, <2>5, <3>2 DEF HistType, FileOwn
    <3>3. CASE i = Len(written) + 1
      BY <2>4, <2>5, <3>3 DEF k
    <3> QED
      BY <3>1, <3>2, <3>3
  <2>7. FileOwn(written', measured)
    BY <2>6 DEF FileOwn
  <2>8. Len(written') <= Len(keys)
    BY <1>1, <2>1, <2>5
  <2> QED
    BY <2>1, <2>5, <2>6, <2>7, <2>8 DEF HistType, OwnInv
<1>9. CASE EndStore
  <2>1. /\ file' = FoldLeft(Written, file, written) /\ complete' = TRUE /\ proc' = "down"
        /\ lruCache' = <<>> /\ UNCHANGED <<keys, written, measured>>
    BY <1>9 DEF EndStore, Down
  <2>2. file' \in Seq(Lines) /\ FileOwn(file', measured)
    BY <1>0, <1>1, <2>1, FlushedOwn
  <2> QED
    BY <2>1, <2>2, EmptyCache DEF HistType, OwnInv
<1>10. CASE StorePanics \/ Kill
  <2>1. proc' = "down" /\ lruCache' = <<>> /\ UNCHANGED measured
    BY <1>10 DEF StorePanics, Kill, Down
  <2>2. CASE CutShort /\ complete' = FALSE /\ keys' = <<>> /\ written' = <<>>
    <3>1. file' \in Seq(Lines) /\ FileOwn(file', measured)
      BY <2>2, CutShortOwn
    <3>2. Len(written') = 0 /\ Len(keys') = 0 /\ written' \in Seq(Lines) /\ keys' \in Seq(Known)
          /\ FileOwn(written', measured)
      BY <1>2, <2>2
    <3>3. lruCache' \in Caches /\ CacheOwn(lruCache', measured)
      BY <2>1, EmptyCache
    <3>4. HistType'
      <4>1. /\ Len(written') <= Len(keys')
            /\ \A i \in 1 .. Len(written') : written'[i].key = keys'[i] /\ written'[i].end = "line"
        BY <3>2
      <4>2. measured' \in [Peers -> SUBSET Nat] /\ complete' \in BOOLEAN
            /\ proc' \in {"down", "up", "storing"}
        BY <1>1, <2>1, <2>2
      <4> QED
        BY <3>1, <3>2, <3>3, <4>1, <4>2 DEF HistType
    <3> QED
      BY <2>1, <3>1, <3>2, <3>3, <3>4 DEF OwnInv
  <2>3. CASE UNCHANGED <<file, complete, keys, written>>
    BY <2>1, <2>3, EmptyCache DEF HistType, OwnInv
  <2> QED
    BY <1>10, <2>2, <2>3 DEF StorePanics, Kill
<1>11. CASE UNCHANGED vars
  <2>1. UNCHANGED <<lruCache, file, written, keys, complete, proc, measured>>
    BY <1>11 DEF vars, memVars, diskVars
  <2> QED
    BY <2>1 DEF HistType, OwnInv
<1> QED
  BY <1>3, <1>4, <1>5, <1>6, <1>7, <1>8, <1>9, <1>10, <1>11 DEF Next, Store, Update

\* Whatever is torn, killed or evicted, and however many runs there are: a run never
\* starts with a time of a peer that was not measured of it
\* (PeerResponseHistory.go:266-307, 310-337).
THEOREM TimesAreMeasured == Spec => []OnlyMeasured
<1>1. HistoryAssumption
  BY HistoryAssumption
<1>2. Init => HistType /\ OwnInv
  BY <1>1, OwnInit
<1>3. HistType /\ OwnInv /\ [Next]_vars => (HistType /\ OwnInv)'
  BY <1>1, OwnStep
<1>4. HistType /\ OwnInv => OnlyMeasured
  <2> SUFFICES ASSUME HistType, OwnInv, NEW i \in DOMAIN Loaded(file)
               PROVE  Own(Loaded(file)[i], measured)
    BY DEF OnlyMeasured, Own
  <2>1. Loaded(file) \in Caches /\ CacheOwn(Loaded(file), measured)
    BY <1>1, LoadedOwn DEF HistType, OwnInv, HistoryAssumption
  <2>2. i \in 1 .. Len(Loaded(file))
    BY <2>1 DEF Caches
  <2> QED
    BY <2>1, <2>2 DEF CacheOwn
<1> QED
  BY <1>2, <1>3, <1>4, PTL DEF Spec

-----------------------------------------------------------------------------
(* What a Store wrote is what the next run loads *)

\* A whole line that no Store wrote.
Spoilt(l) == l.end = "line" /\ (l.key = torn \/ l.dur = -1)

\* f with n lines of w behind it.
Behind(g, f, w, n) ==
    /\ g \in Seq(Lines) /\ Len(g) = Len(f) + n
    /\ \A i \in 1 .. Len(f) : g[i] = f[i]
    /\ \A i \in 1 .. n : g[Len(f) + i] = w[i]

LEMMA WrittenAppends ==
    ASSUME NEW f \in Seq(Lines), NEW l \in Lines, f # <<>> => f[Len(f)].end = "line"
    PROVE  /\ Written(f, l) \in Seq(Lines) /\ Len(Written(f, l)) = Len(f) + 1
           /\ \A i \in 1 .. Len(f) : Written(f, l)[i] = f[i]
           /\ Written(f, l)[Len(f) + 1] = l
<1>1. Written(f, l) = Append(f, l)
  BY DEF Written, Last
<1>2. /\ Append(f, l) \in Seq(Lines) /\ Len(Append(f, l)) = Len(f) + 1
      /\ \A i \in 1 .. Len(f) : Append(f, l)[i] = f[i]
      /\ Append(f, l)[Len(f) + 1] = l
  BY AppendProperties
<1> QED
  BY <1>1, <1>2

\* Behind a whole line the buffer is appended as it is.
LEMMA FlushedBehind ==
    ASSUME NEW f \in Seq(Lines), NEW w \in Seq(Lines), f # <<>> => f[Len(f)].end = "line",
           \A i \in 1 .. Len(w) : w[i].end = "line"
    PROVE  Behind(FoldLeft(Written, f, w), f, w, Len(w))
<1> DEFINE N == Len(w)
           S == {n \in 0 .. N : Behind(WriteUpTo(f, w, n), f, w, n)}
<1>0. /\ N \in Nat /\ DOMAIN w = 1 .. N /\ Len(f) \in Nat
      /\ \A i \in 1 .. N : w[i] \in Lines
  OBVIOUS
<1>1. FoldLeft(Written, f, w) = WriteUpTo(f, w, N)
  BY <1>0, WriteIs DEF WriteUpTo
<1>2. 0 \in S
  <2>1. WriteUpTo(f, w, 0) = f
    BY <1>0, WriteFirst
  <2> QED
    BY <1>0, <2>1 DEF Behind
<1>9. \A i \in 1 .. N : w[i].end = "line"
  OBVIOUS
<1> HIDE DEF N
<1>3. ASSUME NEW n \in 0 .. (N - 1), n \in S
      PROVE  n + 1 \in S
  <2> DEFINE g == WriteUpTo(f, w, n)  l == w[n + 1]
  <2>1. n + 1 \in 1 .. N /\ n + 1 \in 0 .. N /\ n \in Nat
    BY <1>0
  <2>2. WriteUpTo(f, w, n + 1) = Written(g, l)
    BY <1>0, WriteNext
  <2>3. Behind(g, f, w, n)
    BY <1>3
  <2>4. l \in Lines
    BY <1>0, <2>1
  <2> HIDE DEF g
  <2>5. /\ g \in Seq(Lines) /\ Len(g) = Len(f) + n
        /\ \A i \in 1 .. Len(f) : g[i] = f[i]
        /\ \A i \in 1 .. n : g[Len(f) + i] = w[i]
    BY <2>3 DEF Behind
  <2>6. g # <<>> => g[Len(g)].end = "line"
    <3>1. CASE n = 0
      BY <1>0, <2>5, <3>1
    <3>2. CASE n # 0
      <4>1. n \in 1 .. n /\ n \in 1 .. N
        BY <1>0, <2>1, <3>2
      <4>2. g[Len(g)] = w[n]
        BY <2>5, <4>1
      <4> QED
        BY <1>9, <4>1, <4>2
    <3> QED
      BY <3>1, <3>2
  <2> HIDE DEF l
  <2>7. /\ Written(g, l) \in Seq(Lines) /\ Len(Written(g, l)) = Len(g) + 1
        /\ \A i \in 1 .. Len(g) : Written(g, l)[i] = g[i]
        /\ Written(g, l)[Len(g) + 1] = l
    BY <2>4, <2>5, <2>6, WrittenAppends
  <2>8. \A i \in 1 .. Len(f) : Written(g, l)[i] = f[i]
    <3> TAKE i \in 1 .. Len(f)
    <3>1. i \in 1 .. Len(g)
      BY <1>0, <2>1, <2>5
    <3> QED
      BY <2>5, <2>7, <3>1
  <2>9. \A i \in 1 .. (n + 1) : Written(g, l)[Len(f) + i] = w[i]
    <3> TAKE i \in 1 .. (n + 1)
    <3>1. CASE i = n + 1
      <4>1. Len(f) + i = Len(g) + 1
        BY <1>0, <2>1, <2>5, <3>1
      <4> QED
        BY <2>7, <3>1, <4>1 DEF l
    <3>2. CASE i # n + 1
      <4>1. i \in 1 .. n /\ Len(f) + i \in 1 .. Len(g)
        BY <1>0, <2>1, <2>5, <3>2
      <4> QED
        BY <2>5, <2>7, <4>1
    <3> QED
      BY <3>1, <3>2
  <2>10. Len(Written(g, l)) = Len(f) + (n + 1)
    BY <1>0, <2>1, <2>5, <2>7
  <2>11. Behind(Written(g, l), f, w, n + 1)
    BY <2>7, <2>8, <2>9, <2>10 DEF Behind
  <2> QED
    BY <2>1, <2>2, <2>11 DEF g
<1> HIDE DEF S
<1>4. \A n \in 0 .. N : n \in S
  BY <1>0, <1>2, <1>3, UpTo
<1>5. N \in 0 .. N
  BY <1>0
<1>6. Behind(WriteUpTo(f, w, N), f, w, N)
  BY <1>4, <1>5 DEF S
<1> QED
  BY <1>1, <1>6 DEF N

\* A cut line becomes one that shows.
LEMMA JoinedSpoilt ==
    ASSUME NEW cut \in Lines, NEW l \in Lines, cut.end # "line", l.end = "line"
    PROVE  Joined(cut, l) \in Lines /\ Spoilt(Joined(cut, l))
<1>1. CASE cut.end = "key"
  <2>1. Joined(cut, l) = [l EXCEPT !.key = torn]
    BY <1>1 DEF Joined
  <2>2. [l EXCEPT !.key = torn] \in Lines /\ [l EXCEPT !.key = torn].key = torn
        /\ [l EXCEPT !.key = torn].end = l.end
    BY DEF Lines, Known
  <2> QED
    BY <2>1, <2>2 DEF Spoilt
<1>2. CASE cut.end = "value"
  <2>1. Joined(cut, l) = [cut EXCEPT !.dur = -1, !.end = "line"]
    BY <1>2 DEF Joined
  <2>2. cut \in [key : Known, dur : Int, end : Ends] /\ -1 \in Int /\ "line" \in Ends
    BY DEF Lines, Ends
  <2> DEFINE z == -1
  <2> HIDE DEF z
  <2>3. z \in Int => [cut EXCEPT !.dur = z, !.end = "line"] \in [key : Known, dur : Int, end : Ends]
                     /\ [cut EXCEPT !.dur = z, !.end = "line"].dur = z
                     /\ [cut EXCEPT !.dur = z, !.end = "line"].end = "line"
    BY <2>2
  <2> QED
    BY <2>1, <2>2, <2>3 DEF Lines, Spoilt, z
<1>3. cut.end \in {"line", "key", "value"}
  BY DEF Lines, Ends
<1> QED
  BY <1>1, <1>2, <1>3

\* Behind a line that was cut, the first line of the buffer spoils the file for good.
LEMMA FlushedSpoilt ==
    ASSUME NEW f \in Seq(Lines), NEW w \in Seq(Lines), f # <<>>, f[Len(f)].end # "line",
           \A i \in 1 .. Len(w) : w[i].end = "line"
    PROVE  ~Intact(FoldLeft(Written, f, w))
<1> DEFINE N == Len(w)
           Bad(g) == g \in Seq(Lines) /\ Len(g) >= Len(f) /\ Spoilt(g[Len(f)])
                     /\ g[Len(g)].end = "line"
           S == {n \in 0 .. N : n = 0 \/ Bad(WriteUpTo(f, w, n))}
<1>0. /\ N \in Nat /\ DOMAIN w = 1 .. N /\ Len(f) \in Nat \ {0} /\ f[Len(f)] \in Lines
      /\ \A i \in 1 .. N : w[i] \in Lines /\ w[i].end = "line"
  OBVIOUS
<1>1. FoldLeft(Written, f, w) = WriteUpTo(f, w, N)
  BY <1>0, WriteIs DEF WriteUpTo
<1>2. WriteUpTo(f, w, 0) = f
  BY <1>0, WriteFirst
<1> HIDE DEF N
<1>3. 0 \in S
  BY <1>0
<1>4. ASSUME NEW n \in 0 .. (N - 1), n \in S
      PROVE  n + 1 \in S
  <2> DEFINE g == WriteUpTo(f, w, n)  l == w[n + 1]
  <2>1. n + 1 \in 1 .. N /\ n + 1 \in 0 .. N /\ n \in Nat
    BY <1>0
  <2>2. WriteUpTo(f, w, n + 1) = Written(g, l)
    BY <1>0, WriteNext
  <2>3. l \in Lines /\ l.end = "line"
    BY <1>0, <2>1
  <2>4. CASE n = 0
    <3> DEFINE j == Joined(f[Len(f)], l)  u == SubSeq(f, 1, Len(f) - 1)
    <3>1. j \in Lines /\ Spoilt(j)
      BY <1>0, <2>3, JoinedSpoilt
    <3>2. Written(g, l) = Append(u, j)
      BY <1>2, <2>4 DEF Written, Last, Front
    <3>3. u \in Seq(Lines) /\ Len(u) = Len(f) - 1
      <4>1. \A i \in 1 .. (Len(f) - 1) : f[i] \in Lines
        BY <1>0
      <4>2. /\ u \in Seq(Lines)
            /\ Len(u) = IF 1 <= Len(f) - 1 THEN Len(f) - 1 - 1 + 1 ELSE 0
        BY <1>0, <4>1, SubSeqProperties
      <4> HIDE DEF u
      <4>3. PICK k \in Nat : k = Len(f) /\ k > 0
        BY <1>0
      <4> QED
        BY <4>2, <4>3
    <3> HIDE DEF j, u
    <3>4. /\ Append(u, j) \in Seq(Lines) /\ Len(Append(u, j)) = Len(u) + 1
          /\ Append(u, j)[Len(u) + 1] = j
      BY <3>1, <3>3, AppendProperties
    <3>5. Len(u) + 1 = Len(f)
      BY <1>0, <3>3
    <3>6. Bad(Append(u, j))
      BY <1>0, <3>1, <3>4, <3>5 DEF Spoilt
    <3> QED
      BY <2>1, <2>2, <3>2, <3>6
  <2>5. CASE n # 0
    <3>1. Bad(g)
      BY <1>4, <2>5
    <3> HIDE DEF g, l
    <3>2. /\ Written(g, l) \in Seq(Lines) /\ Len(Written(g, l)) = Len(g) + 1
          /\ \A i \in 1 .. Len(g) : Written(g, l)[i] = g[i]
          /\ Written(g, l)[Len(g) + 1] = l
      BY <2>3, <3>1, WrittenAppends
    <3>3. Len(f) \in 1 .. Len(g) /\ Len(g) + 1 >= Len(f) /\ Len(g) \in Nat
      BY <1>0, <3>1
    <3>4. Bad(Written(g, l))
      BY <2>3, <3>1, <3>2, <3>3
    <3> QED
      BY <2>1, <2>2, <3>4 DEF g
  <2> QED
    BY <2>4, <2>5
<1> HIDE DEF S
<1>5. \A n \in 0 .. N : n \in S
  BY <1>0, <1>3, <1>4, UpTo
<1>6. N \in 0 .. N
  BY <1>0
<1>7. N = 0 \/ Bad(WriteUpTo(f, w, N))
  BY <1>5, <1>6 DEF S
<1>8. CASE N = 0
  <2>1. FoldLeft(Written, f, w) = f /\ Len(f) \in DOMAIN f
    BY <1>0, <1>1, <1>2, <1>8
  <2> QED
    BY <2>1 DEF Intact
<1>9. CASE Bad(WriteUpTo(f, w, N))
  <2> DEFINE g == WriteUpTo(f, w, N)
  <2>1. Len(f) \in DOMAIN g /\ Spoilt(g[Len(f)])
    <3>1. Bad(g)
      BY <1>9
    <3> HIDE DEF g
    <3> QED
      BY <1>0, <3>1
  <2> HIDE DEF g
  <2>2. ~Intact(g)
    BY <2>1 DEF Intact, Spoilt
  <2> QED
    BY <1>1, <2>2 DEF g
<1> QED
  BY <1>7, <1>8, <1>9

\* The newest entries of c are the first n of w.
Newest(c, w, n) ==
    /\ c \in Caches /\ Len(c) >= n
    /\ \A j \in 1 .. n : c[Len(c) - n + j] = Entry(w[j].key, w[j].dur)

LEMMA NewestStep ==
    ASSUME NEW c, NEW w \in Seq(Lines), NEW n \in Nat, n < Len(w), Len(w) <= Size,
           Size \in Nat \ {0},
           \A i, j \in 1 .. Len(w) : w[i].key = w[j].key => i = j,
           Newest(c, w, n)
    PROVE  /\ Newest(AddLine(c, w[n + 1]), w, n + 1)
           /\ KeySet(AddLine(c, w[n + 1])) \subseteq KeySet(c) \cup {w[n + 1].key}
<1> DEFINE e == Entry(w[n + 1].key, w[n + 1].dur)  d == AddEntry(c, e)
<1>0. /\ c \in Caches /\ c \in Seq(Entries) /\ Len(c) \in Nat /\ Len(c) >= n /\ Len(w) \in Nat
      /\ \A j \in 1 .. n : c[Len(c) - n + j] = Entry(w[j].key, w[j].dur)
  BY DEF Newest, Caches
<1>1. e \in Entries /\ e.key = w[n + 1].key
  <2>1. w[n + 1] \in Lines
    BY <1>0
  <2> QED
    BY <2>1 DEF Entry, Entries, Lines
<1>2. AddLine(c, w[n + 1]) = d
  BY DEF AddLine
<1>3. PICK from : AddedTo(d, c, e, from)
  BY <1>0, <1>1, AddShape
<1>4. \A j \in 1 .. n : /\ c[Len(c) - n + j].key = w[j].key
                        /\ w[j].key # e.key
  <2> TAKE j \in 1 .. n
  <2>1. j \in 1 .. Len(w) /\ n + 1 \in 1 .. Len(w) /\ j # n + 1
    BY <1>0
  <2>2. c[Len(c) - n + j].key = w[j].key
    <3>1. c[Len(c) - n + j] = Entry(w[j].key, w[j].dur)
      BY <1>0
    <3>2. Entry(w[j].key, w[j].dur).key = w[j].key
      BY DEF Entry
    <3> QED
      BY <3>1, <3>2
  <2> QED
    BY <1>1, <2>1, <2>2
<1>11. e = Entry(w[n + 1].key, w[n + 1].dur)
  OBVIOUS
<1> HIDE DEF d, e
<1>5. /\ d \in Caches /\ d \in Seq(Entries) /\ Len(d) \in Nat /\ Len(d) >= 1 /\ d[Len(d)] = e
      /\ Len(d) >= Len(c)
      /\ from \in [1 .. (Len(d) - 1) -> 1 .. Len(c)]
      /\ \A j \in 1 .. (Len(d) - 1) : d[j] = c[from[j]]
      /\ e.key \notin KeySet(c) => Len(d) = Len(c) + 1 \/ Len(d) = Size
      /\ \A i \in 1 .. Len(c) : (\A r \in 1 .. Len(c) : c[r].key = e.key => r < i) =>
            (i - Len(c) + Len(d) - 1 >= 1 => d[i - Len(c) + Len(d) - 1] = c[i])
  BY <1>3 DEF AddedTo, Caches
\* e is not among the newest n.
<1>6. \A r \in 1 .. Len(c) : c[r].key = e.key => r <= Len(c) - n
  <2> SUFFICES ASSUME NEW r \in 1 .. Len(c), r > Len(c) - n, c[r].key = e.key
               PROVE  FALSE
    BY <1>0
  <2>1. r - (Len(c) - n) \in 1 .. n /\ Len(c) - n + (r - (Len(c) - n)) = r
    BY <1>0
  <2> QED
    BY <1>4, <2>1
<1>7. Len(d) >= n + 1
  <2> SUFFICES ASSUME Len(d) = n PROVE FALSE
    BY <1>0, <1>5
  <2>1. Len(c) = n
    BY <1>0, <1>5
  <2>2. e.key \notin KeySet(c)
    <3> SUFFICES ASSUME NEW r \in 1 .. Len(c), c[r].key = e.key PROVE FALSE
      BY DEF KeySet
    <3>1. r <= Len(c) - n
      BY <1>6
    <3> QED
      BY <1>0, <2>1, <3>1
  <2> QED
    BY <1>0, <1>5, <2>1, <2>2
<1>8. ASSUME NEW j \in 1 .. (n + 1)
      PROVE  d[Len(d) - (n + 1) + j] = Entry(w[j].key, w[j].dur)
  <2>1. CASE j = n + 1
    <3>1. Len(d) - (n + 1) + j = Len(d)
      BY <1>5, <2>1
    <3> QED
      BY <1>5, <2>1, <3>1, <1>11
  <2>2. CASE j # n + 1
    <3> DEFINE i == Len(c) - n + j
    <3>1. j \in 1 .. n /\ i \in 1 .. Len(c) /\ Len(c) - n < i
      BY <1>0, <2>2
    <3>2. i - Len(c) + Len(d) - 1 = Len(d) - (n + 1) + j /\ Len(d) - (n + 1) + j >= 1
      BY <1>0, <1>5, <1>7, <3>1
    <3>3. c[i] = Entry(w[j].key, w[j].dur)
      BY <1>0, <3>1
    <3> HIDE DEF i
    <3>4. \A r \in 1 .. Len(c) : c[r].key = e.key => r < i
      BY <1>0, <1>6, <3>1
    <3>5. d[i - Len(c) + Len(d) - 1] = c[i]
      BY <1>5, <3>1, <3>2, <3>4
    <3> QED
      BY <3>2, <3>3, <3>5
  <2> QED
    BY <2>1, <2>2
<1>9. KeySet(d) \subseteq KeySet(c) \cup {e.key}
  <2> SUFFICES ASSUME NEW i \in 1 .. Len(d)
               PROVE  d[i].key = e.key \/ \E r \in 1 .. Len(c) : d[i].key = c[r].key
    BY DEF KeySet
  <2>1. CASE i = Len(d)
    BY <1>5, <2>1
  <2>2. CASE i # Len(d)
    <3>1. i \in 1 .. (Len(d) - 1)
      BY <1>5, <2>2
    <3>2. d[i] = c[from[i]] /\ from[i] \in 1 .. Len(c)
      BY <1>5, <3>1
    <3> QED
      BY <3>2
  <2> QED
    BY <2>1, <2>2
<1>10. Newest(d, w, n + 1)
  BY <1>5, <1>7, <1>8 DEF Newest
<1> QED
  BY <1>1, <1>2, <1>9, <1>10

\* w fills the cache, or has all keys of it.
Covers(K, n, f) == n = Size \/ KeySet(Loaded(f)) \subseteq K
LineKeys(w) == {w[i].key : i \in 1 .. Len(w)}

\* A file and the beginning of a longer one.
LEMMA ReadPrefix ==
    ASSUME NEW f \in Seq(Lines), NEW g \in Seq(Lines), Len(f) <= Len(g),
           \A i \in 1 .. Len(f) : g[i] = f[i]
    PROVE  ReadUpTo(f, Len(f)) = ReadUpTo(g, Len(f))
<1>1. PICK x \in Nat : x = Len(f) /\ DOMAIN f = 1 .. x
  OBVIOUS
<1>2. PICK y \in Nat : y = Len(g) /\ DOMAIN g = 1 .. y
  OBVIOUS
<1>3. x <= y /\ x <= x /\ \A i \in 1 .. x : f[i] = g[i]
  BY <1>1, <1>2
<1>4. \A n \in 0 .. x : ReadUpTo(f, n) = ReadUpTo(g, n)
  <2> HIDE DEF Lines
  <2> QED
    BY <1>1, <1>2, <1>3, ReadAgree
<1>5. x \in 0 .. x
  OBVIOUS
<1> QED
  BY <1>1, <1>4, <1>5

\* The cache holds w, and nothing else.
Recalls(f, w) ==
    /\ Loaded(f) \in Caches /\ Len(Loaded(f)) = Len(w)
    /\ \A j \in 1 .. Len(w) : Loaded(f)[j] = Entry(w[j].key, w[j].dur)

LEMMA FlushedRecalled ==
    ASSUME NEW f \in Seq(Lines), NEW w \in Seq(Lines), Size \in Nat \ {0}, Len(w) <= Size,
           \A i, j \in 1 .. Len(w) : w[i].key = w[j].key => i = j,
           \A i \in 1 .. Len(w) : w[i].end = "line",
           Covers(LineKeys(w), Len(w), f),
           Intact(FoldLeft(Written, f, w))
    PROVE  Recalls(FoldLeft(Written, f, w), w)
<1> DEFINE g == FoldLeft(Written, f, w)  L == Len(f)  N == Len(w)
           c(n) == ReadUpTo(g, L + n)
           S == {n \in 0 .. N : /\ Newest(c(n), w, n)
                                /\ KeySet(c(n)) \subseteq KeySet(Loaded(f)) \cup LineKeys(w)}
<1>1. f # <<>> => f[Len(f)].end = "line"
  BY FlushedSpoilt
<1>2. Behind(g, f, w, N)
  BY <1>1, FlushedBehind
<1>3. Intact(g)
  OBVIOUS
<1> HIDE DEF g
<1>4. /\ g \in Seq(Lines) /\ Len(g) = L + N /\ DOMAIN g = 1 .. (L + N) /\ L \in Nat /\ N \in Nat
      /\ \A i \in 1 .. L : g[i] = f[i]
      /\ \A i \in 1 .. N : g[L + i] = w[i]
  BY <1>2 DEF Behind
<1>5. Loaded(g) = ReadUpTo(g, L + N)
  <2>1. PICK m \in 0 .. Len(g) : /\ Loaded(g) = ReadUpTo(g, m)
                                 /\ Intact(g) => m = Len(g)
    BY <1>4, LoadedRead
  <2> QED
    BY <1>3, <1>4, <2>1
<1>6. Loaded(f) = c(0) /\ Loaded(f) \in Caches
  <2>1. \A i \in DOMAIN f : i \in DOMAIN g /\ g[i] = f[i]
    BY <1>4
  <2>2. Intact(f)
    BY <1>3, <2>1 DEF Intact
  <2>3. PICK m \in 0 .. Len(f) : /\ Loaded(f) = ReadUpTo(f, m)
                                 /\ Intact(f) => m = Len(f)
    BY LoadedRead
  <2>4. Loaded(f) = ReadUpTo(f, L)
    BY <2>2, <2>3
  <2>5. L + N \in Nat /\ L <= L + N /\ L <= L /\ DOMAIN f = 1 .. L /\ L \in 0 .. L /\ L + 0 = L
    BY <1>4
  <2>6. ReadUpTo(f, L) = ReadUpTo(g, L)
    BY <1>4, <2>5, ReadPrefix
  <2>7. Loaded(f) \in Caches
    <3> DEFINE any == [p \in Peers |-> Int]
    <3>1. \A i \in 1 .. Len(f) : f[i] \in Lines
      OBVIOUS
    <3>2. FileOwn(f, any)
      BY <3>1 DEF FileOwn, Own, Lines
    <3> HIDE DEF any
    <3> QED
      BY <3>2, LoadedOwn
  <2> QED
    BY <2>4, <2>5, <2>6, <2>7
<1>7. \A n \in 0 .. (N - 1) : c(n + 1) = AddLine(c(n), w[n + 1])
  <2> TAKE n \in 0 .. (N - 1)
  <2>1. L + n \in 0 .. (L + N - 1) /\ L + N \in Nat /\ (L + n) + 1 = L + (n + 1)
        /\ n + 1 \in 1 .. N
    BY <1>4
  <2>2. ReadUpTo(g, (L + n) + 1) = AddLine(ReadUpTo(g, L + n), g[(L + n) + 1])
    <3>1. PICK k \in Nat : k = L + N
      BY <2>1
    <3>2. PICK x \in 0 .. (k - 1) : x = L + n
      BY <2>1, <3>1
    <3>3. DOMAIN g = 1 .. k
      BY <1>4, <3>1
    <3>4. ReadUpTo(g, x + 1) = AddLine(ReadUpTo(g, x), g[x + 1])
      BY <3>3, ReadNext
    <3> QED
      BY <3>2, <3>4
  <2>3. g[L + (n + 1)] = w[n + 1]
    BY <1>4, <2>1
  <2> QED
    BY <2>1, <2>2, <2>3
<1>8. c(N) = Loaded(g)
  BY <1>5
<1>9. Len(w) = N
  OBVIOUS
<1> HIDE DEF c, N, L
<1>10. 0 \in S
  <2>1. Newest(c(0), w, 0)
    BY <1>6 DEF Newest, Caches
  <2> QED
    BY <1>4, <1>6, <2>1
<1>11. ASSUME NEW n \in 0 .. (N - 1), n \in S
       PROVE  n + 1 \in S
  <2>1. n \in Nat /\ n < Len(w) /\ n + 1 \in 0 .. N /\ n + 1 \in 1 .. Len(w)
    BY <1>4, <1>9
  <2>2. /\ Newest(AddLine(c(n), w[n + 1]), w, n + 1)
        /\ KeySet(AddLine(c(n), w[n + 1])) \subseteq KeySet(c(n)) \cup {w[n + 1].key}
    BY <1>11, <2>1, NewestStep
  <2>3. w[n + 1].key \in LineKeys(w)
    BY <2>1 DEF LineKeys
  <2> QED
    BY <1>7, <1>11, <2>1, <2>2, <2>3
<1> HIDE DEF S
<1>12. \A n \in 0 .. N : n \in S
  BY <1>4, <1>10, <1>11, UpTo
<1>13. N \in 0 .. N
  BY <1>4
<1>14. /\ Newest(Loaded(g), w, N)
       /\ KeySet(Loaded(g)) \subseteq KeySet(Loaded(f)) \cup LineKeys(w)
  BY <1>8, <1>12, <1>13 DEF S
<1> DEFINE d == Loaded(g)
<1> HIDE DEF d
<1>15. /\ d \in Caches /\ Len(d) \in Nat /\ Len(d) >= N /\ Len(d) <= Size
       /\ \A i, j \in 1 .. Len(d) : d[i].key = d[j].key => i = j
       /\ \A j \in 1 .. N : d[Len(d) - N + j] = Entry(w[j].key, w[j].dur)
  BY <1>14 DEF Newest, Caches, d
<1>16. Len(d) = N
  <2> SUFFICES ASSUME Len(d) > N PROVE FALSE
    BY <1>4, <1>15
  <2>1. N # Size
    BY <1>4, <1>15
  <2>2. KeySet(d) \subseteq LineKeys(w)
    BY <1>9, <1>14, <2>1 DEF Covers, d
  <2>3. 1 \in 1 .. Len(d)
    BY <1>4, <1>15
  <2>4. d[1].key \in LineKeys(w)
    BY <2>2, <2>3 DEF KeySet
  <2>5. PICK j \in 1 .. N : d[1].key = w[j].key
    BY <1>9, <2>4 DEF LineKeys
  <2>6. Len(d) - N + j \in 1 .. Len(d) /\ Len(d) - N + j # 1
    BY <1>4, <1>15
  <2>7. d[Len(d) - N + j].key = w[j].key
    <3>1. d[Len(d) - N + j] = Entry(w[j].key, w[j].dur)
      BY <1>15
    <3>2. Entry(w[j].key, w[j].dur).key = w[j].key
      BY DEF Entry
    <3> QED
      BY <3>1, <3>2
  <2> QED
    BY <1>15, <2>3, <2>5, <2>6, <2>7
<1>17. \A j \in 1 .. N : d[j] = Entry(w[j].key, w[j].dur)
  <2> TAKE j \in 1 .. N
  <2>1. Len(d) - N + j = j
    BY <1>4, <1>16
  <2> QED
    BY <1>15, <2>1
<1>18. Recalls(g, w)
  BY <1>9, <1>15, <1>16, <1>17 DEF Recalls, d
<1> QED
  BY <1>18 DEF g

KeyRange == {keys[i] : i \in 1 .. Len(keys)}

\* The file is what the last Store that ended left, and loads as that cache.
Remembered ==
    /\ Len(written) = Len(keys)
    /\ Recalls(file, written)

RememberInv ==
    /\ Len(keys) <= Size
    /\ \A i, j \in 1 .. Len(keys) : keys[i] = keys[j] => i = j
    /\ proc # "down" => Covers(KeySet(lruCache), Len(lruCache), file)
    /\ proc = "storing" => Covers(KeyRange, Len(keys), file)
    /\ proc # "storing" /\ complete /\ Intact(file) => Remembered

\* No entry goes for good unless the cache is full.
LEMMA AddCovers ==
    ASSUME NEW c \in Caches, NEW e \in Entries, NEW f, Size \in Nat \ {0},
           Covers(KeySet(c), Len(c), f)
    PROVE  Covers(KeySet(AddEntry(c, e)), Len(AddEntry(c, e)), f)
<1> DEFINE d == AddEntry(c, e)
<1>1. PICK from : AddedTo(d, c, e, from)
  BY AddShape
<1> HIDE DEF d
<1>2. /\ Len(d) >= Len(c) /\ Len(d) <= Size /\ Len(d) \in Nat /\ Len(c) \in Nat
      /\ Len(d) = Size \/ KeySet(c) \subseteq KeySet(d)
  BY <1>1 DEF AddedTo, Caches
<1>3. CASE Len(c) = Size
  BY <1>2, <1>3 DEF Covers, d
<1>4. CASE KeySet(Loaded(f)) \subseteq KeySet(c)
  BY <1>2, <1>4 DEF Covers, d
<1> QED
  BY <1>3, <1>4 DEF Covers

LEMMA EmptyRecalled == HistoryAssumption => Recalls(<<>>, <<>>)
<1> SUFFICES ASSUME HistoryAssumption PROVE Recalls(<<>>, <<>>)
  OBVIOUS
<1>1. <<>> \in Seq(Lines) /\ Len(<<>>) = 0 /\ DOMAIN <<>> = 1 .. 0
  OBVIOUS
<1>2. PICK m \in 0 .. Len(<<>>) : Loaded(<<>>) = ReadUpTo(<<>>, m)
  BY <1>1, LoadedRead
<1>3. m = 0
  BY <1>1, <1>2
<1>4. ReadUpTo(<<>>, 0) = <<>>
  BY <1>1, ReadSteps
<1>5. Loaded(<<>>) = <<>>
  BY <1>2, <1>3, <1>4
<1> QED
  BY <1>1, <1>5, EmptyCache DEF Recalls

LEMMA RememberInit == HistoryAssumption /\ Init => RememberInv
<1> SUFFICES ASSUME HistoryAssumption, Init PROVE RememberInv
  OBVIOUS
<1>1. keys = <<>> /\ Len(keys) = 0 /\ written = <<>> /\ file = <<>> /\ proc = "down"
  BY DEF Init
<1>2. Remembered
  BY <1>1, EmptyRecalled DEF Remembered
<1> QED
  BY <1>1, <1>2 DEF RememberInv, HistoryAssumption

LEMMA EndStoreRecalls ==
    ASSUME HistoryAssumption, HistType, RememberInv, EndStore, Intact(file')
    PROVE  Remembered'
<1>1. /\ proc = "storing" /\ Len(written) = Len(keys)
      /\ file' = FoldLeft(Written, file, written)
      /\ UNCHANGED <<keys, written>>
  BY DEF EndStore
<1>2. /\ file \in Seq(Lines) /\ written \in Seq(Lines) /\ Len(written) <= Size
      /\ Size \in Nat \ {0}
      /\ \A i \in 1 .. Len(written) : written[i].key = keys[i] /\ written[i].end = "line"
  BY <1>1 DEF HistType, RememberInv, HistoryAssumption
<1>3. \A i, j \in 1 .. Len(written) : written[i].key = written[j].key => i = j
  BY <1>1, <1>2 DEF RememberInv
<1>4. LineKeys(written) = KeyRange
  BY <1>1, <1>2 DEF LineKeys, KeyRange
<1>5. Covers(LineKeys(written), Len(written), file)
  BY <1>1, <1>4 DEF RememberInv
<1>6. Recalls(file', written)
  BY <1>1, <1>2, <1>3, <1>5, FlushedRecalled
<1> QED
  BY <1>1, <1>6 DEF Remembered

LEMMA RememberStep ==
    ASSUME HistoryAssumption, HistType, RememberInv, [Next]_vars
    PROVE  RememberInv'
<1>0. Size \in Nat \ {0} /\ lruCache \in Caches /\ Len(<<>>) = 0
  BY DEF HistoryAssumption, HistType
<1>1. ASSUME UNCHANGED <<file, keys, written, complete, proc>>,
             proc # "down" => Covers(KeySet(lruCache'), Len(lruCache'), file)
      PROVE  RememberInv'
  BY <1>1 DEF RememberInv, Remembered, KeyRange
<1>2. ASSUME NEW e \in Entries, lruCache' = AddEntry(lruCache, e),
             UNCHANGED <<file, keys, written, complete, proc>>
      PROVE  RememberInv'
  <2>1. proc # "down" => Covers(KeySet(lruCache'), Len(lruCache'), file)
    BY <1>0, <1>2, AddCovers DEF RememberInv
  <2> QED
    BY <1>1, <1>2, <2>1
<1>3. CASE Start
  <2>1. /\ proc = "down" /\ proc' = "up" /\ lruCache' = Loaded(file)
        /\ UNCHANGED <<file, keys, written, complete>>
    BY <1>3 DEF Start, diskVars
  <2>2. Covers(KeySet(lruCache'), Len(lruCache'), file)
    BY <2>1 DEF Covers
  <2> QED
    BY <2>1, <2>2 DEF RememberInv, Remembered
<1>4. ASSUME NEW g \in Routines, NEW p \in Peers, NEW tm \in Durs, UpdateAdd(g, p, tm)
      PROVE  RememberInv'
  <2>1. lruCache' = AddEntry(lruCache, Entry(p, tm)) /\ UNCHANGED <<file, keys, written, complete, proc>>
    BY <1>4 DEF UpdateAdd, diskVars
  <2>2. Entry(p, tm) \in Entries
    BY DEF Entry, Entries, Known, HistoryAssumption
  <2> QED
    BY <1>2, <2>1, <2>2
<1>5. ASSUME NEW g \in Routines, LoadAvg(g) \/ ReadCount(g) \/ Inc(g) \/ StoreAvg(g)
      PROVE  RememberInv'
  <2>1. UNCHANGED <<lruCache, file, keys, written, complete, proc>>
    BY <1>5 DEF LoadAvg, ReadCount, Inc, StoreAvg, diskVars
  <2> QED
    BY <1>1, <2>1 DEF RememberInv
<1>6. ASSUME NEW p \in Peers, FindTime(p)
      PROVE  RememberInv'
  <2>1. PICK e \in Peek(lruCache, p) : lruCache' = AddEntry(lruCache, e)
    BY <1>6 DEF FindTime
  <2>2. e \in Entries
    BY <1>0, PeekIs
  <2>3. UNCHANGED <<file, keys, written, complete, proc>>
    BY <1>6 DEF FindTime, diskVars
  <2> QED
    BY <1>2, <2>1, <2>2, <2>3
<1>7. CASE BeginStore
  <2>1. /\ proc = "up" /\ proc' = "storing" /\ keys' = Keys(lruCache) /\ written' = <<>>
        /\ UNCHANGED <<lruCache, file, complete>>
    BY <1>7 DEF BeginStore, memVars
  <2>2. /\ lruCache \in Seq(Entries) /\ DOMAIN lruCache = 1 .. Len(lruCache)
        /\ Len(lruCache) \in Nat /\ Len(lruCache) <= Size
        /\ \A i, j \in 1 .. Len(lruCache) : lruCache[i].key = lruCache[j].key => i = j
    BY <1>0 DEF Caches
  <2>3. /\ Len(keys') = Len(lruCache)
        /\ \A i \in 1 .. Len(lruCache) : keys'[i] = lruCache[i].key
    BY <2>1, <2>2 DEF Keys
  <2>4. KeyRange' = KeySet(lruCache)
    BY <2>3 DEF KeyRange, KeySet
  <2>5. Covers(KeySet(lruCache), Len(lruCache), file)
    BY <2>1 DEF RememberInv
  <2> QED
    BY <2>1, <2>2, <2>3, <2>4, <2>5 DEF RememberInv
<1>8. CASE StoreEntry
  <2>1. proc = "storing" /\ UNCHANGED <<lruCache, file, keys, complete, proc>>
    BY <1>8 DEF StoreEntry, memVars
  <2>2. KeyRange' = KeyRange
    BY <2>1 DEF KeyRange
  <2> QED
    BY <2>1, <2>2 DEF RememberInv
<1>9. CASE EndStore
  <2>1. proc' = "down" /\ UNCHANGED keys
    BY <1>9 DEF EndStore, Down
  <2>2. Intact(file') => Remembered'
    BY <1>9, EndStoreRecalls
  <2> QED
    BY <2>1, <2>2 DEF RememberInv
<1>10. CASE StorePanics \/ Kill
  <2>1. proc' = "down"
    BY <1>10 DEF StorePanics, Kill, Down
  <2>2. CASE complete' = FALSE /\ keys' = <<>>
    <3>1. Len(keys') = 0
      BY <2>2
    <3> QED
      BY <1>0, <2>1, <2>2, <3>1 DEF RememberInv
  <2>3. CASE proc # "storing" /\ UNCHANGED <<file, complete, keys, written>>
    BY <2>1, <2>3 DEF RememberInv, Remembered
  <2> QED
    BY <1>10, <2>2, <2>3 DEF StorePanics, Kill
<1>11. CASE UNCHANGED vars
  <2>1. UNCHANGED <<lruCache, file, keys, written, complete, proc>>
    BY <1>11 DEF vars, memVars, diskVars
  <2> QED
    BY <1>1, <2>1 DEF RememberInv
<1> QED
  BY <1>3, <1>4, <1>5, <1>6, <1>7, <1>8, <1>9, <1>10, <1>11 DEF Next, Store, Update

\* After a Store that ended, and with no torn line in the file, the next run loads
\* exactly what was stored, in the same order, whatever older runs left in front of it
\* (PeerResponseHistory.go:266-307, 310-337).
THEOREM StoredIsLoaded == Spec => []RestartRemembers
<1>1. HistoryAssumption
  BY HistoryAssumption
<1>2. Init => HistType /\ OwnInv /\ RememberInv
  BY <1>1, OwnInit, RememberInit
<1>3. HistType /\ OwnInv /\ RememberInv /\ [Next]_vars => (HistType /\ OwnInv /\ RememberInv)'
  BY <1>1, OwnStep, RememberStep
<1>4. HistType /\ RememberInv => RestartRemembers
  <2> SUFFICES ASSUME HistType, RememberInv, proc = "down", complete, Intact(file)
               PROVE  /\ Keys(Loaded(file)) = keys
                      /\ \A i \in DOMAIN keys : Loaded(file)[i].dur = written[i].dur
    BY DEF RestartRemembers
  <2> DEFINE d == Loaded(file)
  <2>1. Len(written) = Len(keys) /\ Recalls(file, written)
    BY DEF RememberInv, Remembered
  <2>2. /\ d \in Caches /\ Len(d) = Len(keys)
        /\ \A j \in 1 .. Len(keys) : d[j] = Entry(written[j].key, written[j].dur)
    BY <2>1 DEF Recalls
  <2> HIDE DEF d
  <2>3. d \in Seq(Entries) /\ DOMAIN d = 1 .. Len(keys)
    BY <2>2 DEF Caches
  <2>4. keys \in Seq(Known) /\ DOMAIN keys = 1 .. Len(keys)
    BY DEF HistType
  <2>5. \A j \in 1 .. Len(keys) : d[j].key = keys[j] /\ d[j].dur = written[j].dur
    <3> TAKE j \in 1 .. Len(keys)
    <3>1. d[j] = Entry(written[j].key, written[j].dur) /\ written[j].key = keys[j]
      BY <2>1, <2>2 DEF HistType
    <3>2. /\ Entry(written[j].key, written[j].dur).key = written[j].key
          /\ Entry(written[j].key, written[j].dur).dur = written[j].dur
      BY DEF Entry
    <3> QED
      BY <3>1, <3>2
  <2>6. Keys(d) = [j \in 1 .. Len(keys) |-> keys[j]]
    BY <2>3, <2>5 DEF Keys
  <2>7. keys = [j \in 1 .. Len(keys) |-> keys[j]]
    BY <2>4
  <2>8. Keys(d) = keys
    BY <2>6, <2>7
  <2> QED
    BY <2>4, <2>5, <2>8 DEF d
<1> QED
  BY <1>2, <1>3, <1>4, PTL DEF Spec
=============================================================================
