--------------------------- MODULE DownloadProofs ---------------------------
(***************************************************************************)
(* What Download records is never more than happened, and exact for blocks *)
(* whose handlers never met; a thread that was alone reports its own file; *)
(* no cid is forgotten.  For any files, threads, peers and goroutines of   *)
(* bitswap, and any calls it makes for a block.                            *)
(***************************************************************************)
EXTENDS Download, FiniteSetTheorems, WellFoundedInduction, TLAPS

-----------------------------------------------------------------------------
(* Sums: what Total adds up does not depend on the order of the blocks *)

Pick(s) == CHOOSE x \in s : TRUE
IsSum(n, D, g) ==
    g = [s \in SUBSET D |-> IF s = {} THEN 0 ELSE n[Pick(s)] + g[s \ {Pick(s)}]]

LEMMA TotalIsSum ==
    ASSUME NEW n
    PROVE  Total(n) = (CHOOSE g : IsSum(n, DOMAIN n, g))[DOMAIN n]
  BY DEF Total, MapThenSumSet, MapThenFoldSet, IsSum, Pick

LEMMA PickIn == \A s : s # {} => Pick(s) \in s
  BY DEF Pick

LEMMA LeastSubset ==
    ASSUME NEW S, IsFiniteSet(S), NEW T \in SUBSET SUBSET S, T # {}
    PROVE  \E x \in T : \A y \in T : y \subseteq x => y = x
<1>0. T \subseteq FiniteSubsetsOf(S)
  BY FS_Subset DEF FiniteSubsetsOf
<1>1. IsWellFoundedOn(StrictSubsetOrdering(S), FiniteSubsetsOf(S))
  BY FS_StrictSubsetOrderingWellFounded
<1>2. \A y, x \in T : y \subseteq x /\ y # x => <<y, x>> \in StrictSubsetOrdering(S)
  BY <1>0 DEF StrictSubsetOrdering, FiniteSubsetsOf
<1>3. PICK n \in T : \A y \in T : ~(<<y, n>> \in StrictSubsetOrdering(S))
  BY <1>0, <1>1, WFMin, Zenon
<1> QED
  BY <1>2, <1>3

LEMMA SumUnique ==
    ASSUME NEW n, NEW D, IsFiniteSet(D), NEW g, NEW h, IsSum(n, D, g), IsSum(n, D, h)
    PROVE  g = h
<1> DEFINE T == {s \in SUBSET D : g[s] # h[s]}
<1>0. \A s \in SUBSET D : g[s] = IF s = {} THEN 0 ELSE n[Pick(s)] + g[s \ {Pick(s)}]
  BY DEF IsSum
<1>1. \A s \in SUBSET D : h[s] = IF s = {} THEN 0 ELSE n[Pick(s)] + h[s \ {Pick(s)}]
  BY DEF IsSum
<1>2. ASSUME T # {} PROVE FALSE
  <2>0. T \in SUBSET SUBSET D
    OBVIOUS
  <2>1. \E s \in T : \A y \in T : y \subseteq s => y = s
    <3> HIDE DEF T
    <3> QED
      BY <1>2, <2>0, LeastSubset
  <2>2. PICK s \in T : \A y \in T : y \subseteq s => y = s
    BY <2>1
  <2>3. s # {}
    BY <2>2, <1>0, <1>1
  <2>4. s \ {Pick(s)} \in SUBSET D /\ s \ {Pick(s)} # s
    BY <2>3, PickIn
  <2>5. g[s \ {Pick(s)}] = h[s \ {Pick(s)}]
    BY <2>2, <2>4
  <2> QED
    BY <2>2, <2>3, <2>5, <1>0, <1>1
<1>3. g = [s \in SUBSET D |-> g[s]]
  BY DEF IsSum
<1>4. h = [s \in SUBSET D |-> h[s]]
  BY DEF IsSum
<1> QED
  BY <1>2, <1>3, <1>4

LEMMA SumRestrict ==
    ASSUME NEW n, NEW D, NEW E \in SUBSET D, NEW g, IsSum(n, D, g),
           NEW h, h = [s \in SUBSET E |-> g[s]]
    PROVE  IsSum(n, E, h)
<1>0. \A s \in SUBSET D : g[s] = IF s = {} THEN 0 ELSE n[Pick(s)] + g[s \ {Pick(s)}]
  BY DEF IsSum
<1>1. \A s \in SUBSET E : h[s] = IF s = {} THEN 0 ELSE n[Pick(s)] + h[s \ {Pick(s)}]
  BY <1>0
<1>2. h = [s \in SUBSET E |-> h[s]]
  OBVIOUS
<1>3. h = [s \in SUBSET E |-> IF s = {} THEN 0 ELSE n[Pick(s)] + h[s \ {Pick(s)}]]
  BY <1>1, <1>2
<1> QED
  BY <1>3 DEF IsSum

LEMMA SumAgree ==
    ASSUME NEW n, NEW D, NEW E \in SUBSET D, IsFiniteSet(E),
           NEW g, NEW h, IsSum(n, D, g), IsSum(n, E, h)
    PROVE  h[E] = g[E]
<1>1. PICK k : k = [s \in SUBSET E |-> g[s]]
  OBVIOUS
<1>2. IsSum(n, E, k)
  BY <1>1, SumRestrict
<1>3. h = k
  BY <1>2, SumUnique
<1> QED
  BY <1>1, <1>3

LEMMA SumExists ==
    ASSUME NEW n, NEW D, IsFiniteSet(D)
    PROVE  \E g : IsSum(n, D, g)
<1> DEFINE T == {s \in SUBSET D : ~\E g : IsSum(n, s, g)}
<1> DEFINE G(s) == CHOOSE g : IsSum(n, s, g)
<1>0. ASSUME NEW t \in SUBSET D, \A s \in SUBSET t : s # t => \E g : IsSum(n, s, g)
      PROVE  \E g : IsSum(n, t, g)
  <2> DEFINE sum == [s \in SUBSET t |->
                       IF s = {} THEN 0 ELSE n[Pick(s)] + G(s \ {Pick(s)})[s \ {Pick(s)}]]
  <2>1. \A s \in SUBSET t : s # t => IsSum(n, s, G(s))
    BY <1>0
  <2>2. \A s \in SUBSET t : s # t => sum[s] = G(s)[s]
    <3> SUFFICES ASSUME NEW s \in SUBSET t, s # t
                 PROVE  sum[s] = G(s)[s]
      OBVIOUS
    <3> DEFINE u == s \ {Pick(s)}
    <3>1. CASE s = {}
      <4>1. IsSum(n, s, G(s))
        BY <2>1
      <4> HIDE DEF G
      <4>2. G(s)[s] = 0
        BY <4>1, <3>1 DEF IsSum
      <4> QED
        BY <4>2, <3>1
    <3>2. CASE s # {}
      <4>1. u \in SUBSET s /\ u \in SUBSET t /\ u # t /\ IsFiniteSet(u)
        BY FS_Subset
      <4>2. IsSum(n, s, G(s)) /\ IsSum(n, u, G(u))
        BY <2>1, <4>1
      <4> HIDE DEF u
      <4>3. G(s)[s] = n[Pick(s)] + G(s)[u]
        BY <4>2, <3>2 DEF IsSum, u
      <4> HIDE DEF G
      <4>4. G(u)[u] = G(s)[u]
        BY <4>1, <4>2, SumAgree
      <4> QED
        BY <4>3, <4>4, <3>2 DEF u
    <3> QED
      BY <3>1, <3>2
  <2>3. \A s \in SUBSET t : s # {} => s \ {Pick(s)} \in SUBSET t /\ s \ {Pick(s)} # t
    BY PickIn
  <2> HIDE DEF G
  <2>4. \A s \in SUBSET t : sum[s] = IF s = {} THEN 0 ELSE n[Pick(s)] + sum[s \ {Pick(s)}]
    BY <2>2, <2>3
  <2>5. sum = [s \in SUBSET t |-> sum[s]]
    OBVIOUS
  <2> HIDE DEF sum
  <2>6. IsSum(n, t, sum)
    BY <2>4, <2>5 DEF IsSum
  <2> QED
    BY <2>6
<1>1. T \in SUBSET SUBSET D
  OBVIOUS
<1>2. ASSUME T # {} PROVE FALSE
  <2>1. \E s \in T : \A y \in T : y \subseteq s => y = s
    <3> HIDE DEF T
    <3> QED
      BY <1>1, <1>2, LeastSubset
  <2>2. PICK s \in T : \A y \in T : y \subseteq s => y = s
    BY <2>1
  <2>3. \A u \in SUBSET s : u # s => u \in SUBSET D /\ u \notin T
    BY <2>2
  <2>4. \E g : IsSum(n, s, g)
    BY <2>3, <1>0
  <2> QED
    BY <2>4
<1> QED
  BY <1>2

\* A sum of naturals over s, for s inside the domain.
Sum(n, D) == CHOOSE g : IsSum(n, D, g)

LEMMA SumEmpty ==
    ASSUME NEW n, NEW D, IsFiniteSet(D)
    PROVE  \A s : s = {} => Sum(n, D)[s] = 0
<1>1. IsSum(n, D, Sum(n, D))
  BY SumExists DEF Sum
<1> QED
  BY <1>1 DEF IsSum

LEMMA SumStep ==
    ASSUME NEW n, NEW D, IsFiniteSet(D)
    PROVE  \A s \in SUBSET D : s # {} =>
               Sum(n, D)[s] = n[Pick(s)] + Sum(n, D)[s \ {Pick(s)}]
<1>1. IsSum(n, D, Sum(n, D))
  BY SumExists DEF Sum
<1> QED
  BY <1>1 DEF IsSum

LEMMA SumNat ==
    ASSUME NEW n, NEW D, IsFiniteSet(D), \A c \in D : n[c] \in Nat
    PROVE  \A s \in SUBSET D : Sum(n, D)[s] \in Nat
<1> DEFINE T == {s \in SUBSET D : Sum(n, D)[s] \notin Nat}
<1>0. \A s \in SUBSET D : s # {} =>
          Sum(n, D)[s] = n[Pick(s)] + Sum(n, D)[s \ {Pick(s)}]
  BY SumStep
<1>1. T \in SUBSET SUBSET D
  OBVIOUS
<1>2. ASSUME T # {} PROVE FALSE
  <2>1. \E s \in T : \A y \in T : y \subseteq s => y = s
    <3> HIDE DEF T
    <3> QED
      BY <1>1, <1>2, LeastSubset
  <2>2. PICK s \in T : \A y \in T : y \subseteq s => y = s
    BY <2>1
  <2>3. s # {}
    BY <2>2, SumEmpty
  <2>4. s \ {Pick(s)} \in SUBSET D /\ s \ {Pick(s)} # s /\ Pick(s) \in s
    BY <2>3, PickIn
  <2>5. Sum(n, D)[s \ {Pick(s)}] \in Nat
    BY <2>2, <2>4
  <2>6. Sum(n, D)[s] = n[Pick(s)] + Sum(n, D)[s \ {Pick(s)}]
    BY <2>2, <2>3, <1>0
  <2> QED
    BY <2>2, <2>4, <2>5, <2>6
<1> QED
  BY <1>2

\* Which block is taken out first does not matter.
LEMMA SumAny ==
    ASSUME NEW n, NEW D, IsFiniteSet(D), \A c \in D : n[c] \in Nat
    PROVE  \A s \in SUBSET D : \A x \in s : Sum(n, D)[s] = n[x] + Sum(n, D)[s \ {x}]
<1> DEFINE T == {s \in SUBSET D : \E x \in s : Sum(n, D)[s] # n[x] + Sum(n, D)[s \ {x}]}
<1>0. \A s \in SUBSET D : s # {} =>
          Sum(n, D)[s] = n[Pick(s)] + Sum(n, D)[s \ {Pick(s)}]
  BY SumStep
<1>1. T \in SUBSET SUBSET D
  OBVIOUS
<1>2. ASSUME T # {} PROVE FALSE
  <2>1. \E s \in T : \A y \in T : y \subseteq s => y = s
    <3> HIDE DEF T
    <3> QED
      BY <1>1, <1>2, LeastSubset
  <2>2. PICK s \in T : \A y \in T : y \subseteq s => y = s
    BY <2>1
  <2>3. PICK x \in s : Sum(n, D)[s] # n[x] + Sum(n, D)[s \ {x}]
    OBVIOUS
  <2> DEFINE y == Pick(s)
  <2>4. y \in s /\ s \in SUBSET D /\ s # {}
    BY <2>3, PickIn
  <2>5. Sum(n, D)[s] = n[y] + Sum(n, D)[s \ {y}]
    BY <2>4, <1>0
  <2> HIDE DEF y
  <2>6. x # y
    BY <2>3, <2>5
  <2>7. s \ {y} \in SUBSET D /\ s \ {y} # s /\ s \ {x} \in SUBSET D /\ s \ {x} # s
    BY <2>4
  <2>8. Sum(n, D)[s \ {y}] = n[x] + Sum(n, D)[(s \ {y}) \ {x}]
    <3>1. s \ {y} \notin T /\ x \in s \ {y}
      BY <2>2, <2>6, <2>7
    <3> QED
      BY <2>7, <3>1
  <2>9. Sum(n, D)[s \ {x}] = n[y] + Sum(n, D)[(s \ {x}) \ {y}]
    <3>1. s \ {x} \notin T /\ y \in s \ {x}
      BY <2>2, <2>4, <2>6, <2>7
    <3> QED
      BY <2>7, <3>1
  <2>10. (s \ {y}) \ {x} = (s \ {x}) \ {y}
    OBVIOUS
  <2>11. n[x] \in Nat /\ n[y] \in Nat /\ Sum(n, D)[(s \ {x}) \ {y}] \in Nat
    BY <2>4, SumNat
  <2>12. Sum(n, D)[s \ {y}] = n[x] + Sum(n, D)[(s \ {x}) \ {y}]
    BY <2>8, <2>10
  <2>13. n[y] + Sum(n, D)[s \ {y}] = n[x] + Sum(n, D)[s \ {x}]
    BY <2>9, <2>11, <2>12
  <2> QED
    BY <2>3, <2>5, <2>13
<1> QED
  BY <1>2

\* More blocks have a greater sum.
LEMMA SumGrows ==
    ASSUME NEW n, NEW D, IsFiniteSet(D), \A c \in D : n[c] \in Nat
    PROVE  \A s \in SUBSET D : Sum(n, D)[s] <= Sum(n, D)[D]
<1> DEFINE T == {s \in SUBSET D : ~(Sum(n, D)[D \ s] <= Sum(n, D)[D])}
<1>1. T \in SUBSET SUBSET D
  OBVIOUS
<1>2. ASSUME T # {} PROVE FALSE
  <2>1. \E s \in T : \A y \in T : y \subseteq s => y = s
    <3> HIDE DEF T
    <3> QED
      BY <1>1, <1>2, LeastSubset
  <2>2. PICK s \in T : \A y \in T : y \subseteq s => y = s
    BY <2>1
  <2>3. Sum(n, D)[D] \in Nat /\ D \ {} = D
    BY SumNat
  <2>4. ASSUME s = {} PROVE FALSE
    <3>1. Sum(n, D)[D \ s] = Sum(n, D)[D]
      BY <2>4, <2>3
    <3> QED
      BY <2>2, <2>3, <3>1
  <2>5. PICK x \in s : TRUE
    BY <2>4
  <2> DEFINE u == s \ {x}
  <2>6. u \in SUBSET D /\ u # s /\ u \subseteq s
    BY <2>2
  <2>7. D \ u \in SUBSET D /\ x \in D \ u /\ (D \ u) \ {x} = D \ s
    BY <2>2
  <2>8. Sum(n, D)[D \ u] <= Sum(n, D)[D]
    BY <2>2, <2>6
  <2> HIDE DEF u
  <2>9. Sum(n, D)[D \ u] = n[x] + Sum(n, D)[D \ s]
    BY <2>7, SumAny
  <2>10. n[x] \in Nat /\ Sum(n, D)[D \ u] \in Nat /\ Sum(n, D)[D \ s] \in Nat
    BY <2>7, SumNat
  <2> QED
    BY <2>2, <2>3, <2>8, <2>9, <2>10
<1>3. \A s \in SUBSET D : D \ (D \ s) = s /\ D \ s \in SUBSET D
  OBVIOUS
<1>4. \A s \in SUBSET D : Sum(n, D)[D \ s] <= Sum(n, D)[D]
  BY <1>2
<1> QED
  BY <1>3, <1>4

\* Greater counts have a greater sum.
LEMMA SumBelow ==
    ASSUME NEW n, NEW E, NEW m, NEW D, IsFiniteSet(D), E \in SUBSET D,
           \A c \in D : m[c] \in Nat,
           \A c \in E : n[c] \in Nat /\ n[c] <= m[c]
    PROVE  Sum(n, E)[E] <= Sum(m, D)[E]
<1> DEFINE T == {s \in SUBSET E : ~(Sum(n, E)[s] <= Sum(m, D)[s])}
<1>0. IsFiniteSet(E) /\ \A s \in SUBSET E : s \in SUBSET D
  BY FS_Subset
<1>4. \A s \in SUBSET E : s # {} =>
          Sum(n, E)[s] = n[Pick(s)] + Sum(n, E)[s \ {Pick(s)}]
  BY <1>0, SumStep
<1>5. \A s \in SUBSET D : s # {} =>
          Sum(m, D)[s] = m[Pick(s)] + Sum(m, D)[s \ {Pick(s)}]
  BY SumStep
<1>1. T \in SUBSET SUBSET E
  OBVIOUS
<1>2. ASSUME T # {} PROVE FALSE
  <2>1. \E s \in T : \A y \in T : y \subseteq s => y = s
    <3> HIDE DEF T
    <3> QED
      BY <1>0, <1>1, <1>2, LeastSubset
  <2>2. PICK s \in T : \A y \in T : y \subseteq s => y = s
    BY <2>1
  <2>3. s # {}
    BY <2>2, <1>0, SumEmpty
  <2>4. s \ {Pick(s)} \in SUBSET E /\ s \ {Pick(s)} # s /\ Pick(s) \in s /\ Pick(s) \in E
    BY <2>3, PickIn
  <2>5. Sum(n, E)[s \ {Pick(s)}] <= Sum(m, D)[s \ {Pick(s)}]
    BY <2>2, <2>4
  <2>6. Sum(n, E)[s] = n[Pick(s)] + Sum(n, E)[s \ {Pick(s)}]
    BY <2>2, <2>3, <1>0, <1>4
  <2>7. Sum(m, D)[s] = m[Pick(s)] + Sum(m, D)[s \ {Pick(s)}]
    BY <2>2, <2>3, <1>0, <1>5
  <2>8. /\ Sum(n, E)[s \ {Pick(s)}] \in Nat /\ Sum(m, D)[s \ {Pick(s)}] \in Nat
        /\ n[Pick(s)] \in Nat /\ m[Pick(s)] \in Nat /\ n[Pick(s)] <= m[Pick(s)]
    BY <2>4, <1>0, SumNat
  <2>9. ~(Sum(n, E)[s] <= Sum(m, D)[s])
    BY <2>2
  <2> QED
    BY <2>5, <2>6, <2>7, <2>8, <2>9
<1>3. E \in SUBSET E
  OBVIOUS
<1> QED
  BY <1>2, <1>3

\* A total of counts of some blocks is at most the total of counts that are no smaller, of all.
LEMMA TotalBelow ==
    ASSUME NEW n, NEW m, IsFiniteSet(DOMAIN m), DOMAIN n \subseteq DOMAIN m,
           \A c \in DOMAIN m : m[c] \in Nat,
           \A c \in DOMAIN n : n[c] \in Nat /\ n[c] <= m[c]
    PROVE  Total(n) \in Nat /\ Total(m) \in Nat /\ Total(n) <= Total(m)
<1>1. IsFiniteSet(DOMAIN n)
  BY FS_Subset
<1>2. Total(n) = Sum(n, DOMAIN n)[DOMAIN n] /\ Total(m) = Sum(m, DOMAIN m)[DOMAIN m]
  BY TotalIsSum DEF Sum
<1>3. Sum(n, DOMAIN n)[DOMAIN n] <= Sum(m, DOMAIN m)[DOMAIN n]
  BY SumBelow
<1>4. Sum(m, DOMAIN m)[DOMAIN n] <= Sum(m, DOMAIN m)[DOMAIN m]
  BY SumGrows
<1>5. /\ Sum(n, DOMAIN n)[DOMAIN n] \in Nat
      /\ Sum(m, DOMAIN m)[DOMAIN n] \in Nat
      /\ Sum(m, DOMAIN m)[DOMAIN m] \in Nat
  BY <1>1, SumNat
<1> QED
  BY <1>2, <1>3, <1>4, <1>5

-----------------------------------------------------------------------------
(* Types *)

Names == (BlockCalls \ {"NewBlockEvent"}) \cup PeerCalls
Marks == {<<>>} \cup (Threads \X Nat)
Events ==
    [BlockServiceGet : Nat, GetBlocksRequest : Nat, FirstWantTo : [Peers -> Nat],
     FirstFindProvider : Nat, FirstGotProvider : [Peers -> Nat], FirstReceive : Nat,
     ReceiveFrom : Peers \cup {""}, FirstPutStore : Nat, BeginVisit : Nat, FinishVisit : Nat,
     NumOfRedundantReqs : Nat, NumOfRedundantBlks : Nat]
Monitors ==
    [EventList : UNION {[D -> Events] : D \in SUBSET Blocks}, Root : Blocks \cup {""},
     GetStartTime : Marks, GetFinishTime : Marks]
Calling == [name : Names, c : Blocks, p : Peers \cup {NoPeer}, be : Events]
Reports ==
    [blocks : SUBSET Blocks, negative : BOOLEAN, realtime : {<<>>} \cup (Marks \X Marks),
     blks : Nat, reqs : Nat]
Points == {"next", "get", "write", "breakdown", "totals", "replace", "provide", "done"}

New == <<"NewBlockEvent", NoPeer>>

ThreadType ==
    /\ pc \in [Threads -> Points] /\ file \in [Threads -> Nat]
    /\ \A t \in Threads : /\ file[t] <= Len(fileCid[t])
                          /\ AtWork(t) => file[t] > 0
    /\ stopped \in [Threads -> BOOLEAN] /\ returned \in BOOLEAN
    /\ failed \in BOOLEAN /\ disturbed \in [Threads -> BOOLEAN]

CallType ==
    /\ BDMonitor \in Monitors
    /\ call \in [Goroutines -> {NoCall} \cup Calling]
    /\ received \in [Blocks -> Nat] /\ lateWants \in [Blocks -> Nat]
    /\ overlapped \in SUBSET Blocks
    /\ report \in [Threads -> Reports]

\* The calls made for c took places in an order.
MadeOK(c) ==
    /\ DOMAIN made[c] \subseteq CallsOf[c]
    /\ \A x \in DOMAIN made[c] : made[c][x] \in 1 .. Cardinality(DOMAIN made[c])

MadeType == made = [c \in Blocks |-> made[c]] /\ \A c \in Blocks : MadeOK(c)

\* A block is new to bitswap before NewBlockEvent and in the list after it.
BlockOK(c) ==
    /\ c \in DOMAIN BDMonitor.EventList => New \in DOMAIN made[c]
    /\ New \notin DOMAIN made[c] =>
          DOMAIN made[c] = {} /\ received[c] = 0 /\ lateWants[c] = 0

\* A handler under way has an event of the list and is the only one to make its call.
CallOK(g) ==
    call[g] # NoCall =>
        LET h == call[g] IN
        /\ h.c \in DOMAIN BDMonitor.EventList
        /\ <<h.name, h.p>> \in CallsOf[h.c] \ DOMAIN made[h.c]
        /\ \A o \in Goroutines \ {g} :
               call[o] # NoCall => <<call[o].c, call[o].name, call[o].p>> # <<h.c, h.name, h.p>>

TypeInv ==
    /\ ThreadType /\ CallType /\ MadeType
    /\ \A c \in Blocks : BlockOK(c)
    /\ \A g \in Goroutines : CallOK(g)

-----------------------------------------------------------------------------
(* Facts about the constants *)

LEMMA ThreadsNat == concurrentGet \in Nat /\ concurrentGet > 0 /\ Threads \subseteq Nat /\ 0 \in Threads
<1>1. concurrentGet \in Nat \ {0}
  BY DownloadAssumption
<1> QED
  BY <1>1 DEF Threads

LEMMA CallsShape ==
    ASSUME NEW c \in Blocks, NEW name, NEW p, <<name, p>> \in CallsOf[c]
    PROVE  /\ \/ name \in BlockCalls /\ p = NoPeer
              \/ name \in PeerCalls /\ p \in Peers
           /\ name # "NewBlockEvent" => name \in Names
  BY DownloadAssumption DEF BlockCalls, PeerCalls, Names

LEMMA PairOfCall ==
    ASSUME NEW c \in Blocks, NEW x \in CallsOf[c]
    PROVE  <<x[1], x[2]>> = x /\ <<x[1], x[2]>> \in CallsOf[c]
<1>1. x \in (BlockCalls \X {NoPeer}) \cup (PeerCalls \X Peers)
  BY DownloadAssumption
<1>2. <<x[1], x[2]>> = x
  BY <1>1
<1> QED
  BY <1>2

LEMMA MadeFinite ==
    ASSUME NEW c \in Blocks, DOMAIN made[c] \subseteq CallsOf[c]
    PROVE  IsFiniteSet(DOMAIN made[c]) /\ Cardinality(DOMAIN made[c]) \in Nat
  BY DownloadAssumption, FS_Subset, FS_CardinalityType

\* The fields of an event.
LEMMA EventFields ==
    ASSUME NEW be \in Events
    PROVE  /\ be.BlockServiceGet \in Nat /\ be.GetBlocksRequest \in Nat
           /\ be.FirstFindProvider \in Nat /\ be.FirstReceive \in Nat
           /\ be.FirstPutStore \in Nat /\ be.BeginVisit \in Nat /\ be.FinishVisit \in Nat
           /\ be.NumOfRedundantReqs \in Nat /\ be.NumOfRedundantBlks \in Nat
           /\ be.FirstWantTo \in [Peers -> Nat] /\ be.FirstGotProvider \in [Peers -> Nat]
           /\ be.ReceiveFrom \in Peers \cup {""}
  BY DEF Events

LEMMA NewIsEvent == NewEvent \in Events
  BY DEF NewEvent, Events, NoTimes

LEMMA NewIsMonitor == NewMonitor \in Monitors /\ DOMAIN NewMonitor.EventList = {}
<1>1. [c \in {} |-> NewEvent] \in [{} -> Events]
  OBVIOUS
<1>2. [c \in {} |-> NewEvent] \in UNION {[D -> Events] : D \in SUBSET Blocks}
  BY <1>1
<1> QED
  BY <1>2 DEF NewMonitor, Monitors, Marks

\* The list of a monitor.
LEMMA ListShape ==
    ASSUME NEW m \in Monitors
    PROVE  /\ DOMAIN m.EventList \subseteq Blocks
           /\ m.EventList = [c \in DOMAIN m.EventList |-> m.EventList[c]]
           /\ \A c \in DOMAIN m.EventList : m.EventList[c] \in Events
<1>1. PICK D \in SUBSET Blocks : m.EventList \in [D -> Events]
  BY DEF Monitors
<1> QED
  BY <1>1

\* A store changes one event of the list.
LEMMA StoreShape ==
    ASSUME NEW m \in Monitors, NEW c \in DOMAIN m.EventList, NEW e \in Events, NEW n,
           n = [m EXCEPT !.EventList[c] = e]
    PROVE  /\ n \in Monitors
           /\ DOMAIN n.EventList = DOMAIN m.EventList
           /\ n.EventList[c] = e
           /\ \A d \in DOMAIN m.EventList : d # c => n.EventList[d] = m.EventList[d]
           /\ n.GetStartTime = m.GetStartTime /\ n.GetFinishTime = m.GetFinishTime
           /\ n.Root = m.Root
<1>1. n.EventList = [m.EventList EXCEPT ![c] = e]
  BY DEF Monitors
<1>2. n.EventList \in [DOMAIN m.EventList -> Events]
  BY <1>1, ListShape
<1>3. n.EventList \in UNION {[D -> Events] : D \in SUBSET Blocks}
  BY <1>2, ListShape
<1>4. /\ n.GetStartTime = m.GetStartTime /\ n.GetFinishTime = m.GetFinishTime
      /\ n.Root = m.Root /\ n \in Monitors
  BY <1>3 DEF Monitors
<1>5. /\ DOMAIN n.EventList = DOMAIN m.EventList /\ n.EventList[c] = e
      /\ \A d \in DOMAIN m.EventList : d # c => n.EventList[d] = m.EventList[d]
  BY <1>1
<1> QED
  BY <1>4, <1>5

LEMMA StoresIs ==
    ASSUME NEW be, NEW p, NEW t
    PROVE  /\ Stores("BlockServiceGet", be, p, t) = BlockServiceGet(be, t)
           /\ Stores("BitswapGet", be, p, t) = BitswapGet(be, t)
           /\ Stores("SendWant", be, p, t) = SendWant(be, p, t)
           /\ Stores("FindProviders", be, p, t) = FindProviders(be, t)
           /\ Stores("FoundProvide", be, p, t) = FoundProvide(be, p, t)
           /\ Stores("ReceiveBlock", be, p, t) = ReceiveBlock(be, p, t)
           /\ Stores("PutStore", be, p, t) = PutStore(be, t)
           /\ Stores("BeginVisit", be, p, t) = BeginVisit(be, t)
           /\ Stores("FinishVisit", be, p, t) = FinishVisit(be, t)
  BY DEF Stores

LEMMA NamesAre ==
    Names = {"BlockServiceGet", "BitswapGet", "FindProviders", "PutStore", "BeginVisit",
             "FinishVisit", "FoundProvide", "SendWant", "ReceiveBlock"}
  BY DEF Names, BlockCalls, PeerCalls

\* What a handler makes of an event is an event.
LEMMA HandlersType ==
    ASSUME NEW name \in Names, NEW be \in Events, NEW p, NEW t \in Nat,
           name \in PeerCalls => p \in Peers
    PROVE  Stores(name, be, p, t) \subseteq Events
<1>1. /\ BlockServiceGet(be, t) \subseteq Events /\ BitswapGet(be, t) \subseteq Events
      /\ BeginVisit(be, t) \subseteq Events /\ FinishVisit(be, t) \subseteq Events
  <2>1. BlockServiceGet(be, t) \subseteq Events
    BY DEF BlockServiceGet, Events
  <2>2. BitswapGet(be, t) \subseteq Events
    BY DEF BitswapGet, Events
  <2>3. BeginVisit(be, t) \subseteq Events
    BY DEF BeginVisit, Events
  <2>4. FinishVisit(be, t) \subseteq Events
    BY DEF FinishVisit, Events
  <2> QED
    BY <2>1, <2>2, <2>3, <2>4
<1>2. FindProviders(be, t) \subseteq Events /\ PutStore(be, t) \subseteq Events
  <2>1. FindProviders(be, t) \subseteq Events
    BY DEF FindProviders, Events
  <2>2. PutStore(be, t) \subseteq Events
    BY DEF PutStore, Events
  <2> QED
    BY <2>1, <2>2
<1>3. ASSUME p \in Peers PROVE SendWant(be, p, t) \subseteq Events
  <2> DEFINE n == be.NumOfRedundantReqs + (IF be.FirstReceive # 0 THEN 1 ELSE 0)
  <2>0. be.NumOfRedundantReqs \in Nat
    BY EventFields
  <2>1. n \in Nat
    BY <2>0
  <2>2. PICK w \in [Peers -> Nat] :
            w = [be.FirstWantTo EXCEPT ![p] = IF @ = 0 THEN t ELSE @]
    BY <1>3 DEF Events
  <2>3. SendWant(be, p, t) = {[be EXCEPT !.NumOfRedundantReqs = n, !.FirstWantTo = w]}
    BY <2>2 DEF SendWant
  <2> HIDE DEF n
  <2>4. [be EXCEPT !.NumOfRedundantReqs = n, !.FirstWantTo = w] \in Events
    BY <2>1 DEF Events
  <2> QED
    BY <2>3, <2>4
<1>4. ASSUME p \in Peers PROVE FoundProvide(be, p, t) \subseteq Events
  <2>1. PICK w \in [Peers -> Nat] : w = [be.FirstGotProvider EXCEPT ![p] = t]
    BY <1>4 DEF Events
  <2>2. FoundProvide(be, p, t) \subseteq {[be EXCEPT !.FirstGotProvider = w]}
    BY <2>1 DEF FoundProvide
  <2>3. [be EXCEPT !.FirstGotProvider = w] \in Events
    BY DEF Events
  <2> QED
    BY <2>2, <2>3
<1>5. ASSUME p \in Peers PROVE ReceiveBlock(be, p, t) \subseteq Events
  <2>1. [be EXCEPT !.FirstReceive = t, !.ReceiveFrom = p] \in Events
    BY <1>5 DEF Events
  <2> DEFINE n == be.NumOfRedundantBlks + 1
  <2>0. be.NumOfRedundantBlks \in Nat
    BY EventFields
  <2>2. n \in Nat
    BY <2>0
  <2> HIDE DEF n
  <2>3. [be EXCEPT !.NumOfRedundantBlks = n] \in Events
    BY <2>2 DEF Events
  <2> QED
    BY <2>1, <2>3 DEF ReceiveBlock, n
<1> QED
  BY <1>1, <1>2, <1>3, <1>4, <1>5, StoresIs, NamesAre DEF PeerCalls

\* A call that is made gets the next time of its block.
LEMMA MadeStep ==
    ASSUME MadeType, NEW c \in Blocks, NEW name, NEW p, Made(c, name, p),
           <<name, p>> \notin DOMAIN made[c]
    PROVE  /\ made' = [d \in Blocks |-> made'[d]]
           /\ \A d \in Blocks \ {c} : made'[d] = made[d]
           /\ DOMAIN made'[c] = DOMAIN made[c] \cup {<<name, p>>}
           /\ made'[c][<<name, p>>] = Now(c)
           /\ \A x \in DOMAIN made[c] : made'[c][x] = made[c][x]
           /\ Now(c) \in Nat /\ Now(c) > 0
           /\ Cardinality(DOMAIN made'[c]) = Now(c)
           /\ \A x \in DOMAIN made[c] : made[c][x] < Now(c)
<1> DEFINE x == <<name, p>>
<1>2. made' = [made EXCEPT ![c] = Put(@, x, Now(c))]
  BY DEF Made
<1>3. made'[c] = Put(made[c], x, Now(c)) /\ \A d \in Blocks \ {c} : made'[d] = made[d]
  BY <1>2 DEF MadeType
<1>5. DOMAIN made'[c] = DOMAIN made[c] \cup {x}
  BY <1>3 DEF Put
<1>6. made'[c][x] = Now(c) /\ \A y \in DOMAIN made[c] : made'[c][y] = made[c][y]
  BY <1>3 DEF Put
<1>7. IsFiniteSet(DOMAIN made[c]) /\ Cardinality(DOMAIN made[c]) \in Nat
  BY MadeFinite DEF MadeType, MadeOK
<1>8. Cardinality(DOMAIN made'[c]) = Now(c)
  BY <1>5, <1>7, FS_AddElement DEF Now
<1>9. made' = [d \in Blocks |-> made'[d]]
  BY <1>2 DEF MadeType
<1> QED
  BY <1>3, <1>5, <1>6, <1>7, <1>8, <1>9 DEF Now, MadeType, MadeOK
-----------------------------------------------------------------------------
(* The files of a thread *)

LEMMA NatLeast ==
    ASSUME NEW S \in SUBSET Nat, S # {}
    PROVE  \E n \in S : \A m \in S : n <= m
<1> DEFINE R == OpToRel(<, Nat)
<1>1. IsWellFoundedOn(R, Nat)
  BY NatLessThanWellFounded
<1>2. \A x, y \in Nat : y < x => <<y, x>> \in R
  BY DEF OpToRel
<1> HIDE DEF R
<1>3. PICK n \in S : \A y \in S : ~(<<y, n>> \in R)
  BY <1>1, WFMin, Zenon
<1>4. \A m \in S : ~(m < n) /\ m \in Nat /\ n \in Nat
  BY <1>2, <1>3
<1> QED
  BY <1>4

Upto(t, n) == {x \in Dealt(t) : x <= n}
Rank(t, n) == Cardinality(Upto(t, n))

LEMMA DealtFinite ==
    ASSUME NEW t
    PROVE  /\ Dealt(t) \subseteq 1 .. Len(CidFile) /\ Len(CidFile) \in Nat
           /\ IsFiniteSet(Dealt(t)) /\ Cardinality(Dealt(t)) \in Nat
           /\ \A n : IsFiniteSet(Upto(t, n)) /\ Rank(t, n) \in Nat
<1>1. CidFile \in Seq(Blocks)
  BY DownloadAssumption
<1>2. DOMAIN CidFile = 1 .. Len(CidFile) /\ Len(CidFile) \in Nat
  BY <1>1
<1>3. IsFiniteSet(1 .. Len(CidFile))
  BY <1>2, FS_Interval
<1>4. Dealt(t) \subseteq 1 .. Len(CidFile)
  BY <1>2 DEF Dealt, LinesRead
<1>5. IsFiniteSet(Dealt(t)) /\ Cardinality(Dealt(t)) \in Nat
  BY <1>3, <1>4, FS_Subset, FS_CardinalityType
<1>6. \A n : Upto(t, n) \subseteq Dealt(t)
  BY DEF Upto
<1> QED
  BY <1>2, <1>4, <1>5, <1>6, FS_Subset, FS_CardinalityType DEF Rank

LEMMA RankSteps ==
    ASSUME NEW t, NEW n \in Nat \ {0}
    PROVE  Rank(t, n) = Rank(t, n - 1) + (IF n \in Dealt(t) THEN 1 ELSE 0)
<1>1. \A x \in Dealt(t) : x \in Nat
  BY DealtFinite
<1>2. CASE n \in Dealt(t)
  <2>0. \A x \in Dealt(t) : x <= n <=> x <= n - 1 \/ x = n
    BY <1>1
  <2>1. Upto(t, n) = Upto(t, n - 1) \cup {n}
    BY <1>2, <2>0 DEF Upto
  <2>2. n \notin Upto(t, n - 1)
    BY DEF Upto
  <2> QED
    BY <1>2, <2>1, <2>2, DealtFinite, FS_AddElement DEF Rank
<1>3. CASE n \notin Dealt(t)
  <2>1. Upto(t, n) = Upto(t, n - 1)
    BY <1>1, <1>3 DEF Upto
  <2>2. Rank(t, n - 1) \in Nat
    BY DealtFinite
  <2> QED
    BY <1>3, <2>1, <2>2 DEF Rank
<1> QED
  BY <1>2, <1>3

\* The files of a thread are numbered from 1 without gaps.
LEMMA RankHit ==
    ASSUME NEW t, NEW k \in 1 .. Cardinality(Dealt(t))
    PROVE  \E i \in Dealt(t) : Rank(t, i) = k
<1> DEFINE S == {n \in Nat : Rank(t, n) >= k}
<1>0. \A n : Rank(t, n) \in Nat
  BY DealtFinite
<1>1. Len(CidFile) \in S
  <2>1. Upto(t, Len(CidFile)) = Dealt(t)
    BY DealtFinite DEF Upto
  <2> QED
    BY <2>1, DealtFinite DEF Rank
<1>2. 0 \notin S
  <2>1. Upto(t, 0) = {}
    BY DealtFinite DEF Upto
  <2> QED
    BY <2>1, FS_EmptySet DEF Rank
<1>3. PICK n \in S : \A m \in S : n <= m
  <2>1. S \in SUBSET Nat /\ S # {}
    BY <1>1
  <2> HIDE DEF S
  <2> QED
    BY <2>1, NatLeast
<1>4. n \in Nat \ {0} /\ n - 1 \in Nat /\ n - 1 \notin S
  BY <1>2, <1>3
<1>5. Rank(t, n - 1) < k /\ Rank(t, n) >= k
  BY <1>0, <1>3, <1>4
<1>6. Rank(t, n) = Rank(t, n - 1) + (IF n \in Dealt(t) THEN 1 ELSE 0)
  BY <1>4, RankSteps
<1> QED
  BY <1>0, <1>5, <1>6

LEMMA RankUnique ==
    ASSUME NEW t, NEW i \in Dealt(t), NEW j \in Dealt(t), Rank(t, i) = Rank(t, j)
    PROVE  i = j
<1>1. ASSUME NEW a \in Dealt(t), NEW b \in Dealt(t), a < b, Rank(t, a) = Rank(t, b) PROVE FALSE
  <2>1. a \in Nat /\ b \in Nat
    BY DealtFinite
  <2>2. Upto(t, a) \in SUBSET Upto(t, b) /\ b \in Upto(t, b) /\ b \notin Upto(t, a)
    BY <1>1, <2>1, DealtFinite DEF Upto
  <2>3. Upto(t, b) = Upto(t, a)
    BY <1>1, <2>2, DealtFinite, FS_Subset DEF Rank
  <2> QED
    BY <2>2, <2>3
<1>2. i \in Nat /\ j \in Nat
  BY DealtFinite
<1> QED
  BY <1>1, <1>2

\* A thread has the cids dealt to it, each once and in their order.
LEMMA FilesOf ==
    ASSUME NEW t \in Threads
    PROVE  /\ Len(fileCid[t]) = Cardinality(Dealt(t))
           /\ DOMAIN fileCid[t] = 1 .. Len(fileCid[t])
           /\ Len(fileCid[t]) \in Nat
           /\ \A k \in 1 .. Len(fileCid[t]) : \E i \in Dealt(t) : fileCid[t][k] = CidFile[i]
           /\ \A i \in Dealt(t) : \E k \in 1 .. Len(fileCid[t]) : fileCid[t][k] = CidFile[i]
<1> DEFINE N == Cardinality(Dealt(t))
<1> DEFINE at(k) == CHOOSE i \in Dealt(t) : Rank(t, i) = k
<1>1. fileCid[t] = [k \in 1 .. N |-> CidFile[at(k)]]
  BY DEF fileCid, Rank, Upto
<1>2. \A k \in 1 .. N : at(k) \in Dealt(t) /\ Rank(t, at(k)) = k
  BY RankHit
<1>3. N \in Nat
  BY DealtFinite
<1>4. \A i \in Dealt(t) : CidFile[i] \in Blocks
  <2>1. CidFile \in Seq(Blocks)
    BY DownloadAssumption
  <2> QED
    BY <2>1 DEF Dealt, LinesRead
<1> HIDE DEF at, N
<1>5. fileCid[t] \in Seq(Blocks)
  <2>1. fileCid[t] \in [1 .. N -> Blocks]
    BY <1>1, <1>2, <1>4
  <2> QED
    BY <1>3, <2>1
<1>6. Len(fileCid[t]) = N /\ DOMAIN fileCid[t] = 1 .. N
  BY <1>1, <1>3, <1>5
<1>7. ASSUME NEW i \in Dealt(t) PROVE \E k \in 1 .. N : fileCid[t][k] = CidFile[i]
  <2> DEFINE k == Rank(t, i)
  <2>1. k \in 1 .. N
    <3>1. i \in Upto(t, i) /\ Upto(t, i) \in SUBSET Dealt(t)
      BY DealtFinite DEF Upto
    <3>2. Upto(t, i) # {} /\ Rank(t, i) \in Nat /\ Rank(t, i) <= N
      BY <3>1, DealtFinite, FS_Subset DEF Rank, N
    <3>3. Rank(t, i) # 0
      BY <3>2, DealtFinite, FS_EmptySet DEF Rank
    <3> QED
      BY <3>2, <3>3, <1>3
  <2>2. at(k) = i
    BY <1>2, <2>1, RankUnique
  <2> QED
    BY <1>1, <2>1, <2>2
<1> QED
  BY <1>1, <1>2, <1>3, <1>6, <1>7 DEF N

-----------------------------------------------------------------------------
(* Type correctness *)

\* What a thread does besides replacing the monitor.
Quiet(t) ==
    \/ Begin(t) \/ Finish(t) \/ GetReturns(t) \/ FileFails(t) \/ WriteReturns(t)
    \/ CollectBreakdown(t) \/ CollectTotals(t) \/ Provide(t) \/ ProvideFails(t)

\* The threads leave the blocks alone, but for ReplaceMonitor.
LEMMA QuietFrame ==
    ASSUME CallType, ThreadType, NEW t \in Threads, Quiet(t) \/ Wait
    PROVE  /\ UNCHANGED callVars
           /\ BDMonitor' \in Monitors
           /\ BDMonitor'.EventList = BDMonitor.EventList
           /\ BDMonitor'.Root = BDMonitor.Root
<1>1. CASE Begin(t)
  <2>1. file'[t] \in Nat
    BY <1>1 DEF Begin, ThreadType
  <2>2. <<t, file'[t]>> \in Marks
    BY <2>1 DEF Marks
  <2>3. BDMonitor' = [BDMonitor EXCEPT !.GetStartTime = <<t, file'[t]>>] /\ UNCHANGED callVars
    BY <1>1 DEF Begin
  <2> QED
    BY <2>2, <2>3 DEF CallType, Monitors
<1>2. CASE WriteReturns(t)
  <2>2. <<t, file[t]>> \in Marks
    BY DEF Marks, ThreadType
  <2>3. BDMonitor' = [BDMonitor EXCEPT !.GetFinishTime = <<t, file[t]>>] /\ UNCHANGED callVars
    BY <1>2 DEF WriteReturns
  <2> QED
    BY <2>2, <2>3 DEF CallType, Monitors
<1>3. CASE Finish(t) \/ GetReturns(t) \/ FileFails(t) \/ Provide(t) \/ ProvideFails(t) \/ Wait
  <2>1. UNCHANGED <<BDMonitor, callVars>>
    BY <1>3 DEF Finish, GetReturns, FileFails, Provide, ProvideFails, Wait
  <2> QED
    BY <2>1 DEF CallType
<1>4. CASE CollectBreakdown(t) \/ CollectTotals(t)
  <2>1. UNCHANGED <<BDMonitor, callVars>>
    BY <1>4 DEF CollectBreakdown, CollectTotals
  <2> QED
    BY <2>1 DEF CallType
<1> QED
  BY <1>1, <1>2, <1>3, <1>4 DEF Quiet

LEMMA ThreadTypeStep ==
    ASSUME ThreadType, [Next]_vars
    PROVE  ThreadType'
<1> USE DEF ThreadType, AtWork, Points
<1>0. Threads \subseteq Nat
  BY ThreadsNat
<1>1. CASE BitswapNext \/ UNCHANGED vars
  <2>1. UNCHANGED threadVars
    BY <1>1 DEF BitswapNext, NewBlockEvent, CallHandler, StoreEvent, vars
  <2> QED
    BY <2>1 DEF threadVars
<1>2. ASSUME NEW t \in Threads, Begin(t) PROVE ThreadType'
  <2>1. /\ pc[t] = "next" /\ file[t] < Len(fileCid[t])
        /\ file' = [file EXCEPT ![t] = @ + 1] /\ pc' = [pc EXCEPT ![t] = "get"]
        /\ disturbed' = [u \in Threads |->
               IF u = t THEN failed \/ \E v \in Threads \ {t} : AtWork(v)
               ELSE disturbed[u] \/ AtWork(u)]
        /\ UNCHANGED <<stopped, returned, failed>>
    BY <1>2 DEF Begin
  <2>2. disturbed' \in [Threads -> BOOLEAN]
    <3>1. \A u \in Threads : disturbed'[u] \in BOOLEAN
      BY <2>1
    <3> QED
      BY <2>1, <3>1
  <2>3. file' \in [Threads -> Nat] /\ pc' \in [Threads -> Points]
    BY <2>1
  <2>4. \A u \in Threads : file'[u] <= Len(fileCid[u]) /\ (AtWork(u)' => file'[u] > 0)
    <3> TAKE u \in Threads
    <3>1. Len(fileCid[t]) \in Int
      BY FilesOf
    <3> QED
      BY <2>1, <3>1
  <2> QED
    BY <2>1, <2>2, <2>3, <2>4
<1>3. ASSUME NEW t \in Threads, Quiet(t) \/ ReplaceMonitor(t), ~Begin(t) PROVE ThreadType'
  <2>1. /\ \E at \in Points : /\ pc' = [pc EXCEPT ![t] = at]
                              /\ at \notin {"next", "done"} => AtWork(t)
        /\ UNCHANGED <<file, returned, disturbed>>
        /\ stopped' \in [Threads -> BOOLEAN] /\ failed' \in BOOLEAN
    BY <1>3 DEF Quiet, Finish, GetReturns, FileFails, WriteReturns, CollectBreakdown,
       CollectTotals, ReplaceMonitor, Provide, ProvideFails
  <2> QED
    BY <2>1
<1>4. CASE Wait
  BY <1>4 DEF Wait
<1> QED
  BY <1>1, <1>2, <1>3, <1>4 DEF Next, ThreadNext, Quiet
-----------------------------------------------------------------------------
(* The list of cids is gone through *)

EndInv ==
    /\ \A t \in Threads : pc[t] = "done" => stopped[t] \/ file[t] = Len(fileCid[t])
    /\ returned => \A t \in Threads : pc[t] = "done"

LEMMA EndStep ==
    ASSUME ThreadType, EndInv, [Next]_vars
    PROVE  EndInv'
<1> USE DEF ThreadType, EndInv
<1>1. CASE BitswapNext \/ UNCHANGED vars
  <2>1. UNCHANGED threadVars
    BY <1>1 DEF BitswapNext, NewBlockEvent, CallHandler, StoreEvent, vars
  <2> QED
    BY <2>1 DEF threadVars
<1>2. ASSUME NEW t \in Threads, Begin(t) PROVE EndInv'
  BY <1>2 DEF Begin
<1>3. ASSUME NEW t \in Threads, Finish(t) PROVE EndInv'
  BY <1>3 DEF Finish
<1>4. ASSUME NEW t \in Threads, ProvideFails(t) PROVE EndInv'
  BY <1>4 DEF ProvideFails
<1>5. ASSUME NEW t \in Threads,
             GetReturns(t) \/ FileFails(t) \/ WriteReturns(t) \/ CollectBreakdown(t)
             \/ CollectTotals(t) \/ ReplaceMonitor(t) \/ Provide(t)
      PROVE EndInv'
  <2>1. /\ pc[t] # "done" /\ \E at \in Points \ {"done"} : pc' = [pc EXCEPT ![t] = at]
        /\ UNCHANGED <<file, stopped, returned>>
    BY <1>5 DEF GetReturns, FileFails, WriteReturns, CollectBreakdown, CollectTotals,
       ReplaceMonitor, Provide, Points
  <2> QED
    BY <2>1
<1>6. CASE Wait
  BY <1>6 DEF Wait
<1> QED
  BY <1>1, <1>2, <1>3, <1>4, <1>5, <1>6 DEF Next, ThreadNext

LEMMA ThreadTypeInit ==
    ASSUME Init
    PROVE  ThreadType
<1>1. /\ pc = [t \in Threads |-> "next"] /\ file = [t \in Threads |-> 0]
      /\ stopped = [t \in Threads |-> FALSE] /\ returned = FALSE /\ failed = FALSE
      /\ disturbed = [t \in Threads |-> FALSE]
  BY DEF Init
<1>2. /\ pc \in [Threads -> Points] /\ file \in [Threads -> Nat]
      /\ stopped \in [Threads -> BOOLEAN] /\ disturbed \in [Threads -> BOOLEAN]
      /\ returned \in BOOLEAN /\ failed \in BOOLEAN
  BY <1>1 DEF Points
<1>3. \A t \in Threads : Len(fileCid[t]) \in Nat
  BY FilesOf
<1>4. \A t \in Threads : file[t] <= Len(fileCid[t]) /\ (AtWork(t) => file[t] > 0)
  BY <1>1, <1>3 DEF AtWork
<1> QED
  BY <1>2, <1>4 DEF ThreadType

\* A thread is at work on a line that was read.
LEMMA WorkRead ==
    ASSUME ThreadType, NEW t \in Threads, AtWork(t)
    PROVE  \E i \in DOMAIN CidFile : Ended(i) /\ cid(t) = CidFile[i]
<1>1. file[t] \in 1 .. Len(fileCid[t])
  BY FilesOf DEF ThreadType
<1>2. PICK i \in Dealt(t) : fileCid[t][file[t]] = CidFile[i]
  BY <1>1, FilesOf
<1>3. i \in DOMAIN CidFile /\ Ended(i)
  BY DEF Dealt, LinesRead
<1> QED
  BY <1>2, <1>3 DEF cid

\* The root of a file is among its blocks.
LEMMA RootInFile ==
    ASSUME ThreadType, NEW t \in Threads, AtWork(t)
    PROVE  cid(t) \in BlocksOf[cid(t)]
<1>1. PICK i \in DOMAIN CidFile : cid(t) = CidFile[i]
  BY WorkRead
<1>2. CidFile[i] \in BlocksOf[CidFile[i]]
  BY DownloadAssumption
<1> QED
  BY <1>1, <1>2

\* When DownloadSerial returns, the cid of every line that ends in a newline was begun by
\* the thread it was dealt to, or a failed Provide ended that thread; the cid of a last
\* line without newline is begun by no thread (main.go:406-497).
THEOREM NoEndedLineForgotten == Spec => []EndedLinesTried
<1>1. Init => ThreadType /\ EndInv
  BY ThreadTypeInit DEF Init, EndInv
<1>2. ThreadType /\ EndInv /\ [Next]_vars => (ThreadType /\ EndInv)'
  BY ThreadTypeStep, EndStep
<1>3. ThreadType /\ EndInv => EndedLinesTried
  <2> SUFFICES ASSUME ThreadType, EndInv, returned, NEW i \in DOMAIN CidFile, Ended(i)
               PROVE  \E t \in Threads : \E k \in DOMAIN fileCid[t] :
                          fileCid[t][k] = CidFile[i] /\ (k <= file[t] \/ stopped[t])
    BY WorkRead DEF EndedLinesTried
  <2>1. CidFile \in Seq(Blocks)
    BY DownloadAssumption
  <2>2. i \in Nat /\ i - 1 \in Nat
    BY <2>1
  <2>3. (i - 1) % concurrentGet \in Threads
    BY <2>2, ThreadsNat DEF Threads
  <2>4. PICK t \in Threads : t = (i - 1) % concurrentGet
    BY <2>3
  <2>5. i \in Dealt(t)
    BY <2>4 DEF Dealt, LinesRead
  <2>6. PICK k \in DOMAIN fileCid[t] : fileCid[t][k] = CidFile[i] /\ k <= Len(fileCid[t])
    BY <2>5, FilesOf
  <2>7. stopped[t] \/ file[t] = Len(fileCid[t])
    BY DEF EndInv
  <2> QED
    BY <2>6, <2>7
<1> QED
  BY <1>1, <1>2, <1>3, PTL DEF Spec

-----------------------------------------------------------------------------
(* What the actions do to the blocks *)

\* The next call of c is that of name about p.
Recorded(c, name, p) ==
    /\ made' = [d \in Blocks |-> made'[d]]
    /\ \A d \in Blocks \ {c} : made'[d] = made[d]
    /\ DOMAIN made'[c] = DOMAIN made[c] \cup {<<name, p>>}
    /\ made'[c][<<name, p>>] = Now(c)
    /\ \A x \in DOMAIN made[c] : made'[c][x] = made[c][x]
    /\ Now(c) \in Nat /\ Now(c) > 0
    /\ Cardinality(DOMAIN made'[c]) = Now(c)
    /\ \A x \in DOMAIN made[c] : made[c][x] < Now(c)

\* The list keeps its blocks, and the events of blocks other than c.
ListKept(c) ==
    /\ BDMonitor' \in Monitors
    /\ DOMAIN BDMonitor'.EventList = DOMAIN BDMonitor.EventList
    /\ \A d \in DOMAIN BDMonitor.EventList : d # c => BDMonitor'.EventList[d] = BDMonitor.EventList[d]
    /\ BDMonitor'.GetStartTime = BDMonitor.GetStartTime
    /\ BDMonitor'.GetFinishTime = BDMonitor.GetFinishTime

\* The event the store of h is made from: the copy, or a copy that shares its maps.
Loaded(h, be) ==
    \/ be = h.be
    \/ be = [h.be EXCEPT !.FirstWantTo = BDMonitor.EventList[h.c].FirstWantTo,
                         !.FirstGotProvider = BDMonitor.EventList[h.c].FirstGotProvider]

\* e is in the list after the store of h, made from be.
Stored(h, be, e) ==
    /\ \/ e \in Stores(h.name, be, h.p, Now(h.c))
       \/ Stores(h.name, be, h.p, Now(h.c)) = {} /\ e = BDMonitor.EventList[h.c]
    /\ BDMonitor'.EventList[h.c] = e

LEMMA MadeRecords ==
    ASSUME MadeType, NEW c \in Blocks, NEW name, NEW p, Made(c, name, p),
           <<name, p>> \in CallsOf[c] \ DOMAIN made[c]
    PROVE  Recorded(c, name, p) /\ MadeType'
<1>1. Recorded(c, name, p)
  BY MadeStep DEF Recorded
<1>2. ASSUME NEW d \in Blocks PROVE MadeOK(d)'
  <2>1. CASE d = c
    <3>1. DOMAIN made'[c] \subseteq CallsOf[c]
      BY <1>1 DEF Recorded, MadeType, MadeOK
    <3>2. ASSUME NEW x \in DOMAIN made'[c] PROVE made'[c][x] \in 1 .. Now(c)
      <4>1. Cardinality(DOMAIN made[c]) \in Nat
        BY MadeFinite DEF MadeType, MadeOK
      <4> QED
        BY <1>1, <4>1 DEF Recorded, MadeType, MadeOK, Now
    <3> QED
      BY <2>1, <1>1, <3>1, <3>2 DEF MadeOK, Recorded
  <2>2. CASE d # c
    BY <2>2, <1>1 DEF Recorded, MadeType, MadeOK
  <2> QED
    BY <2>1, <2>2
<1> QED
  BY <1>1, <1>2 DEF MadeType, Recorded

LEMMA NewBlockEffect ==
    ASSUME TypeInv, NEW c \in Blocks, NewBlockEvent(c)
    PROVE  /\ UNCHANGED <<threadVars, call, received, lateWants, overlapped>>
           /\ New \in CallsOf[c] \ DOMAIN made[c] /\ Wanted(c)
           /\ Recorded(c, "NewBlockEvent", NoPeer) /\ MadeType'
           /\ BDMonitor' \in Monitors
           /\ DOMAIN BDMonitor'.EventList = DOMAIN BDMonitor.EventList \cup {c}
           /\ BDMonitor'.EventList[c] = NewEvent
           /\ \A d \in DOMAIN BDMonitor.EventList : d # c =>
                  BDMonitor'.EventList[d] = BDMonitor.EventList[d]
           /\ BDMonitor'.GetStartTime = BDMonitor.GetStartTime
           /\ BDMonitor'.GetFinishTime = BDMonitor.GetFinishTime
<1>1. UNCHANGED <<threadVars, call, received, lateWants, overlapped>>
  BY DEF NewBlockEvent
<1>2. New \in CallsOf[c] \ DOMAIN made[c] /\ Wanted(c)
  BY DEF NewBlockEvent, Due, Ready, New
<1>3. Recorded(c, "NewBlockEvent", NoPeer) /\ MadeType'
  BY <1>2, MadeRecords DEF NewBlockEvent, TypeInv, New
<1>4. BDMonitor \in Monitors
  BY DEF TypeInv, CallType
<1>5. PICK r \in Blocks \cup {""} :
          BDMonitor' = [BDMonitor EXCEPT !.EventList = Put(@, c, NewEvent), !.Root = r]
  <2>1. BDMonitor.Root \in Blocks \cup {""}
    BY <1>4 DEF Monitors
  <2> QED
    BY <2>1 DEF NewBlockEvent
<1> DEFINE list == Put(BDMonitor.EventList, c, NewEvent)
<1>6. /\ DOMAIN list = DOMAIN BDMonitor.EventList \cup {c} /\ list[c] = NewEvent
      /\ \A d \in DOMAIN BDMonitor.EventList : d # c => list[d] = BDMonitor.EventList[d]
      /\ list = [d \in DOMAIN list |-> list[d]]
  BY DEF Put
<1>7. BDMonitor' = [BDMonitor EXCEPT !.EventList = list, !.Root = r]
  BY <1>5
<1> HIDE DEF list
<1>8. list \in [DOMAIN list -> Events] /\ DOMAIN list \in SUBSET Blocks
  BY <1>4, <1>6, ListShape, NewIsEvent
<1>9. list \in UNION {[D -> Events] : D \in SUBSET Blocks}
  BY <1>8
<1>10. BDMonitor'.EventList = list /\ BDMonitor' \in Monitors
  BY <1>4, <1>7, <1>9 DEF Monitors
<1>11. /\ BDMonitor'.GetStartTime = BDMonitor.GetStartTime
       /\ BDMonitor'.GetFinishTime = BDMonitor.GetFinishTime
  BY <1>4, <1>7 DEF Monitors
<1> QED
  BY <1>1, <1>2, <1>3, <1>6, <1>10, <1>11

LEMMA CallEffect ==
    ASSUME TypeInv, NEW g \in Goroutines, NEW c \in Blocks, NEW name, NEW p,
           <<name, p>> \in CallsOf[c], CallHandler(g, c, name, p)
    PROVE  /\ UNCHANGED <<BDMonitor, threadVars, made, received, lateWants>>
           /\ call[g] = NoCall /\ c \in DOMAIN BDMonitor.EventList /\ name \in Names
           /\ call'[g] \in Calling
           /\ call'[g].name = name /\ call'[g].c = c /\ call'[g].p = p
           /\ call'[g].be = BDMonitor.EventList[c]
           /\ call' = [call EXCEPT ![g] = call'[g]]
           /\ overlapped' = IF \E o \in Goroutines : call[o] # NoCall /\ call[o].c = c
                            THEN overlapped \cup {c} ELSE overlapped
           /\ Due(c, name, p)
<1> DEFINE h == [name |-> name, c |-> c, p |-> p, be |-> BDMonitor.EventList[c]]
<1>1. call' = [call EXCEPT ![g] = h]
  BY DEF CallHandler
<1>2. /\ UNCHANGED <<BDMonitor, threadVars, made, received, lateWants>>
      /\ call[g] = NoCall /\ c \in DOMAIN BDMonitor.EventList /\ name # "NewBlockEvent"
      /\ Due(c, name, p)
      /\ overlapped' = IF \E o \in Goroutines : call[o] # NoCall /\ call[o].c = c
                       THEN overlapped \cup {c} ELSE overlapped
  BY DEF CallHandler
<1>3. name \in Names /\ p \in Peers \cup {NoPeer}
  BY <1>2, CallsShape
<1>4. BDMonitor.EventList[c] \in Events
  BY <1>2, ListShape DEF TypeInv, CallType
<1>5. h \in Calling
  BY <1>3, <1>4 DEF Calling
<1>6. call'[g] = h
  BY <1>1 DEF TypeInv, CallType
<1>7. h.name = name /\ h.c = c /\ h.p = p /\ h.be = BDMonitor.EventList[c]
  OBVIOUS
<1> HIDE DEF h
<1> QED
  BY <1>1, <1>2, <1>3, <1>5, <1>6, <1>7

LEMMA StoreEffect ==
    ASSUME TypeInv, NEW g \in Goroutines, StoreEvent(g), NEW h, h = call[g]
    PROVE  /\ UNCHANGED <<threadVars, overlapped>>
           /\ h \in Calling /\ h # NoCall /\ h.c \in DOMAIN BDMonitor.EventList
           /\ <<h.name, h.p>> \in CallsOf[h.c] \ DOMAIN made[h.c]
           /\ h.name \in PeerCalls => h.p \in Peers
           /\ call' = [call EXCEPT ![g] = NoCall]
           /\ Recorded(h.c, h.name, h.p) /\ MadeType'
           /\ Made(h.c, h.name, h.p)
           /\ ListKept(h.c)
           /\ \E be \in Events : Loaded(h, be) /\ \E e \in Events : Stored(h, be, e)
<1>1. UNCHANGED <<threadVars, overlapped>> /\ h # NoCall /\ call' = [call EXCEPT ![g] = NoCall]
  BY DEF StoreEvent
<1>2. h \in Calling
  BY <1>1 DEF TypeInv, CallType
<1>3. h.c \in DOMAIN BDMonitor.EventList /\ <<h.name, h.p>> \in CallsOf[h.c] \ DOMAIN made[h.c]
  BY <1>1 DEF TypeInv, CallOK
<1>4. h.c \in Blocks /\ h.be \in Events /\ h.name \in Names
  BY <1>2 DEF Calling
<1>5. h.name \in PeerCalls => h.p \in Peers
  <2>1. h.name \in PeerCalls => h.name \notin BlockCalls
    BY DEF PeerCalls, BlockCalls
  <2> QED
    BY <1>3, <1>4, <2>1, CallsShape
<1>6. Made(h.c, h.name, h.p)
  BY DEF StoreEvent
<1>7. Recorded(h.c, h.name, h.p) /\ MadeType'
  BY <1>3, <1>4, <1>6, MadeRecords DEF TypeInv
<1>8. Now(h.c) \in Nat
  BY <1>7 DEF Recorded
<1> DEFINE now == BDMonitor.EventList[h.c]
<1> DEFINE shared == [h.be EXCEPT !.FirstWantTo = now.FirstWantTo,
                                  !.FirstGotProvider = now.FirstGotProvider]
<1>9. BDMonitor \in Monitors
  BY DEF TypeInv, CallType
<1>10. now \in Events
  BY <1>3, <1>9, ListShape
<1>11. shared \in Events
  <2>1. now.FirstWantTo \in [Peers -> Nat] /\ now.FirstGotProvider \in [Peers -> Nat]
    BY <1>10, EventFields
  <2> HIDE DEF now
  <2> QED
    BY <1>4, <2>1 DEF Events
<1>12. PICK be \in {h.be, shared} :
           \/ Stores(h.name, be, h.p, Now(h.c)) = {} /\ UNCHANGED BDMonitor
           \/ \E e \in Stores(h.name, be, h.p, Now(h.c)) :
                  BDMonitor' = [BDMonitor EXCEPT !.EventList[h.c] = e]
  BY DEF StoreEvent
<1>13. be \in Events /\ Loaded(h, be)
  BY <1>4, <1>11, <1>12 DEF Loaded
<1> HIDE DEF shared
<1>14. CASE Stores(h.name, be, h.p, Now(h.c)) = {} /\ UNCHANGED BDMonitor
  <2>1. ListKept(h.c)
    BY <1>9, <1>14 DEF ListKept
  <2>2. Stored(h, be, now)
    BY <1>14 DEF Stored
  <2> QED
    BY <1>1, <1>2, <1>3, <1>5, <1>6, <1>7, <1>10, <1>13, <2>1, <2>2
<1>15. ASSUME NEW e \in Stores(h.name, be, h.p, Now(h.c)),
              BDMonitor' = [BDMonitor EXCEPT !.EventList[h.c] = e]
       PROVE  ListKept(h.c) /\ e \in Events /\ Stored(h, be, e)
  <2>1. e \in Events
    BY <1>4, <1>5, <1>8, <1>13, HandlersType
  <2>2. /\ BDMonitor' \in Monitors
        /\ DOMAIN BDMonitor'.EventList = DOMAIN BDMonitor.EventList
        /\ BDMonitor'.EventList[h.c] = e
        /\ \A d \in DOMAIN BDMonitor.EventList : d # h.c =>
               BDMonitor'.EventList[d] = BDMonitor.EventList[d]
        /\ BDMonitor'.GetStartTime = BDMonitor.GetStartTime
        /\ BDMonitor'.GetFinishTime = BDMonitor.GetFinishTime
    BY <1>3, <1>9, <1>15, <2>1, StoreShape
  <2> QED
    BY <1>15, <2>1, <2>2 DEF ListKept, Stored
<1> QED
  BY <1>1, <1>2, <1>3, <1>5, <1>6, <1>7, <1>12, <1>13, <1>14, <1>15
-----------------------------------------------------------------------------
(* The invariants *)

\* What an event of c says was in vain was.
EventCounts(be, c) ==
    /\ be.FirstReceive # 0 => received[c] > 0
    /\ be.NumOfRedundantBlks > 0 => be.NumOfRedundantBlks < received[c]
    /\ be.NumOfRedundantReqs <= lateWants[c]

CountsInv ==
    /\ \A c \in DOMAIN BDMonitor.EventList : EventCounts(BDMonitor.EventList[c], c)
    /\ \A g \in Goroutines : call[g] # NoCall => EventCounts(call[g].be, call[g].c)

ReportsInv ==
    \A t \in Threads : report[t].reqs <= Total(lateWants) /\ report[t].blks <= Total(received)

\* Between the begin of a file and the replacement of its monitor.
Measuring(t) == pc[t] \in {"get", "write", "breakdown", "totals", "replace"}

\* An undisturbed thread is alone, with a monitor that was new when it began.
Alone(t) ==
    AtWork(t) /\ ~disturbed[t] =>
        /\ \A v \in Threads \ {t} : ~AtWork(v)
        /\ Measuring(t) =>
              /\ ~failed
              /\ DOMAIN BDMonitor.EventList \subseteq BlocksOf[cid(t)]
              /\ BDMonitor.GetStartTime = <<t, file[t]>>
        /\ pc[t] \in {"breakdown", "totals", "replace"} => BDMonitor.GetFinishTime = <<t, file[t]>>
        /\ pc[t] \in {"totals", "replace"} => report[t].blocks \subseteq BlocksOf[cid(t)]
        /\ pc[t] = "replace" => report[t].realtime = <<<<t, file[t]>>, <<t, file[t]>>>>

OwnInv ==
    /\ \A t \in Threads : Alone(t)
    /\ ~failed /\ (\A t \in Threads : ~Measuring(t)) => DOMAIN BDMonitor.EventList = {}

First(c, name, p) == IF <<name, p>> \in DOMAIN made[c] THEN made[c][<<name, p>>] ELSE 0
Receivers(c) == {p \in Peers : <<"ReceiveBlock", p>> \in DOMAIN made[c]}

\* The event says when and with whom each thing happened first, and how often in vain.
TimesExact(be, c) ==
    /\ be.BlockServiceGet = First(c, "BlockServiceGet", NoPeer)
    /\ be.GetBlocksRequest = First(c, "BitswapGet", NoPeer)
    /\ be.FirstFindProvider = First(c, "FindProviders", NoPeer)
    /\ be.FirstPutStore = First(c, "PutStore", NoPeer)
    /\ be.BeginVisit = First(c, "BeginVisit", NoPeer)
    /\ be.FinishVisit = First(c, "FinishVisit", NoPeer)
PeersExact(be, c) ==
    \A p \in Peers : /\ be.FirstWantTo[p] = First(c, "SendWant", p)
                     /\ be.FirstGotProvider[p] = First(c, "FoundProvide", p)
ReceivesExact(be, c) ==
    IF Receivers(c) = {}
    THEN be.FirstReceive = 0 /\ be.ReceiveFrom = "" /\ be.NumOfRedundantBlks = 0 /\ received[c] = 0
    ELSE /\ be.FirstReceive = First(c, "ReceiveBlock", be.ReceiveFrom)
         /\ be.ReceiveFrom \in Receivers(c)
         /\ \A p \in Receivers(c) : be.FirstReceive <= First(c, "ReceiveBlock", p)
         /\ be.NumOfRedundantBlks = received[c] - 1
EventExact(be, c) ==
    /\ TimesExact(be, c) /\ PeersExact(be, c) /\ ReceivesExact(be, c)
    /\ be.NumOfRedundantReqs = lateWants[c]

\* Before time n what a call of name about p waits for was there.
Had(c, name, p, n) == <<name, p>> \in DOMAIN made[c] /\ made[c][<<name, p>>] < n
HadIfAny(c, name, n) == <<name, NoPeer>> \in CallsOf[c] => Had(c, name, NoPeer, n)
InOrder(c, name, p, n) ==
    /\ name = "BitswapGet" => HadIfAny(c, "BlockServiceGet", n)
    /\ name \in {"FindProviders", "SendWant"} => HadIfAny(c, "BitswapGet", n)
    /\ name = "FoundProvide" => Had(c, "FindProviders", NoPeer, n)
    /\ name = "ReceiveBlock" => Had(c, "SendWant", p, n)
    /\ name = "PutStore" => \E q \in Peers : Had(c, "ReceiveBlock", q, n)
    /\ name = "FinishVisit" => Had(c, "BeginVisit", NoPeer, n)

OrderInv ==
    /\ \A c \in Blocks : \A x \in DOMAIN made[c] : InOrder(c, x[1], x[2], made[c][x])
    /\ \A g \in Goroutines : call[g] # NoCall =>
           InOrder(call[g].c, call[g].name, call[g].p, Now(call[g].c))

\* Handlers of a block that never met have a current and exact event.
ExactInv ==
    /\ \A c \in DOMAIN BDMonitor.EventList \ overlapped : EventExact(BDMonitor.EventList[c], c)
    /\ \A g \in Goroutines :
           call[g] # NoCall /\ call[g].c \notin overlapped =>
               /\ call[g].be = BDMonitor.EventList[call[g].c]
               /\ \A o \in Goroutines \ {g} : call[o] # NoCall => call[o].c # call[g].c
    /\ \A t \in Threads : report[t].negative => report[t].blocks \cap overlapped # {}
-----------------------------------------------------------------------------
(* Type correctness *)

\* Nothing happened to blocks and handlers.
BlocksSame ==
    /\ UNCHANGED callVars
    /\ BDMonitor' \in Monitors
    /\ BDMonitor'.EventList = BDMonitor.EventList
    /\ BDMonitor'.Root = BDMonitor.Root

LEMMA QuietSame ==
    ASSUME TypeInv, NEW t \in Threads, Quiet(t) \/ Wait
    PROVE  BlocksSame
  BY QuietFrame DEF BlocksSame, TypeInv

\* The counts that CollectMonitor sums up.
LEMMA SumsNat ==
    ASSUME BDMonitor \in Monitors
    PROVE  SumReqsRedundant(BDMonitor) \in Nat /\ SumBlksRedundant(BDMonitor) \in Nat
<1> DEFINE D == DOMAIN BDMonitor.EventList
<1> DEFINE reqs == [c \in D |-> BDMonitor.EventList[c].NumOfRedundantReqs]
<1> DEFINE blks == [c \in D |-> BDMonitor.EventList[c].NumOfRedundantBlks]
<1>1. IsFiniteSet(D)
  BY ListShape, DownloadAssumption, FS_Subset
<1>2. \A c \in D : BDMonitor.EventList[c] \in Events
  BY ListShape
<1>3. \A c \in D : reqs[c] \in Nat /\ blks[c] \in Nat
  BY <1>2, EventFields
<1>4. DOMAIN reqs = D /\ DOMAIN blks = D
  OBVIOUS
<1>5. SumReqsRedundant(BDMonitor) = Total(reqs) /\ SumBlksRedundant(BDMonitor) = Total(blks)
  BY DEF SumReqsRedundant, SumBlksRedundant
<1> HIDE DEF D, reqs, blks
<1>6. \A c \in D : reqs[c] <= reqs[c] /\ blks[c] <= blks[c]
  BY <1>3
<1>7. Total(reqs) \in Nat
  BY <1>1, <1>3, <1>4, <1>6, TotalBelow
<1>8. Total(blks) \in Nat
  BY <1>1, <1>3, <1>4, <1>6, TotalBelow
<1> QED
  BY <1>5, <1>7, <1>8

LEMMA ReportTypeStep ==
    ASSUME TypeInv, [Next]_vars
    PROVE  report' \in [Threads -> Reports]
<1>0. BDMonitor \in Monitors /\ report \in [Threads -> Reports]
  BY DEF TypeInv, CallType
<1>1. NoReport \in Reports
  BY DEF NoReport, Reports
<1>2. ASSUME NEW t \in Threads, CollectBreakdown(t) PROVE report' \in [Threads -> Reports]
  <2> DEFINE negative == \E d \in GetBreakdown(BDMonitor) : d < 0
  <2>1. DOMAIN BDMonitor.EventList \subseteq Blocks /\ negative \in BOOLEAN
    BY <1>0, ListShape
  <2>2. report' = [report EXCEPT ![t] = [NoReport EXCEPT !.blocks = DOMAIN BDMonitor.EventList,
                                                         !.negative = negative]]
    BY <1>2 DEF CollectBreakdown
  <2> HIDE DEF negative
  <2>3. [NoReport EXCEPT !.blocks = DOMAIN BDMonitor.EventList, !.negative = negative] \in Reports
    BY <1>1, <2>1 DEF Reports
  <2> QED
    BY <1>0, <2>2, <2>3
<1>3. ASSUME NEW t \in Threads, CollectTotals(t) PROVE report' \in [Threads -> Reports]
  <2>1. RealTime(BDMonitor) \in {<<>>} \cup (Marks \X Marks)
    BY <1>0 DEF RealTime, Monitors
  <2>2. SumReqsRedundant(BDMonitor) \in Nat /\ SumBlksRedundant(BDMonitor) \in Nat
    BY <1>0, SumsNat
  <2>3. report' = [report EXCEPT ![t].realtime = RealTime(BDMonitor),
                                 ![t].reqs = SumReqsRedundant(BDMonitor),
                                 ![t].blks = SumBlksRedundant(BDMonitor)]
    BY <1>3 DEF CollectTotals
  <2>4. [report[t] EXCEPT !.realtime = RealTime(BDMonitor), !.reqs = SumReqsRedundant(BDMonitor),
                          !.blks = SumBlksRedundant(BDMonitor)] \in Reports
    <3>1. ASSUME NEW r \in Reports, NEW x \in {<<>>} \cup (Marks \X Marks), NEW n \in Nat, NEW m \in Nat
          PROVE  [r EXCEPT !.realtime = x, !.reqs = n, !.blks = m] \in Reports
      BY DEF Reports
    <3>2. report[t] \in Reports
      BY <1>0
    <3> QED
      BY <2>1, <2>2, <3>1, <3>2
  <2>5. report' = [report EXCEPT ![t] =
            [report[t] EXCEPT !.realtime = RealTime(BDMonitor), !.reqs = SumReqsRedundant(BDMonitor),
                              !.blks = SumBlksRedundant(BDMonitor)]]
    BY <1>0, <2>3
  <2> QED
    BY <1>0, <2>4, <2>5
<1>4. ASSUME NEW t \in Threads, ReplaceMonitor(t) PROVE report' \in [Threads -> Reports]
  BY <1>0, <1>1, <1>4 DEF ReplaceMonitor
<1>5. CASE BitswapNext \/ UNCHANGED vars
  <2>1. UNCHANGED threadVars
    BY <1>5 DEF BitswapNext, NewBlockEvent, CallHandler, StoreEvent, vars
  <2> QED
    BY <1>0, <2>1 DEF threadVars
<1>6. ASSUME NEW t \in Threads,
             Begin(t) \/ Finish(t) \/ GetReturns(t) \/ FileFails(t) \/ WriteReturns(t)
             \/ Provide(t) \/ ProvideFails(t)
      PROVE  report' \in [Threads -> Reports]
  BY <1>0, <1>6 DEF Begin, Finish, GetReturns, FileFails, WriteReturns, Provide, ProvideFails
<1>7. CASE Wait
  BY <1>0, <1>7 DEF Wait
<1> QED
  BY <1>2, <1>3, <1>4, <1>5, <1>6, <1>7 DEF Next, ThreadNext

\* What types say about blocks and handlers.
BlockType ==
    /\ BDMonitor \in Monitors
    /\ call \in [Goroutines -> {NoCall} \cup Calling]
    /\ received \in [Blocks -> Nat] /\ lateWants \in [Blocks -> Nat]
    /\ overlapped \in SUBSET Blocks
    /\ MadeType
    /\ \A c \in Blocks : BlockOK(c)
    /\ \A g \in Goroutines : CallOK(g)

LEMMA MadeCounts ==
    ASSUME received \in [Blocks -> Nat], lateWants \in [Blocks -> Nat],
           NEW c \in Blocks, NEW name, NEW p, Made(c, name, p)
    PROVE  /\ received' \in [Blocks -> Nat] /\ lateWants' \in [Blocks -> Nat]
           /\ \A d \in Blocks : d # c => received'[d] = received[d] /\ lateWants'[d] = lateWants[d]
           /\ received'[c] = received[c] + (IF name = "ReceiveBlock" THEN 1 ELSE 0)
           /\ lateWants'[c] =
                  lateWants[c] + (IF name = "SendWant" /\ received[c] > 0 THEN 1 ELSE 0)
<1>1. /\ received' = IF name = "ReceiveBlock" THEN [received EXCEPT ![c] = @ + 1] ELSE received
      /\ lateWants' = IF name = "SendWant" /\ received[c] > 0
                      THEN [lateWants EXCEPT ![c] = @ + 1] ELSE lateWants
  BY DEF Made
<1>2. received[c] \in Nat /\ lateWants[c] \in Nat
  OBVIOUS
<1>3. received[c] + 1 \in Nat /\ lateWants[c] + 1 \in Nat
  BY <1>2
<1> QED
  BY <1>1, <1>2, <1>3

LEMMA NewBlockType ==
    ASSUME TypeInv, NEW c \in Blocks, NewBlockEvent(c)
    PROVE  BlockType'
<1>1. /\ UNCHANGED <<call, received, lateWants, overlapped>>
      /\ New \in CallsOf[c] \ DOMAIN made[c]
      /\ Recorded(c, "NewBlockEvent", NoPeer) /\ MadeType'
      /\ BDMonitor' \in Monitors
      /\ DOMAIN BDMonitor'.EventList = DOMAIN BDMonitor.EventList \cup {c}
  BY NewBlockEffect
<1>2. DOMAIN made'[c] = DOMAIN made[c] \cup {New} /\ \A d \in Blocks \ {c} : made'[d] = made[d]
  BY <1>1 DEF Recorded, New
<1>3. \A d \in Blocks : BlockOK(d)'
  <2> TAKE d \in Blocks
  <2>1. BlockOK(d)
    BY DEF TypeInv
  <2> QED
    BY <1>1, <1>2, <2>1 DEF BlockOK
<1>4. \A g \in Goroutines : CallOK(g)'
  <2> SUFFICES ASSUME NEW g \in Goroutines, call[g] # NoCall
               PROVE  CallOK(g)'
    BY <1>1 DEF CallOK
  <2>1. CallOK(g)
    BY DEF TypeInv
  <2>2. call[g] \in Calling
    BY DEF TypeInv, CallType
  <2>3. call[g].name # "NewBlockEvent" /\ call[g].c \in Blocks
    BY <2>2, NamesAre DEF Calling
  <2>4. <<call[g].name, call[g].p>> # New
    BY <2>3 DEF New
  <2> QED
    BY <1>1, <1>2, <2>1, <2>3, <2>4 DEF CallOK
<1> QED
  BY <1>1, <1>3, <1>4 DEF BlockType, TypeInv, CallType

LEMMA CallHandlerType ==
    ASSUME TypeInv, NEW g \in Goroutines, NEW c \in Blocks, NEW name, NEW p,
           <<name, p>> \in CallsOf[c], CallHandler(g, c, name, p)
    PROVE  BlockType'
<1>1. /\ UNCHANGED <<BDMonitor, made, received, lateWants>>
      /\ call[g] = NoCall /\ c \in DOMAIN BDMonitor.EventList
      /\ call'[g] \in Calling
      /\ call'[g].name = name /\ call'[g].c = c /\ call'[g].p = p
      /\ call' = [call EXCEPT ![g] = call'[g]]
      /\ overlapped' = IF \E o \in Goroutines : call[o] # NoCall /\ call[o].c = c
                       THEN overlapped \cup {c} ELSE overlapped
      /\ Due(c, name, p)
  BY CallEffect
<1>2. /\ <<name, p>> \notin DOMAIN made[c]
      /\ \A o \in Goroutines :
             call[o] # NoCall => <<call[o].c, call[o].name, call[o].p>> # <<c, name, p>>
  BY <1>1 DEF Due
<1>3. \A o \in Goroutines : o # g => call'[o] = call[o]
  BY <1>1 DEF TypeInv, CallType
<1>4. ASSUME NEW o \in Goroutines, call'[o] # NoCall PROVE CallOK(o)'
  <2>1. CASE o = g
    BY <1>1, <1>2, <1>3, <2>1 DEF CallOK
  <2>2. CASE o # g
    <3>1. CallOK(o)
      BY DEF TypeInv
    <3> QED
      BY <1>1, <1>2, <1>3, <1>4, <2>2, <3>1 DEF CallOK
  <2> QED
    BY <2>1, <2>2
<1>5. \A o \in Goroutines : CallOK(o)'
  BY <1>4 DEF CallOK
<1>6. \A d \in Blocks : BlockOK(d)'
  BY <1>1 DEF TypeInv, BlockOK
<1>7. MadeType'
  BY <1>1 DEF TypeInv, MadeType, MadeOK
<1>8. call' \in [Goroutines -> {NoCall} \cup Calling] /\ overlapped' \in SUBSET Blocks
  BY <1>1 DEF TypeInv, CallType
<1> QED
  BY <1>1, <1>5, <1>6, <1>7, <1>8 DEF BlockType, TypeInv, CallType

LEMMA StoreType ==
    ASSUME TypeInv, NEW g \in Goroutines, StoreEvent(g)
    PROVE  BlockType'
<1>0. PICK h : h = call[g]
  OBVIOUS
<1>1. /\ UNCHANGED overlapped
      /\ h \in Calling /\ h.c \in DOMAIN BDMonitor.EventList
      /\ call' = [call EXCEPT ![g] = NoCall]
      /\ Recorded(h.c, h.name, h.p) /\ MadeType'
      /\ Made(h.c, h.name, h.p)
      /\ ListKept(h.c)
      /\ <<h.name, h.p>> \in CallsOf[h.c] \ DOMAIN made[h.c]
  BY <1>0, StoreEffect
<1>2. h # NoCall
  BY <1>0 DEF StoreEvent
<1>3. h.c \in Blocks
  BY <1>1 DEF Calling
<1>4. /\ received' \in [Blocks -> Nat] /\ lateWants' \in [Blocks -> Nat]
      /\ \A d \in Blocks : d # h.c => received'[d] = received[d] /\ lateWants'[d] = lateWants[d]
  BY <1>1, <1>3, MadeCounts DEF TypeInv, CallType
<1>5. /\ DOMAIN made'[h.c] = DOMAIN made[h.c] \cup {<<h.name, h.p>>}
      /\ \A d \in Blocks \ {h.c} : made'[d] = made[d]
  BY <1>1 DEF Recorded
<1>6. BDMonitor' \in Monitors /\ DOMAIN BDMonitor'.EventList = DOMAIN BDMonitor.EventList
  BY <1>1 DEF ListKept
<1>7. \A d \in Blocks : BlockOK(d)'
  <2> TAKE d \in Blocks
  <2>1. BlockOK(d)
    BY DEF TypeInv
  <2> QED
    BY <1>1, <1>4, <1>5, <1>6, <2>1 DEF BlockOK
<1>8. \A o \in Goroutines : o # g => call'[o] = call[o]
  BY <1>1 DEF TypeInv, CallType
<1>9. call'[g] = NoCall /\ call' \in [Goroutines -> {NoCall} \cup Calling]
  BY <1>1 DEF TypeInv, CallType
<1>10. ASSUME NEW o \in Goroutines, call'[o] # NoCall PROVE CallOK(o)'
  <2>1. o # g /\ call'[o] = call[o]
    BY <1>8, <1>9, <1>10
  <2>2. CallOK(o)
    BY DEF TypeInv
  <2>3. <<call[o].c, call[o].name, call[o].p>> # <<h.c, h.name, h.p>>
    BY <1>0, <1>2, <1>10, <2>1, <2>2 DEF CallOK
  <2>4. call[o].c \in Blocks
    BY <1>10, <2>1 DEF TypeInv, CallType, Calling
  <2>5. <<call[o].name, call[o].p>> \notin DOMAIN made'[call[o].c]
    <3>1. CASE call[o].c = h.c
      BY <1>5, <1>10, <2>1, <2>2, <2>3, <3>1 DEF CallOK
    <3>2. CASE call[o].c # h.c
      BY <1>5, <1>10, <2>1, <2>2, <2>4, <3>2 DEF CallOK
    <3> QED
      BY <3>1, <3>2
  <2> QED
    BY <1>6, <1>8, <1>9, <1>10, <2>1, <2>2, <2>5 DEF CallOK
<1>11. \A o \in Goroutines : CallOK(o)'
  BY <1>10 DEF CallOK
<1> QED
  BY <1>1, <1>4, <1>6, <1>7, <1>9, <1>11 DEF BlockType, TypeInv, CallType

\* The monitor, its handlers and the times of its blocks are left behind.
LEMMA ReplaceEffect ==
    ASSUME TypeInv, NEW t \in Threads, ReplaceMonitor(t)
    PROVE  /\ BDMonitor' = NewMonitor
           /\ call' = [g \in Goroutines |-> NoCall]
           /\ UNCHANGED <<received, lateWants, overlapped>>
           /\ made' = [c \in Blocks |-> made'[c]]
           /\ \A c \in Blocks :
                 /\ c \notin DOMAIN BDMonitor.EventList => made'[c] = made[c]
                 /\ c \in DOMAIN BDMonitor.EventList => DOMAIN made'[c] = {New} /\ made'[c][New] = 1
           /\ MadeType'
<1>1. /\ BDMonitor' = NewMonitor
      /\ call' = [g \in Goroutines |-> NoCall]
      /\ made' = [c \in Blocks |-> IF c \in DOMAIN BDMonitor.EventList
                                   THEN Put(Nothing, New, 1) ELSE made[c]]
      /\ UNCHANGED <<received, lateWants, overlapped>>
  BY DEF ReplaceMonitor, New
<1>2. DOMAIN Put(Nothing, New, 1) = {New} /\ Put(Nothing, New, 1)[New] = 1
  BY DEF Put, Nothing
<1>3. \A c \in Blocks :
         /\ c \notin DOMAIN BDMonitor.EventList => made'[c] = made[c]
         /\ c \in DOMAIN BDMonitor.EventList => DOMAIN made'[c] = {New} /\ made'[c][New] = 1
  BY <1>1, <1>2
<1>4. ASSUME NEW c \in Blocks PROVE MadeOK(c)'
  <2>1. CASE c \in DOMAIN BDMonitor.EventList
    <3>1. DOMAIN made'[c] = {New} /\ made'[c][New] = 1
      BY <1>3, <2>1
    <3>2. New \in CallsOf[c]
      BY <2>1 DEF TypeInv, BlockOK, MadeType, MadeOK
    <3>3. Cardinality({New}) = 1
      BY FS_Singleton
    <3> QED
      BY <3>1, <3>2, <3>3 DEF MadeOK
  <2>2. CASE c \notin DOMAIN BDMonitor.EventList
    BY <1>3, <2>2 DEF TypeInv, MadeType, MadeOK
  <2> QED
    BY <2>1, <2>2
<1>5. made' = [c \in Blocks |-> made'[c]]
  BY <1>1
<1> QED
  BY <1>1, <1>3, <1>4, <1>5 DEF MadeType

LEMMA ReplaceType ==
    ASSUME TypeInv, NEW t \in Threads, ReplaceMonitor(t)
    PROVE  BlockType'
<1>1. /\ BDMonitor' = NewMonitor
      /\ call' = [g \in Goroutines |-> NoCall]
      /\ UNCHANGED <<received, lateWants, overlapped>>
      /\ \A c \in Blocks :
            /\ c \notin DOMAIN BDMonitor.EventList => made'[c] = made[c]
            /\ c \in DOMAIN BDMonitor.EventList => DOMAIN made'[c] = {New} /\ made'[c][New] = 1
      /\ MadeType'
  BY ReplaceEffect
<1>2. BDMonitor' \in Monitors /\ DOMAIN BDMonitor'.EventList = {}
  BY <1>1, NewIsMonitor
<1>3. \A c \in Blocks : BlockOK(c)'
  <2> TAKE c \in Blocks
  <2>1. BlockOK(c)
    BY DEF TypeInv
  <2> QED
    BY <1>1, <1>2, <2>1 DEF BlockOK
<1>4. \A g \in Goroutines : CallOK(g)'
  BY <1>1 DEF CallOK
<1>5. call' \in [Goroutines -> {NoCall} \cup Calling]
  BY <1>1
<1> QED
  BY <1>1, <1>2, <1>3, <1>4, <1>5 DEF BlockType, TypeInv, CallType

LEMMA SameType ==
    ASSUME TypeInv, BlocksSame
    PROVE  BlockType'
<1>1. UNCHANGED callVars /\ BDMonitor' \in Monitors /\ BDMonitor'.EventList = BDMonitor.EventList
  BY DEF BlocksSame
<1>2. \A c \in Blocks : BlockOK(c)'
  BY <1>1 DEF TypeInv, BlockOK, callVars
<1>3. \A g \in Goroutines : CallOK(g)'
  BY <1>1 DEF TypeInv, CallOK, callVars
<1>4. MadeType'
  BY <1>1 DEF TypeInv, MadeType, MadeOK, callVars
<1> QED
  BY <1>1, <1>2, <1>3, <1>4 DEF BlockType, TypeInv, CallType, callVars

LEMMA TypeStep ==
    ASSUME TypeInv, [Next]_vars
    PROVE  TypeInv'
<1>1. ThreadType' /\ report' \in [Threads -> Reports]
  BY ThreadTypeStep, ReportTypeStep DEF TypeInv
<1>2. BlockType'
  <2>1. ASSUME NEW c \in Blocks, NewBlockEvent(c) PROVE BlockType'
    BY <2>1, NewBlockType
  <2>2. ASSUME NEW g \in Goroutines, NEW c \in Blocks, NEW x \in CallsOf[c],
               CallHandler(g, c, x[1], x[2])
        PROVE  BlockType'
    <3>1. <<x[1], x[2]>> \in CallsOf[c]
      BY PairOfCall
    <3> QED
      BY <2>2, <3>1, CallHandlerType
  <2>3. ASSUME NEW g \in Goroutines, StoreEvent(g) PROVE BlockType'
    BY <2>3, StoreType
  <2>4. ASSUME NEW t \in Threads, ReplaceMonitor(t) PROVE BlockType'
    BY <2>4, ReplaceType
  <2>5. ASSUME NEW t \in Threads, Quiet(t) \/ Wait PROVE BlockType'
    BY <2>5, QuietSame, SameType
  <2>6. CASE UNCHANGED vars
    <3>1. BlocksSame
      BY <2>6 DEF BlocksSame, vars, TypeInv, CallType
    <3> QED
      BY <3>1, SameType
  <2>7. Threads # {}
    BY ThreadsNat
  <2> QED
    BY <2>1, <2>2, <2>3, <2>4, <2>5, <2>6, <2>7 DEF Next, BitswapNext, ThreadNext, Quiet
<1> QED
  BY <1>1, <1>2 DEF TypeInv, BlockType, CallType

LEMMA TypeInit ==
    ASSUME Init
    PROVE  TypeInv
<1>1. /\ BDMonitor = NewMonitor
      /\ call = [g \in Goroutines |-> NoCall]
      /\ report = [t \in Threads |-> NoReport]
      /\ made = [c \in Blocks |-> Nothing]
      /\ received = [c \in Blocks |-> 0] /\ lateWants = [c \in Blocks |-> 0]
      /\ overlapped = {}
  BY DEF Init
<1>2. ThreadType
  BY ThreadTypeInit
<1>3. NoReport \in Reports
  BY DEF NoReport, Reports
<1>4. DOMAIN Nothing = {}
  BY DEF Nothing
<1>5. MadeType
  BY <1>1, <1>4 DEF MadeType, MadeOK
<1>6. DOMAIN BDMonitor.EventList = {} /\ BDMonitor \in Monitors
  BY <1>1, NewIsMonitor
<1>7. (\A c \in Blocks : BlockOK(c)) /\ \A g \in Goroutines : CallOK(g)
  BY <1>1, <1>4, <1>6 DEF BlockOK, CallOK, New
<1> QED
  BY <1>1, <1>2, <1>3, <1>5, <1>6, <1>7 DEF TypeInv, CallType

-----------------------------------------------------------------------------
(* Where events and copies come from *)

LEMMA ListStep ==
    ASSUME TypeInv, [Next]_vars, NEW c \in DOMAIN BDMonitor'.EventList
    PROVE  \/ c \in DOMAIN BDMonitor.EventList /\ BDMonitor'.EventList[c] = BDMonitor.EventList[c]
           \/ c \in Blocks /\ BDMonitor'.EventList[c] = NewEvent /\ NewBlockEvent(c)
           \/ \E g \in Goroutines : StoreEvent(g) /\ call[g].c = c
<1>1. ASSUME NEW d \in Blocks, NewBlockEvent(d)
      PROVE  \/ c \in DOMAIN BDMonitor.EventList /\ BDMonitor'.EventList[c] = BDMonitor.EventList[c]
             \/ c \in Blocks /\ BDMonitor'.EventList[c] = NewEvent /\ NewBlockEvent(c)
  <2>1. /\ DOMAIN BDMonitor'.EventList = DOMAIN BDMonitor.EventList \cup {d}
        /\ BDMonitor'.EventList[d] = NewEvent
        /\ \A x \in DOMAIN BDMonitor.EventList : x # d =>
               BDMonitor'.EventList[x] = BDMonitor.EventList[x]
    BY <1>1, NewBlockEffect
  <2> QED
    BY <1>1, <2>1
<1>2. ASSUME NEW g \in Goroutines, StoreEvent(g), call[g].c # c
      PROVE  c \in DOMAIN BDMonitor.EventList /\ BDMonitor'.EventList[c] = BDMonitor.EventList[c]
  <2>1. ListKept(call[g].c)
    BY <1>2, StoreEffect
  <2> QED
    BY <1>2, <2>1 DEF ListKept
<1>3. ASSUME NEW t \in Threads, ReplaceMonitor(t) PROVE FALSE
  BY <1>3, NewIsMonitor DEF ReplaceMonitor
<1>4. ASSUME NEW t \in Threads, Quiet(t) \/ Wait
      PROVE  c \in DOMAIN BDMonitor.EventList /\ BDMonitor'.EventList[c] = BDMonitor.EventList[c]
  BY <1>4, QuietSame DEF BlocksSame
<1>5. CASE UNCHANGED BDMonitor
  BY <1>5
<1>6. \/ UNCHANGED BDMonitor
      \/ \E d \in Blocks : NewBlockEvent(d)
      \/ \E g \in Goroutines : StoreEvent(g)
      \/ \E t \in Threads : Quiet(t) \/ ReplaceMonitor(t)
      \/ Wait
  BY DEF Next, BitswapNext, ThreadNext, Quiet, CallHandler, vars
<1>7. Threads # {}
  BY ThreadsNat
<1> QED
  BY <1>1, <1>2, <1>3, <1>4, <1>5, <1>6, <1>7

LEMMA CallStep ==
    ASSUME TypeInv, [Next]_vars, NEW g \in Goroutines, call'[g] # NoCall
    PROVE  \/ call[g] # NoCall /\ call'[g] = call[g]
           \/ /\ call[g] = NoCall
              /\ call'[g].c \in DOMAIN BDMonitor.EventList
              /\ call'[g].be = BDMonitor.EventList[call'[g].c]
              /\ CallHandler(g, call'[g].c, call'[g].name, call'[g].p)
<1>1. ASSUME NEW o \in Goroutines, NEW c \in Blocks, NEW x \in CallsOf[c],
             CallHandler(o, c, x[1], x[2])
      PROVE  \/ call[g] # NoCall /\ call'[g] = call[g]
             \/ /\ call[g] = NoCall
                /\ call'[g].c \in DOMAIN BDMonitor.EventList
                /\ call'[g].be = BDMonitor.EventList[call'[g].c]
                /\ CallHandler(g, call'[g].c, call'[g].name, call'[g].p)
  <2>1. <<x[1], x[2]>> \in CallsOf[c]
    BY PairOfCall
  <2>2. /\ call[o] = NoCall /\ c \in DOMAIN BDMonitor.EventList
        /\ call'[o].name = x[1] /\ call'[o].c = c /\ call'[o].p = x[2]
        /\ call'[o].be = BDMonitor.EventList[c]
        /\ call' = [call EXCEPT ![o] = call'[o]]
    BY <1>1, <2>1, CallEffect
  <2>3. g # o => call'[g] = call[g]
    BY <2>2 DEF TypeInv, CallType
  <2> QED
    BY <1>1, <2>2, <2>3
<1>2. ASSUME NEW o \in Goroutines, StoreEvent(o) PROVE call'[g] = call[g]
  <2>1. call' = [call EXCEPT ![o] = NoCall]
    BY <1>2 DEF StoreEvent
  <2> QED
    BY <2>1 DEF TypeInv, CallType
<1>3. ASSUME NEW t \in Threads, ReplaceMonitor(t) PROVE FALSE
  BY <1>3 DEF ReplaceMonitor
<1>4. \/ UNCHANGED call
      \/ \E o \in Goroutines, c \in Blocks : \E x \in CallsOf[c] : CallHandler(o, c, x[1], x[2])
      \/ \E o \in Goroutines : StoreEvent(o)
      \/ \E t \in Threads : ReplaceMonitor(t)
  BY DEF Next, BitswapNext, ThreadNext, NewBlockEvent, Begin, Finish, GetReturns, FileFails,
     WriteReturns, CollectBreakdown, CollectTotals, Provide, ProvideFails, Wait, vars, callVars
<1> QED
  BY <1>1, <1>2, <1>3, <1>4

-----------------------------------------------------------------------------
(* What the handlers change *)

\* e differs from be in no count and in nothing about the receipt.
SameCounts(e, be) ==
    /\ e.FirstReceive = be.FirstReceive /\ e.ReceiveFrom = be.ReceiveFrom
    /\ e.NumOfRedundantBlks = be.NumOfRedundantBlks
    /\ e.NumOfRedundantReqs = be.NumOfRedundantReqs
SameTimes(e, be) ==
    /\ e.BlockServiceGet = be.BlockServiceGet /\ e.GetBlocksRequest = be.GetBlocksRequest
    /\ e.FirstFindProvider = be.FirstFindProvider /\ e.FirstPutStore = be.FirstPutStore
    /\ e.BeginVisit = be.BeginVisit /\ e.FinishVisit = be.FinishVisit
SamePeers(e, be) ==
    e.FirstWantTo = be.FirstWantTo /\ e.FirstGotProvider = be.FirstGotProvider

LEMMA LoadedSame ==
    ASSUME NEW h \in Calling, NEW be, Loaded(h, be)
    PROVE  SameCounts(be, h.be) /\ SameTimes(be, h.be)
<1>1. h.be \in Events
  BY DEF Calling
<1>2. CASE be = h.be
  BY <1>2 DEF SameCounts, SameTimes
<1>3. CASE be = [h.be EXCEPT !.FirstWantTo = BDMonitor.EventList[h.c].FirstWantTo,
                             !.FirstGotProvider = BDMonitor.EventList[h.c].FirstGotProvider]
  BY <1>1, <1>3 DEF SameCounts, SameTimes, Events
<1> QED
  BY <1>2, <1>3 DEF Loaded

LEMMA TimeHandlers ==
    ASSUME NEW be \in Events, NEW t, NEW e
    PROVE  /\ e \in BlockServiceGet(be, t) \/ e \in BitswapGet(be, t) \/ e \in BeginVisit(be, t)
              \/ e \in FinishVisit(be, t) \/ e \in PutStore(be, t) \/ e \in FindProviders(be, t)
              => SameCounts(e, be) /\ SamePeers(e, be)
<1> USE DEF SameCounts, SamePeers, Events
<1>1. e \in BlockServiceGet(be, t) => SameCounts(e, be) /\ SamePeers(e, be)
  BY DEF BlockServiceGet
<1>2. e \in BitswapGet(be, t) => SameCounts(e, be) /\ SamePeers(e, be)
  BY DEF BitswapGet
<1>3. e \in BeginVisit(be, t) => SameCounts(e, be) /\ SamePeers(e, be)
  BY DEF BeginVisit
<1>4. e \in FinishVisit(be, t) => SameCounts(e, be) /\ SamePeers(e, be)
  BY DEF FinishVisit
<1>5. e \in PutStore(be, t) => SameCounts(e, be) /\ SamePeers(e, be)
  BY DEF PutStore
<1>6. e \in FindProviders(be, t) => SameCounts(e, be) /\ SamePeers(e, be)
  BY DEF FindProviders
<1> QED
  BY <1>1, <1>2, <1>3, <1>4, <1>5, <1>6

LEMMA FoundEffect ==
    ASSUME NEW be \in Events, NEW p \in Peers, NEW t, NEW e \in FoundProvide(be, p, t)
    PROVE  /\ SameCounts(e, be) /\ SameTimes(e, be)
           /\ e.FirstWantTo = be.FirstWantTo
           /\ be.FirstGotProvider[p] = 0 /\ e.FirstGotProvider = [be.FirstGotProvider EXCEPT ![p] = t]
<1>1. e = [be EXCEPT !.FirstGotProvider[p] = t] /\ be.FirstGotProvider[p] = 0
  BY DEF FoundProvide
<1> QED
  BY <1>1 DEF SameCounts, SameTimes, Events

LEMMA WantEffect ==
    ASSUME NEW be \in Events, NEW p \in Peers, NEW t, NEW e \in SendWant(be, p, t)
    PROVE  /\ SameTimes(e, be)
           /\ e.FirstGotProvider = be.FirstGotProvider
           /\ \A q \in Peers : e.FirstWantTo[q] = IF q = p /\ be.FirstWantTo[p] = 0
                                                  THEN t ELSE be.FirstWantTo[q]
           /\ e.FirstReceive = be.FirstReceive /\ e.ReceiveFrom = be.ReceiveFrom
           /\ e.NumOfRedundantBlks = be.NumOfRedundantBlks
           /\ be.FirstReceive = 0 => e.NumOfRedundantReqs = be.NumOfRedundantReqs
           /\ be.FirstReceive # 0 => e.NumOfRedundantReqs = be.NumOfRedundantReqs + 1
<1> DEFINE n == be.NumOfRedundantReqs + (IF be.FirstReceive # 0 THEN 1 ELSE 0)
<1> DEFINE w == [be.FirstWantTo EXCEPT ![p] = IF @ = 0 THEN t ELSE @]
<1>1. e = [be EXCEPT !.NumOfRedundantReqs = n, !.FirstWantTo = w]
  BY DEF SendWant
<1>2. be.FirstWantTo \in [Peers -> Nat]
  BY EventFields
<1>3. be.NumOfRedundantReqs \in Nat
  BY EventFields
<1>4. \A q \in Peers : w[q] = IF q = p /\ be.FirstWantTo[p] = 0 THEN t ELSE be.FirstWantTo[q]
  BY <1>2
<1>5. /\ be.FirstReceive = 0 => n = be.NumOfRedundantReqs
      /\ be.FirstReceive # 0 => n = be.NumOfRedundantReqs + 1
  BY <1>3
<1> HIDE DEF n, w
<1>6. /\ SameTimes(e, be) /\ e.FirstGotProvider = be.FirstGotProvider
      /\ e.FirstReceive = be.FirstReceive /\ e.ReceiveFrom = be.ReceiveFrom
      /\ e.NumOfRedundantBlks = be.NumOfRedundantBlks
      /\ e.NumOfRedundantReqs = n /\ e.FirstWantTo = w
  BY <1>1 DEF SameTimes, Events
<1> QED
  BY <1>4, <1>5, <1>6

LEMMA ReceiveEffect ==
    ASSUME NEW be \in Events, NEW p \in Peers, NEW t, NEW e \in ReceiveBlock(be, p, t)
    PROVE  /\ SameTimes(e, be) /\ SamePeers(e, be)
           /\ e.NumOfRedundantReqs = be.NumOfRedundantReqs
           /\ be.FirstReceive = 0 =>
                 /\ e.FirstReceive = t /\ e.ReceiveFrom = p
                 /\ e.NumOfRedundantBlks = be.NumOfRedundantBlks
           /\ be.FirstReceive # 0 =>
                 /\ e.FirstReceive = be.FirstReceive /\ e.ReceiveFrom = be.ReceiveFrom
                 /\ e.NumOfRedundantBlks = be.NumOfRedundantBlks + 1
<1>1. CASE be.FirstReceive = 0
  <2>1. e = [be EXCEPT !.FirstReceive = t, !.ReceiveFrom = p]
    BY <1>1 DEF ReceiveBlock
  <2> QED
    BY <1>1, <2>1 DEF SameTimes, SamePeers, Events
<1>2. CASE be.FirstReceive # 0
  <2> DEFINE n == be.NumOfRedundantBlks + 1
  <2>1. e = [be EXCEPT !.NumOfRedundantBlks = n]
    BY <1>2 DEF ReceiveBlock
  <2> HIDE DEF n
  <2>2. /\ SameTimes(e, be) /\ SamePeers(e, be)
        /\ e.NumOfRedundantReqs = be.NumOfRedundantReqs
        /\ e.FirstReceive = be.FirstReceive /\ e.ReceiveFrom = be.ReceiveFrom
        /\ e.NumOfRedundantBlks = n
    BY <2>1 DEF SameTimes, SamePeers, Events
  <2> QED
    BY <1>2, <2>2 DEF n
<1> QED
  BY <1>1, <1>2

-----------------------------------------------------------------------------
(* Nothing is counted that was not in vain *)

LEMMA CountsGrow ==
    ASSUME NEW be \in Events, NEW c, EventCounts(be, c),
           received[c] \in Nat, lateWants[c] \in Nat, received'[c] \in Nat, lateWants'[c] \in Nat,
           received[c] <= received'[c], lateWants[c] <= lateWants'[c]
    PROVE  EventCounts(be, c)'
<1>1. be.NumOfRedundantBlks \in Nat /\ be.NumOfRedundantReqs \in Nat
  BY EventFields
<1> QED
  BY <1>1 DEF EventCounts

LEMMA CountsStored ==
    ASSUME TypeInv, CountsInv, NEW g \in Goroutines, StoreEvent(g), NEW h, h = call[g]
    PROVE  EventCounts(BDMonitor.EventList[h.c], h.c)'
<1>1. /\ h \in Calling /\ h # NoCall /\ h.c \in DOMAIN BDMonitor.EventList
      /\ h.name \in PeerCalls => h.p \in Peers
      /\ Made(h.c, h.name, h.p) /\ ListKept(h.c)
  BY StoreEffect
<1>2. PICK be \in Events : Loaded(h, be) /\ \E e \in Events : Stored(h, be, e)
  BY StoreEffect
<1>3. PICK e \in Events : Stored(h, be, e)
  BY <1>2
<1>4. h.c \in Blocks /\ h.name \in Names /\ h.be \in Events
  BY <1>1 DEF Calling
<1>5. /\ received[h.c] \in Nat /\ lateWants[h.c] \in Nat
      /\ received'[h.c] = received[h.c] + (IF h.name = "ReceiveBlock" THEN 1 ELSE 0)
      /\ lateWants'[h.c] =
             lateWants[h.c] + (IF h.name = "SendWant" /\ received[h.c] > 0 THEN 1 ELSE 0)
  BY <1>1, <1>4, MadeCounts DEF TypeInv, CallType
<1>6. EventCounts(be, h.c)
  <2>1. EventCounts(h.be, h.c)
    BY <1>1 DEF CountsInv
  <2> QED
    BY <1>1, <1>2, <2>1, LoadedSame DEF SameCounts, EventCounts
<1>7. e = BDMonitor'.EventList[h.c]
  BY <1>3 DEF Stored
<1>8. /\ be.NumOfRedundantBlks \in Nat /\ be.NumOfRedundantReqs \in Nat
      /\ e.NumOfRedundantBlks \in Nat /\ e.NumOfRedundantReqs \in Nat
  BY EventFields
<1>9. ASSUME SameCounts(e, be) PROVE EventCounts(e, h.c)'
  BY <1>5, <1>6, <1>8, <1>9 DEF SameCounts, EventCounts
<1>10. CASE e = BDMonitor.EventList[h.c]
  <2>1. EventCounts(e, h.c)
    BY <1>1, <1>10 DEF CountsInv
  <2>2. EventCounts(e, h.c)'
    BY <1>5, <1>8, <2>1 DEF EventCounts
  <2> QED
    BY <1>7, <2>2
<1>11. CASE e \in Stores(h.name, be, h.p, Now(h.c))
  <2>1. CASE h.name \in BlockCalls
    <3>1. SameCounts(e, be)
      BY <1>4, <1>11, <2>1, TimeHandlers, StoresIs, NamesAre DEF BlockCalls
    <3> QED
      BY <1>7, <1>9, <3>1
  <2>2. CASE h.name = "FoundProvide"
    <3>1. SameCounts(e, be)
      <4>1. e \in FoundProvide(be, h.p, Now(h.c)) /\ h.p \in Peers
        BY <1>1, <1>11, <2>2, StoresIs DEF PeerCalls
      <4> QED
        BY <4>1, FoundEffect
    <3> QED
      BY <1>7, <1>9, <3>1
  <2>3. CASE h.name = "SendWant"
    <3>1. /\ e.FirstReceive = be.FirstReceive
          /\ e.NumOfRedundantBlks = be.NumOfRedundantBlks
          /\ be.FirstReceive = 0 => e.NumOfRedundantReqs = be.NumOfRedundantReqs
          /\ be.FirstReceive # 0 => e.NumOfRedundantReqs = be.NumOfRedundantReqs + 1
      <4>1. e \in SendWant(be, h.p, Now(h.c)) /\ h.p \in Peers
        BY <1>1, <1>11, <2>3, StoresIs DEF PeerCalls
      <4> QED
        BY <4>1, WantEffect
    <3>2. EventCounts(e, h.c)'
      BY <1>5, <1>6, <1>8, <2>3, <3>1 DEF EventCounts
    <3> QED
      BY <1>7, <3>2
  <2>4. CASE h.name = "ReceiveBlock"
    <3>1. /\ e.NumOfRedundantReqs = be.NumOfRedundantReqs
          /\ be.FirstReceive = 0 => e.NumOfRedundantBlks = be.NumOfRedundantBlks
          /\ be.FirstReceive # 0 => e.NumOfRedundantBlks = be.NumOfRedundantBlks + 1
      <4>1. e \in ReceiveBlock(be, h.p, Now(h.c)) /\ h.p \in Peers
        BY <1>1, <1>11, <2>4, StoresIs DEF PeerCalls
      <4> QED
        BY <4>1, ReceiveEffect
    <3>2. EventCounts(e, h.c)'
      BY <1>5, <1>6, <1>8, <2>4, <3>1 DEF EventCounts
    <3> QED
      BY <1>7, <3>2
  <2> QED
    BY <1>4, <2>1, <2>2, <2>3, <2>4 DEF Names, PeerCalls
<1> QED
  BY <1>3, <1>10, <1>11 DEF Stored

\* Counts of what happened never fall.
LEMMA CountsRise ==
    ASSUME TypeInv, [Next]_vars
    PROVE  \A c \in Blocks : /\ received[c] \in Nat /\ received'[c] \in Nat /\ received[c] <= received'[c]
                             /\ lateWants[c] \in Nat /\ lateWants'[c] \in Nat
                             /\ lateWants[c] <= lateWants'[c]
<1>0. received \in [Blocks -> Nat] /\ lateWants \in [Blocks -> Nat]
  BY DEF TypeInv, CallType
<1>1. CASE UNCHANGED <<received, lateWants>>
  BY <1>0, <1>1
<1>2. ASSUME NEW g \in Goroutines, StoreEvent(g)
      PROVE  \A c \in Blocks :
                 /\ received'[c] \in Nat /\ received[c] <= received'[c]
                 /\ lateWants'[c] \in Nat /\ lateWants[c] <= lateWants'[c]
  <2>1. PICK h : h = call[g]
    OBVIOUS
  <2>2. h.c \in Blocks /\ Made(h.c, h.name, h.p)
    <3>1. h \in Calling /\ Made(h.c, h.name, h.p)
      BY <1>2, <2>1, StoreEffect
    <3> QED
      BY <3>1 DEF Calling
  <2>3. /\ received' \in [Blocks -> Nat] /\ lateWants' \in [Blocks -> Nat]
        /\ \A d \in Blocks : d # h.c => received'[d] = received[d] /\ lateWants'[d] = lateWants[d]
        /\ received'[h.c] = received[h.c] + (IF h.name = "ReceiveBlock" THEN 1 ELSE 0)
        /\ lateWants'[h.c] =
               lateWants[h.c] + (IF h.name = "SendWant" /\ received[h.c] > 0 THEN 1 ELSE 0)
    BY <1>0, <2>2, MadeCounts
  <2> QED
    BY <1>0, <2>3
<1>3. \/ UNCHANGED <<received, lateWants>>
      \/ \E g \in Goroutines : StoreEvent(g)
  BY DEF Next, BitswapNext, ThreadNext, NewBlockEvent, CallHandler, Begin, Finish, GetReturns,
     FileFails, WriteReturns, CollectBreakdown, CollectTotals, ReplaceMonitor, Provide,
     ProvideFails, Wait, vars, callVars
<1> QED
  BY <1>0, <1>1, <1>2, <1>3

LEMMA CountsStep ==
    ASSUME TypeInv, CountsInv, [Next]_vars
    PROVE  CountsInv'
<1>0. /\ \A c \in DOMAIN BDMonitor.EventList : BDMonitor.EventList[c] \in Events /\ c \in Blocks
      /\ \A g \in Goroutines : call[g] # NoCall => call[g].be \in Events /\ call[g].c \in Blocks
  <2>1. BDMonitor \in Monitors
    BY DEF TypeInv, CallType
  <2>2. \A g \in Goroutines : call[g] # NoCall => call[g].be \in Events /\ call[g].c \in Blocks
    BY DEF TypeInv, CallType, Calling
  <2> QED
    BY <2>1, <2>2, ListShape
<1>1. ASSUME NEW be \in Events, NEW c \in Blocks, EventCounts(be, c)
      PROVE  EventCounts(be, c)'
  BY <1>1, CountsRise, CountsGrow
<1>2. ASSUME NEW c \in DOMAIN BDMonitor'.EventList
      PROVE  EventCounts(BDMonitor.EventList[c], c)'
  <2>1. CASE c \in DOMAIN BDMonitor.EventList /\ BDMonitor'.EventList[c] = BDMonitor.EventList[c]
    <3>1. PICK be \in Events : be = BDMonitor.EventList[c]
      BY <1>0, <2>1
    <3>2. EventCounts(be, c) /\ c \in Blocks
      BY <1>0, <2>1, <3>1 DEF CountsInv
    <3>3. EventCounts(be, c)'
      BY <1>1, <3>2
    <3> QED
      BY <2>1, <3>1, <3>3
  <2>2. CASE c \in Blocks /\ BDMonitor'.EventList[c] = NewEvent
    <3>1. lateWants'[c] \in Nat
      BY <2>2, CountsRise
    <3>2. EventCounts(NewEvent, c)'
      BY <3>1 DEF EventCounts, NewEvent
    <3> QED
      BY <2>2, <3>2
  <2>3. CASE \E g \in Goroutines : StoreEvent(g) /\ call[g].c = c
    BY <2>3, CountsStored
  <2> QED
    BY <2>1, <2>2, <2>3, ListStep
<1>3. ASSUME NEW g \in Goroutines, call'[g] # NoCall
      PROVE  EventCounts(call[g].be, call[g].c)'
  <2>1. \E be \in Events, c \in Blocks :
            be = call'[g].be /\ c = call'[g].c /\ EventCounts(be, c)
    <3>1. CASE call[g] # NoCall /\ call'[g] = call[g]
      BY <1>0, <3>1 DEF CountsInv
    <3>2. CASE /\ call'[g].c \in DOMAIN BDMonitor.EventList
               /\ call'[g].be = BDMonitor.EventList[call'[g].c]
      BY <1>0, <3>2 DEF CountsInv
    <3> QED
      BY <1>3, <3>1, <3>2, CallStep
  <2>2. PICK be \in Events, c \in Blocks :
            be = call'[g].be /\ c = call'[g].c /\ EventCounts(be, c)
    BY <2>1
  <2>3. EventCounts(be, c)'
    BY <1>1, <2>2
  <2> QED
    BY <2>2, <2>3
<1> QED
  BY <1>2, <1>3 DEF CountsInv

\* What is collected is at most what happened.
LEMMA SumsBelow ==
    ASSUME TypeInv, CountsInv
    PROVE  /\ SumReqsRedundant(BDMonitor) <= Total(lateWants)
           /\ SumBlksRedundant(BDMonitor) <= Total(received)
<1> DEFINE D == DOMAIN BDMonitor.EventList
<1> DEFINE reqs == [c \in D |-> BDMonitor.EventList[c].NumOfRedundantReqs]
<1> DEFINE blks == [c \in D |-> BDMonitor.EventList[c].NumOfRedundantBlks]
<1>1. BDMonitor \in Monitors /\ received \in [Blocks -> Nat] /\ lateWants \in [Blocks -> Nat]
  BY DEF TypeInv, CallType
<1>2. D \subseteq Blocks /\ \A c \in D : BDMonitor.EventList[c] \in Events
  BY <1>1, ListShape
<1>3. ASSUME NEW c \in D
      PROVE  /\ reqs[c] \in Nat /\ reqs[c] <= lateWants[c]
             /\ blks[c] \in Nat /\ blks[c] <= received[c]
  <2>1. /\ BDMonitor.EventList[c].NumOfRedundantReqs \in Nat
        /\ BDMonitor.EventList[c].NumOfRedundantBlks \in Nat
    BY <1>2, EventFields
  <2>2. EventCounts(BDMonitor.EventList[c], c)
    BY DEF CountsInv
  <2>3. received[c] \in Nat /\ lateWants[c] \in Nat
    BY <1>1, <1>2
  <2> QED
    BY <2>1, <2>2, <2>3 DEF EventCounts
<1>4. DOMAIN reqs = D /\ DOMAIN blks = D
  OBVIOUS
<1>5. SumReqsRedundant(BDMonitor) = Total(reqs) /\ SumBlksRedundant(BDMonitor) = Total(blks)
  BY DEF SumReqsRedundant, SumBlksRedundant
<1>6. IsFiniteSet(Blocks) /\ DOMAIN received = Blocks /\ DOMAIN lateWants = Blocks
  BY <1>1, DownloadAssumption
<1> HIDE DEF D, reqs, blks
<1>7. Total(reqs) <= Total(lateWants)
  BY <1>1, <1>2, <1>3, <1>4, <1>6, TotalBelow
<1>8. Total(blks) <= Total(received)
  BY <1>1, <1>2, <1>3, <1>4, <1>6, TotalBelow
<1> QED
  BY <1>5, <1>7, <1>8

LEMMA TotalsNat ==
    ASSUME TypeInv
    PROVE  Total(received) \in Nat /\ Total(lateWants) \in Nat
<1>1. ASSUME NEW n \in [Blocks -> Nat] PROVE Total(n) \in Nat
  <2>1. IsFiniteSet(Blocks) /\ DOMAIN n = Blocks
    BY DownloadAssumption
  <2>2. \A c \in Blocks : n[c] \in Nat /\ n[c] <= n[c]
    OBVIOUS
  <2> QED
    BY <2>1, <2>2, TotalBelow
<1> QED
  BY <1>1 DEF TypeInv, CallType

\* The totals do not fall either.
LEMMA TotalsRise ==
    ASSUME TypeInv, [Next]_vars
    PROVE  /\ Total(received) \in Nat /\ Total(received)' \in Nat
           /\ Total(received) <= Total(received)'
           /\ Total(lateWants) \in Nat /\ Total(lateWants)' \in Nat
           /\ Total(lateWants) <= Total(lateWants)'
<1>1. /\ received \in [Blocks -> Nat] /\ lateWants \in [Blocks -> Nat]
      /\ received' \in [Blocks -> Nat] /\ lateWants' \in [Blocks -> Nat]
  BY TypeStep DEF TypeInv, CallType
<1>2. \A c \in Blocks : received[c] <= received'[c] /\ lateWants[c] <= lateWants'[c]
  BY CountsRise
<1>3. ASSUME NEW n \in [Blocks -> Nat], NEW m \in [Blocks -> Nat], \A c \in Blocks : n[c] <= m[c]
      PROVE  Total(n) \in Nat /\ Total(m) \in Nat /\ Total(n) <= Total(m)
  <2>1. IsFiniteSet(Blocks) /\ DOMAIN n = Blocks /\ DOMAIN m = Blocks
    BY DownloadAssumption
  <2>2. /\ \A c \in Blocks : m[c] \in Nat
        /\ \A c \in Blocks : n[c] \in Nat /\ n[c] <= m[c]
    BY <1>3
  <2> QED
    BY <2>1, <2>2, TotalBelow
<1>4. /\ Total(received) \in Nat /\ Total(received') \in Nat
      /\ Total(received) <= Total(received')
  BY <1>1, <1>2, <1>3
<1>5. /\ Total(lateWants) \in Nat /\ Total(lateWants') \in Nat
      /\ Total(lateWants) <= Total(lateWants')
  BY <1>1, <1>2, <1>3
<1> QED
  BY <1>4, <1>5

\* The report of a thread is what it collected last, or empty.
LEMMA ReportStep ==
    ASSUME TypeInv, [Next]_vars, NEW t \in Threads
    PROVE  /\ \/ report'[t].reqs = report[t].reqs /\ report'[t].blks = report[t].blks
              \/ report'[t].reqs = 0 /\ report'[t].blks = 0
              \/ /\ report'[t].reqs = SumReqsRedundant(BDMonitor)
                 /\ report'[t].blks = SumBlksRedundant(BDMonitor)
           /\ \/ report'[t].negative = report[t].negative /\ report'[t].blocks = report[t].blocks
              \/ ~report'[t].negative
              \/ /\ CollectBreakdown(t)
                 /\ report'[t].blocks = DOMAIN BDMonitor.EventList
                 /\ report'[t].negative = \E d \in GetBreakdown(BDMonitor) : d < 0
<1>0. report \in [Threads -> Reports]
  BY DEF TypeInv, CallType
<1>1. CASE CollectBreakdown(t)
  <2> DEFINE negative == \E d \in GetBreakdown(BDMonitor) : d < 0
  <2>1. report' = [report EXCEPT ![t] = [NoReport EXCEPT !.blocks = DOMAIN BDMonitor.EventList,
                                                         !.negative = negative]]
    BY <1>1 DEF CollectBreakdown
  <2> HIDE DEF negative
  <2>2. report'[t] = [NoReport EXCEPT !.blocks = DOMAIN BDMonitor.EventList, !.negative = negative]
    BY <1>0, <2>1
  <2>3. /\ report'[t].reqs = 0 /\ report'[t].blks = 0
        /\ report'[t].blocks = DOMAIN BDMonitor.EventList /\ report'[t].negative = negative
    BY <2>2 DEF NoReport
  <2> QED
    BY <1>1, <2>3 DEF negative
<1>2. CASE CollectTotals(t)
  <2>1. report' = [report EXCEPT ![t].realtime = RealTime(BDMonitor),
                                 ![t].reqs = SumReqsRedundant(BDMonitor),
                                 ![t].blks = SumBlksRedundant(BDMonitor)]
    BY <1>2 DEF CollectTotals
  <2>2. report'[t] = [report[t] EXCEPT !.realtime = RealTime(BDMonitor),
                          !.reqs = SumReqsRedundant(BDMonitor), !.blks = SumBlksRedundant(BDMonitor)]
    BY <1>0, <2>1
  <2>3. report[t] \in Reports
    BY <1>0
  <2>4. /\ report'[t].reqs = SumReqsRedundant(BDMonitor)
        /\ report'[t].blks = SumBlksRedundant(BDMonitor)
        /\ report'[t].negative = report[t].negative /\ report'[t].blocks = report[t].blocks
    BY <2>2, <2>3 DEF Reports
  <2> QED
    BY <2>4
<1>3. CASE ReplaceMonitor(t)
  <2>1. report'[t] = NoReport
    BY <1>0, <1>3 DEF ReplaceMonitor
  <2> QED
    BY <2>1 DEF NoReport
<1>4. CASE report'[t] = report[t]
  BY <1>4
<1>5. \/ CollectBreakdown(t) \/ CollectTotals(t) \/ ReplaceMonitor(t)
      \/ report'[t] = report[t]
  <2>1. ASSUME NEW u \in Threads, u # t,
               CollectBreakdown(u) \/ CollectTotals(u) \/ ReplaceMonitor(u)
        PROVE  report'[t] = report[t]
    BY <1>0, <2>1 DEF CollectBreakdown, CollectTotals, ReplaceMonitor
  <2>2. \/ UNCHANGED report
        \/ \E u \in Threads : CollectBreakdown(u) \/ CollectTotals(u) \/ ReplaceMonitor(u)
    BY DEF Next, BitswapNext, ThreadNext, NewBlockEvent, CallHandler, StoreEvent, Begin, Finish,
       GetReturns, FileFails, WriteReturns, Provide, ProvideFails, Wait, vars, threadVars
  <2> QED
    BY <2>1, <2>2
<1> QED
  BY <1>1, <1>2, <1>3, <1>4, <1>5

LEMMA ReportsStep ==
    ASSUME TypeInv, CountsInv, ReportsInv, [Next]_vars
    PROVE  ReportsInv'
<1> SUFFICES ASSUME NEW t \in Threads
             PROVE  /\ report'[t].reqs <= Total(lateWants)'
                    /\ report'[t].blks <= Total(received)'
  BY DEF ReportsInv
<1>1. /\ report[t].reqs <= Total(lateWants) /\ report[t].blks <= Total(received)
      /\ report[t].reqs \in Nat /\ report[t].blks \in Nat
      /\ SumReqsRedundant(BDMonitor) \in Nat /\ SumBlksRedundant(BDMonitor) \in Nat
  BY SumsNat DEF TypeInv, CallType, ReportsInv, Reports
<1>2. \/ report'[t].reqs = report[t].reqs /\ report'[t].blks = report[t].blks
      \/ report'[t].reqs = 0 /\ report'[t].blks = 0
      \/ /\ report'[t].reqs = SumReqsRedundant(BDMonitor)
         /\ report'[t].blks = SumBlksRedundant(BDMonitor)
  BY ReportStep
<1>3. /\ SumReqsRedundant(BDMonitor) <= Total(lateWants)
      /\ SumBlksRedundant(BDMonitor) <= Total(received)
  BY SumsBelow
<1> QED
  BY <1>1, <1>2, <1>3, TotalsRise

\* However handlers interleave, no event and no report counts more redundant blocks
\* and requests than there were: what a lost store loses is only a count
\* (monitor.go:150-205, metrics.go:301).
THEOREM RedundancyIsReal == Spec => []NeverOvercounts
<1>1. Init => TypeInv /\ CountsInv /\ ReportsInv
  <2> SUFFICES ASSUME Init PROVE TypeInv /\ CountsInv /\ ReportsInv
    OBVIOUS
  <2>1. TypeInv
    BY TypeInit
  <2>2. DOMAIN BDMonitor.EventList = {} /\ call = [g \in Goroutines |-> NoCall]
    BY NewIsMonitor DEF Init
  <2>3. CountsInv
    BY <2>2 DEF CountsInv
  <2>4. report = [t \in Threads |-> NoReport]
    BY DEF Init
  <2>5. Total(received) \in Nat /\ Total(lateWants) \in Nat
    BY <2>1, TotalsNat
  <2>6. ReportsInv
    BY <2>4, <2>5 DEF ReportsInv, NoReport
  <2> QED
    BY <2>1, <2>3, <2>6
<1>2. TypeInv /\ CountsInv /\ ReportsInv /\ [Next]_vars => (TypeInv /\ CountsInv /\ ReportsInv)'
  BY TypeStep, CountsStep, ReportsStep
<1>3. CountsInv /\ ReportsInv => NeverOvercounts
  BY DEF CountsInv, ReportsInv, NeverOvercounts, EventCounts
<1> QED
  BY <1>1, <1>2, <1>3, PTL DEF Spec
-----------------------------------------------------------------------------
(* An undisturbed thread reports its own file *)

\* t had the monitor for itself so far.
Undisturbed(t) == AtWork(t) /\ ~disturbed[t]

\* A step of a thread at work is none of an undisturbed other.
LEMMA OthersIdle ==
    ASSUME OwnInv, NEW t \in Threads, NEW u \in Threads, t # u, AtWork(u)
    PROVE  ~Undisturbed(t)
  BY DEF OwnInv, Alone, Undisturbed

LEMMA OwnHandlers ==
    ASSUME TypeInv, OwnInv, BitswapNext
    PROVE  OwnInv'
<1>1. UNCHANGED threadVars
  BY DEF BitswapNext, NewBlockEvent, CallHandler, StoreEvent
<1>2. ASSUME NEW c \in Blocks, NewBlockEvent(c) PROVE OwnInv'
  <2>1. /\ DOMAIN BDMonitor'.EventList = DOMAIN BDMonitor.EventList \cup {c}
        /\ BDMonitor'.GetStartTime = BDMonitor.GetStartTime
        /\ BDMonitor'.GetFinishTime = BDMonitor.GetFinishTime
        /\ Wanted(c)
    BY <1>2, NewBlockEffect
  <2>2. PICK u \in Threads : \/ pc[u] = "get" /\ c = cid(u)
                             \/ pc[u] = "write" /\ c \in BlocksOf[cid(u)]
    BY <2>1 DEF Wanted
  <2>3. AtWork(u) /\ Measuring(u)
    BY <2>2 DEF AtWork, Measuring
  <2>4. c \in BlocksOf[cid(u)]
    BY <2>2, <2>3, RootInFile DEF TypeInv
  <2>5. ASSUME NEW t \in Threads PROVE Alone(t)'
    <3>1. CASE t = u
      BY <1>1, <2>1, <2>4, <3>1 DEF OwnInv, Alone, AtWork, Measuring, cid, threadVars
    <3>2. CASE t # u
      <4>1. ~Undisturbed(t)
        BY <2>3, <3>2, OthersIdle
      <4> QED
        BY <1>1, <4>1 DEF Alone, Undisturbed, AtWork, threadVars
    <3> QED
      BY <3>1, <3>2
  <2>6. Measuring(u)'
    BY <1>1, <2>3 DEF Measuring, threadVars
  <2> QED
    BY <2>5, <2>6 DEF OwnInv
<1>3. ASSUME DOMAIN BDMonitor'.EventList = DOMAIN BDMonitor.EventList,
             BDMonitor'.GetStartTime = BDMonitor.GetStartTime,
             BDMonitor'.GetFinishTime = BDMonitor.GetFinishTime
      PROVE  OwnInv'
  BY <1>1, <1>3 DEF OwnInv, Alone, AtWork, Measuring, cid, threadVars
<1>4. ASSUME NEW g \in Goroutines, StoreEvent(g) PROVE OwnInv'
  <2>1. ListKept(call[g].c)
    BY <1>4, StoreEffect
  <2> QED
    BY <1>3, <2>1 DEF ListKept
<1>5. ASSUME UNCHANGED BDMonitor PROVE OwnInv'
  BY <1>3, <1>5
<1> QED
  BY <1>2, <1>4, <1>5 DEF BitswapNext, CallHandler

\* A thread at work that neither begins nor ends to measure.
LEMMA OwnMeasures ==
    ASSUME TypeInv, OwnInv, NEW u \in Threads,
           AtWork(u), UNCHANGED <<file, disturbed>>,
           \A t \in Threads \ {u} : pc'[t] = pc[t],
           AtWork(u)' => Alone(u)',
           \/ Measuring(u)' \/ failed' \/ DOMAIN BDMonitor'.EventList = {}
    PROVE  OwnInv'
<1>1. ASSUME NEW t \in Threads, t # u PROVE Alone(t)'
  <2>1. ~Undisturbed(t)
    BY <1>1, OthersIdle
  <2> QED
    BY <1>1, <2>1 DEF Alone, Undisturbed, AtWork
<1>2. Alone(u)'
  BY DEF Alone
<1> QED
  BY <1>1, <1>2 DEF OwnInv

LEMMA OwnThreads ==
    ASSUME TypeInv, OwnInv, NEW u \in Threads, ThreadNext(u)
    PROVE  OwnInv'
<1>0. /\ pc \in [Threads -> Points] /\ file \in [Threads -> Nat]
      /\ disturbed \in [Threads -> BOOLEAN] /\ report \in [Threads -> Reports]
      /\ BDMonitor \in Monitors /\ Alone(u)
  BY DEF TypeInv, ThreadType, CallType, OwnInv
<1>1. CASE Begin(u)
  <2>1. /\ pc[u] = "next" /\ file' = [file EXCEPT ![u] = @ + 1] /\ pc' = [pc EXCEPT ![u] = "get"]
        /\ disturbed' = [v \in Threads |->
               IF v = u THEN failed \/ \E w \in Threads \ {u} : AtWork(w)
               ELSE disturbed[v] \/ AtWork(v)]
        /\ UNCHANGED failed
        /\ BDMonitor' = [BDMonitor EXCEPT !.GetStartTime = <<u, file'[u]>>]
    BY <1>1 DEF Begin
  <2>2. ASSUME NEW t \in Threads, t # u PROVE Alone(t)'
    BY <1>0, <2>1, <2>2 DEF Alone, AtWork
  <2>3. pc'[u] = "get" /\ \A v \in Threads \ {u} : pc'[v] = pc[v]
    BY <1>0, <2>1
  <2>4. /\ BDMonitor'.EventList = BDMonitor.EventList
        /\ BDMonitor'.GetStartTime = <<u, file'[u]>>
    BY <1>0, <2>1 DEF Monitors
  <2>5. ASSUME ~disturbed'[u] PROVE Alone(u)'
    <3>1. ~failed /\ \A v \in Threads \ {u} : ~AtWork(v)
      BY <2>1, <2>5
    <3>2. \A v \in Threads : ~Measuring(v)
      BY <2>1, <3>1 DEF AtWork, Measuring
    <3>3. DOMAIN BDMonitor.EventList = {}
      BY <3>1, <3>2 DEF OwnInv
    <3>4. \A v \in Threads \ {u} : ~AtWork(v)'
      BY <2>3, <3>1 DEF AtWork
    <3> QED
      BY <2>1, <2>3, <2>4, <3>1, <3>3, <3>4 DEF Alone
  <2>6. Alone(u)'
    BY <2>5 DEF Alone
  <2>7. Measuring(u)'
    BY <2>3 DEF Measuring
  <2> QED
    BY <2>2, <2>6, <2>7 DEF OwnInv
<1>2. CASE Finish(u) \/ Provide(u) \/ ProvideFails(u)
  <2>1. /\ pc[u] \in {"next", "provide"} /\ \E at \in {"next", "done"} : pc' = [pc EXCEPT ![u] = at]
        /\ UNCHANGED <<BDMonitor, file, report, failed, disturbed>>
    BY <1>2 DEF Finish, Provide, ProvideFails
  <2>2. pc'[u] \in {"next", "done"} /\ \A v \in Threads \ {u} : pc'[v] = pc[v]
    BY <1>0, <2>1
  <2>3. \A v \in Threads : (Measuring(v)' <=> Measuring(v)) /\ (AtWork(v)' => AtWork(v))
    BY <2>1, <2>2 DEF Measuring, AtWork
  <2>4. ASSUME NEW t \in Threads PROVE Alone(t)'
    <3>1. CASE t = u
      BY <2>2, <3>1 DEF Alone, AtWork
    <3>2. CASE t # u
      <4>1. Alone(t) /\ pc'[t] = pc[t]
        BY <2>2, <3>2 DEF OwnInv
      <4> QED
        BY <2>1, <2>3, <4>1 DEF Alone, cid
    <3> QED
      BY <3>1, <3>2
  <2> QED
    BY <2>1, <2>3, <2>4 DEF OwnInv
<1>3. CASE GetReturns(u)
  <2>1. /\ pc[u] = "get" /\ pc' = [pc EXCEPT ![u] = "write"]
        /\ UNCHANGED <<BDMonitor, file, report, failed, disturbed>>
    BY <1>3 DEF GetReturns
  <2>2. pc'[u] = "write" /\ \A v \in Threads \ {u} : pc'[v] = pc[v]
    BY <1>0, <2>1
  <2>3. AtWork(u) /\ Measuring(u) /\ Measuring(u)'
    BY <2>1, <2>2 DEF AtWork, Measuring
  <2>4. Alone(u)'
    BY <1>0, <2>1, <2>2, <2>3 DEF Alone, AtWork, cid
  <2> QED
    BY <2>1, <2>2, <2>3, <2>4, OwnMeasures
<1>4. CASE FileFails(u)
  <2>1. /\ pc[u] \in {"get", "write"} /\ pc' = [pc EXCEPT ![u] = "next"] /\ failed'
        /\ UNCHANGED <<file, disturbed>>
    BY <1>4 DEF FileFails
  <2>2. pc'[u] = "next" /\ \A v \in Threads \ {u} : pc'[v] = pc[v]
    BY <1>0, <2>1
  <2>3. AtWork(u) /\ ~AtWork(u)'
    BY <2>1, <2>2 DEF AtWork
  <2> QED
    BY <2>1, <2>2, <2>3, OwnMeasures
<1>5. CASE WriteReturns(u)
  <2>1. /\ pc[u] = "write" /\ pc' = [pc EXCEPT ![u] = "breakdown"]
        /\ BDMonitor' = [BDMonitor EXCEPT !.GetFinishTime = <<u, file[u]>>]
        /\ UNCHANGED <<file, report, failed, disturbed>>
    BY <1>5 DEF WriteReturns
  <2>2. pc'[u] = "breakdown" /\ \A v \in Threads \ {u} : pc'[v] = pc[v]
    BY <1>0, <2>1
  <2>3. AtWork(u) /\ Measuring(u) /\ Measuring(u)'
    BY <2>1, <2>2 DEF AtWork, Measuring
  <2>4. /\ BDMonitor'.EventList = BDMonitor.EventList
        /\ BDMonitor'.GetStartTime = BDMonitor.GetStartTime
        /\ BDMonitor'.GetFinishTime = <<u, file[u]>>
    BY <1>0, <2>1 DEF Monitors
  <2>5. Alone(u)'
    BY <1>0, <2>1, <2>2, <2>3, <2>4 DEF Alone, AtWork, cid
  <2> QED
    BY <2>1, <2>2, <2>3, <2>5, OwnMeasures
<1>6. CASE CollectBreakdown(u)
  <2> DEFINE negative == \E d \in GetBreakdown(BDMonitor) : d < 0
  <2>1. /\ pc[u] = "breakdown" /\ pc' = [pc EXCEPT ![u] = "totals"]
        /\ report' = [report EXCEPT ![u] = [NoReport EXCEPT !.blocks = DOMAIN BDMonitor.EventList,
                                                            !.negative = negative]]
        /\ UNCHANGED <<BDMonitor, file, failed, disturbed>>
    BY <1>6 DEF CollectBreakdown
  <2> HIDE DEF negative
  <2>2. pc'[u] = "totals" /\ \A v \in Threads \ {u} : pc'[v] = pc[v]
    BY <1>0, <2>1
  <2>3. AtWork(u) /\ Measuring(u) /\ Measuring(u)'
    BY <2>1, <2>2 DEF AtWork, Measuring
  <2>4. report'[u] = [NoReport EXCEPT !.blocks = DOMAIN BDMonitor.EventList, !.negative = negative]
    BY <1>0, <2>1
  <2>5. report'[u].blocks = DOMAIN BDMonitor.EventList
    BY <2>4 DEF NoReport
  <2>6. Alone(u)'
    BY <1>0, <2>1, <2>2, <2>3, <2>5 DEF Alone, AtWork, cid
  <2> QED
    BY <2>1, <2>2, <2>3, <2>6, OwnMeasures
<1>7. CASE CollectTotals(u)
  <2>1. /\ pc[u] = "totals" /\ pc' = [pc EXCEPT ![u] = "replace"]
        /\ report' = [report EXCEPT ![u].realtime = RealTime(BDMonitor),
                                    ![u].reqs = SumReqsRedundant(BDMonitor),
                                    ![u].blks = SumBlksRedundant(BDMonitor)]
        /\ UNCHANGED <<BDMonitor, file, failed, disturbed>>
    BY <1>7 DEF CollectTotals
  <2>2. pc'[u] = "replace" /\ \A v \in Threads \ {u} : pc'[v] = pc[v]
    BY <1>0, <2>1
  <2>3. AtWork(u) /\ Measuring(u) /\ Measuring(u)'
    BY <2>1, <2>2 DEF AtWork, Measuring
  <2>4. report'[u] = [report[u] EXCEPT !.realtime = RealTime(BDMonitor),
                          !.reqs = SumReqsRedundant(BDMonitor), !.blks = SumBlksRedundant(BDMonitor)]
    BY <1>0, <2>1
  <2>5. /\ report'[u].blocks = report[u].blocks
        /\ report'[u].realtime = <<BDMonitor.GetStartTime, BDMonitor.GetFinishTime>>
    <3>1. report[u] \in Reports
      BY <1>0
    <3> QED
      BY <2>4, <3>1 DEF Reports, RealTime
  <2>6. Alone(u)'
    BY <1>0, <2>1, <2>2, <2>3, <2>5 DEF Alone, AtWork, cid
  <2> QED
    BY <2>1, <2>2, <2>3, <2>6, OwnMeasures
<1>8. CASE ReplaceMonitor(u)
  <2>1. /\ pc[u] = "replace" /\ pc' = [pc EXCEPT ![u] = IF pag THEN "provide" ELSE "next"]
        /\ BDMonitor' = NewMonitor
        /\ UNCHANGED <<file, disturbed>>
    BY <1>8 DEF ReplaceMonitor
  <2>2. pc'[u] \in {"provide", "next"} /\ \A v \in Threads \ {u} : pc'[v] = pc[v]
    BY <1>0, <2>1
  <2>3. AtWork(u) /\ DOMAIN BDMonitor'.EventList = {}
    BY <2>1, NewIsMonitor DEF AtWork
  <2>4. Alone(u)'
    BY <1>0, <2>1, <2>2, <2>3 DEF Alone, AtWork, Measuring
  <2> QED
    BY <2>1, <2>2, <2>3, <2>4, OwnMeasures
<1> QED
  BY <1>1, <1>2, <1>3, <1>4, <1>5, <1>6, <1>7, <1>8 DEF ThreadNext

LEMMA OwnStep ==
    ASSUME TypeInv, OwnInv, [Next]_vars
    PROVE  OwnInv'
<1>1. CASE Wait \/ UNCHANGED vars
  <2>1. UNCHANGED <<BDMonitor, pc, file, report, failed, disturbed>>
    BY <1>1 DEF Wait, vars, threadVars
  <2> QED
    BY <2>1 DEF OwnInv, Alone, AtWork, Measuring, cid
<1> QED
  BY <1>1, OwnHandlers, OwnThreads DEF Next

\* A thread that had BDMonitor for itself since it began a file, and found no events
\* left by a file that failed, reports the blocks of its own file only, over a time
\* that is its own (main.go:437-461, metrics.go:267).
THEOREM UndisturbedReportsAreOwn == Spec => []OwnFileWhenUndisturbed
<1>1. Init => TypeInv /\ OwnInv
  <2> SUFFICES ASSUME Init PROVE TypeInv /\ OwnInv
    OBVIOUS
  <2>1. pc = [t \in Threads |-> "next"] /\ DOMAIN BDMonitor.EventList = {}
    BY NewIsMonitor DEF Init
  <2>2. OwnInv
    BY <2>1 DEF OwnInv, Alone, AtWork
  <2> QED
    BY <2>2, TypeInit
<1>2. TypeInv /\ OwnInv /\ [Next]_vars => (TypeInv /\ OwnInv)'
  BY TypeStep, OwnStep
<1>3. OwnInv => OwnFileWhenUndisturbed
  BY DEF OwnInv, Alone, AtWork, OwnFileWhenUndisturbed
<1> QED
  BY <1>1, <1>2, <1>3, PTL DEF Spec
-----------------------------------------------------------------------------
(* Calls wait for each other *)

LEMMA MadeTimes ==
    ASSUME MadeType, NEW c \in Blocks
    PROVE  /\ Now(c) \in Nat
           /\ \A x \in DOMAIN made[c] : /\ made[c][x] \in Nat /\ made[c][x] > 0
                                        /\ made[c][x] < Now(c)
<1>1. Cardinality(DOMAIN made[c]) \in Nat
  BY MadeFinite DEF MadeType, MadeOK
<1> QED
  BY <1>1 DEF Now, MadeType, MadeOK

\* What was called was called for the peer, or for none.
LEMMA WasFor ==
    ASSUME MadeType, NEW c \in Blocks, NEW name, Was(c, name)
    PROVE  /\ name \in BlockCalls => Had(c, name, NoPeer, Now(c))
           /\ name \in PeerCalls => \E q \in Peers : Had(c, name, q, Now(c))
<1>1. PICK q \in Peers \cup {NoPeer} : <<name, q>> \in DOMAIN made[c]
  BY DEF Was
<1>2. <<name, q>> \in CallsOf[c]
  BY <1>1 DEF MadeType, MadeOK
<1>3. \/ name \in BlockCalls /\ q = NoPeer
      \/ name \in PeerCalls /\ q \in Peers
  BY <1>2, CallsShape
<1>4. Had(c, name, q, Now(c))
  BY <1>1, MadeTimes DEF Had
<1>5. BlockCalls \cap PeerCalls = {}
  BY DEF BlockCalls, PeerCalls
<1> QED
  BY <1>3, <1>4, <1>5

LEMMA PastFor ==
    ASSUME MadeType, NEW c \in Blocks, NEW name \in BlockCalls, Past(c, name)
    PROVE  HadIfAny(c, name, Now(c))
<1>1. CASE Was(c, name)
  BY <1>1, WasFor DEF HadIfAny
<1>2. CASE ~\E x \in CallsOf[c] : x[1] = name
  <2>1. <<name, NoPeer>>[1] = name
    OBVIOUS
  <2>2. <<name, NoPeer>> \notin CallsOf[c]
    BY <1>2, <2>1
  <2> QED
    BY <2>2 DEF HadIfAny
<1> QED
  BY <1>1, <1>2 DEF Past

\* bitswap calls a handler when what it waits for was called.
LEMMA ReadyInOrder ==
    ASSUME MadeType, NEW c \in Blocks, NEW name \in Names, NEW p, Ready(c, name, p)
    PROVE  InOrder(c, name, p, Now(c))
<1> USE DEF InOrder, BlockCalls, PeerCalls
<1>1. CASE name = "BitswapGet"
  BY <1>1, PastFor DEF Ready
<1>2. CASE name = "FindProviders"
  BY <1>2, PastFor DEF Ready
<1>3. CASE name = "SendWant"
  BY <1>3, PastFor DEF Ready
<1>4. CASE name = "FoundProvide"
  BY <1>4, WasFor DEF Ready
<1>5. CASE name = "ReceiveBlock"
  <2>1. <<"SendWant", p>> \in DOMAIN made[c]
    BY <1>5 DEF Ready
  <2> QED
    BY <1>5, <2>1, MadeTimes DEF Had
<1>6. CASE name = "PutStore"
  BY <1>6, WasFor DEF Ready
<1>7. CASE name = "FinishVisit"
  BY <1>7, WasFor DEF Ready
<1>8. CASE name \in {"BlockServiceGet", "BeginVisit"}
  BY <1>8
<1> QED
  BY <1>1, <1>2, <1>3, <1>4, <1>5, <1>6, <1>7, <1>8, NamesAre

\* What was there stays there.
LEMMA OrderKept ==
    ASSUME NEW c, NEW name, NEW p, NEW n \in Nat, NEW m \in Nat, n <= m,
           InOrder(c, name, p, n),
           \A x \in DOMAIN made[c] :
               made[c][x] \in Nat /\ x \in DOMAIN made'[c] /\ made'[c][x] = made[c][x]
    PROVE  InOrder(c, name, p, m)'
<1>1. \A nm, q : Had(c, nm, q, n) => Had(c, nm, q, m)'
  BY DEF Had
<1>2. \A nm : HadIfAny(c, nm, n) => HadIfAny(c, nm, m)'
  BY <1>1 DEF HadIfAny
<1> QED
  BY <1>1, <1>2 DEF InOrder

\* A call that was recorded has the next time, and changes no other.
LEMMA RecordedLast ==
    ASSUME MadeType, MadeType', NEW c \in Blocks, NEW name, NEW p, Recorded(c, name, p),
           NEW d \in Blocks
    PROVE  /\ \A x \in DOMAIN made[d] : x \in DOMAIN made'[d] /\ made'[d][x] = made[d][x]
           /\ \A x \in DOMAIN made'[d] \ DOMAIN made[d] :
                  d = c /\ x = <<name, p>> /\ made'[d][x] = Now(d)
           /\ Now(d) \in Nat /\ Now(d)' \in Nat /\ Now(d) <= Now(d)'
<1>1. /\ \A b \in Blocks \ {c} : made'[b] = made[b]
      /\ DOMAIN made'[c] = DOMAIN made[c] \cup {<<name, p>>}
      /\ made'[c][<<name, p>>] = Now(c)
      /\ \A x \in DOMAIN made[c] : made'[c][x] = made[c][x]
      /\ Cardinality(DOMAIN made'[c]) = Now(c)
  BY DEF Recorded
<1>2. Now(d) \in Nat /\ Now(c) \in Nat
  BY MadeTimes
<1>3. CASE d = c
  <2>1. Now(c)' = Now(c) + 1
    BY <1>1 DEF Now
  <2> QED
    BY <1>1, <1>2, <1>3, <2>1
<1>4. CASE d # c
  <2>1. made'[d] = made[d]
    BY <1>1, <1>4
  <2> QED
    BY <1>2, <2>1 DEF Now
<1> QED
  BY <1>3, <1>4

\* As long as the monitor is kept calls are only added, each at its time.
LEMMA MadeGoesOn ==
    ASSUME TypeInv, OrderInv, [Next]_vars, \A t \in Threads : ~ReplaceMonitor(t),
           NEW d \in Blocks
    PROVE  /\ \A x \in DOMAIN made[d] : x \in DOMAIN made'[d] /\ made'[d][x] = made[d][x]
           /\ \A x \in DOMAIN made'[d] \ DOMAIN made[d] :
                  made'[d][x] = Now(d) /\ InOrder(d, x[1], x[2], Now(d))
           /\ Now(d) \in Nat /\ Now(d)' \in Nat /\ Now(d) <= Now(d)'
<1>0. MadeType /\ Now(d) \in Nat
  BY MadeTimes DEF TypeInv
<1>1. ASSUME NEW c \in Blocks, NewBlockEvent(c)
      PROVE  /\ \A x \in DOMAIN made[d] : x \in DOMAIN made'[d] /\ made'[d][x] = made[d][x]
             /\ \A x \in DOMAIN made'[d] \ DOMAIN made[d] :
                    made'[d][x] = Now(d) /\ InOrder(d, x[1], x[2], Now(d))
             /\ Now(d)' \in Nat /\ Now(d) <= Now(d)'
  <2>1. Recorded(c, "NewBlockEvent", NoPeer) /\ MadeType'
    BY <1>1, NewBlockEffect
  <2>2. InOrder(d, "NewBlockEvent", NoPeer, Now(d))
    BY DEF InOrder
  <2> QED
    BY <1>0, <2>1, <2>2, RecordedLast
<1>2. ASSUME NEW g \in Goroutines, StoreEvent(g)
      PROVE  /\ \A x \in DOMAIN made[d] : x \in DOMAIN made'[d] /\ made'[d][x] = made[d][x]
             /\ \A x \in DOMAIN made'[d] \ DOMAIN made[d] :
                    made'[d][x] = Now(d) /\ InOrder(d, x[1], x[2], Now(d))
             /\ Now(d)' \in Nat /\ Now(d) <= Now(d)'
  <2>1. PICK h : h = call[g]
    OBVIOUS
  <2>2. Recorded(h.c, h.name, h.p) /\ MadeType' /\ h \in Calling /\ h # NoCall
    BY <1>2, <2>1, StoreEffect
  <2>3. InOrder(h.c, h.name, h.p, Now(h.c))
    BY <2>1, <2>2 DEF OrderInv
  <2>4. h.c \in Blocks
    BY <2>2 DEF Calling
  <2> QED
    BY <1>0, <2>2, <2>3, <2>4, RecordedLast
<1>3. ASSUME UNCHANGED made
      PROVE  /\ \A x \in DOMAIN made[d] : x \in DOMAIN made'[d] /\ made'[d][x] = made[d][x]
             /\ \A x \in DOMAIN made'[d] \ DOMAIN made[d] :
                    made'[d][x] = Now(d) /\ InOrder(d, x[1], x[2], Now(d))
             /\ Now(d)' \in Nat /\ Now(d) <= Now(d)'
  BY <1>0, <1>3 DEF Now
<1>4. \/ \E c \in Blocks : NewBlockEvent(c)
      \/ \E g \in Goroutines : StoreEvent(g)
      \/ UNCHANGED made
  BY DEF Next, BitswapNext, ThreadNext, CallHandler, Begin, Finish, GetReturns, FileFails,
     WriteReturns, CollectBreakdown, CollectTotals, Provide, ProvideFails, Wait, vars, callVars
<1> QED
  BY <1>0, <1>1, <1>2, <1>3, <1>4

LEMMA OrderStep ==
    ASSUME TypeInv, OrderInv, [Next]_vars
    PROVE  OrderInv'
<1>1. ASSUME NEW t \in Threads, ReplaceMonitor(t) PROVE OrderInv'
  <2>1. /\ call' = [g \in Goroutines |-> NoCall]
        /\ \A c \in Blocks :
              /\ c \notin DOMAIN BDMonitor.EventList => made'[c] = made[c]
              /\ c \in DOMAIN BDMonitor.EventList => DOMAIN made'[c] = {New}
    BY <1>1, ReplaceEffect
  <2>2. ASSUME NEW c \in Blocks, NEW x \in DOMAIN made'[c]
        PROVE  InOrder(c, x[1], x[2], made[c][x])'
    <3>1. CASE made'[c] = made[c]
      <4>1. InOrder(c, x[1], x[2], made[c][x])
        BY <2>2, <3>1 DEF OrderInv
      <4> QED
        BY <3>1, <4>1 DEF InOrder, HadIfAny, Had
    <3>2. CASE x = New
      <4>1. x[1] = "NewBlockEvent"
        BY <3>2 DEF New
      <4> QED
        BY <4>1 DEF InOrder
    <3> QED
      BY <2>1, <2>2, <3>1, <3>2
  <2> QED
    BY <2>1, <2>2 DEF OrderInv
<1>2. CASE \A t \in Threads : ~ReplaceMonitor(t)
  <2>1. ASSUME NEW d \in Blocks, NEW nm, NEW q, NEW n \in Nat, NEW m \in Nat, n <= m,
               InOrder(d, nm, q, n)
        PROVE  InOrder(d, nm, q, m)'
    <3>1. \A x \in DOMAIN made[d] : made[d][x] \in Nat
      BY MadeTimes DEF TypeInv
    <3>2. \A x \in DOMAIN made[d] : x \in DOMAIN made'[d] /\ made'[d][x] = made[d][x]
      BY <1>2, MadeGoesOn
    <3> QED
      BY <2>1, <3>1, <3>2, OrderKept
  <2>2. ASSUME NEW c \in Blocks, NEW x \in DOMAIN made'[c]
        PROVE  InOrder(c, x[1], x[2], made[c][x])'
    <3>1. \E n \in Nat : n = made'[c][x] /\ InOrder(c, x[1], x[2], n)
      <4>1. CASE x \in DOMAIN made[c]
        <5>1. made[c][x] \in Nat
          BY <4>1, MadeTimes DEF TypeInv
        <5>2. InOrder(c, x[1], x[2], made[c][x])
          BY <4>1 DEF OrderInv
        <5>3. made'[c][x] = made[c][x]
          BY <1>2, <4>1, MadeGoesOn
        <5> QED
          BY <5>1, <5>2, <5>3
      <4>2. CASE x \notin DOMAIN made[c]
        BY <1>2, <2>2, <4>2, MadeGoesOn
      <4> QED
        BY <4>1, <4>2
    <3>2. PICK n \in Nat : n = made'[c][x] /\ InOrder(c, x[1], x[2], n)
      BY <3>1
    <3>3. InOrder(c, x[1], x[2], n)'
      BY <2>1, <3>2
    <3> QED
      BY <3>2, <3>3
  <2>3. ASSUME NEW g \in Goroutines, call'[g] # NoCall
        PROVE  InOrder(call[g].c, call[g].name, call[g].p, Now(call[g].c))'
    <3>1. \E d, nm, q : /\ d \in Blocks /\ d = call'[g].c /\ nm = call'[g].name /\ q = call'[g].p
                                   /\ InOrder(d, nm, q, Now(d))
      <4>1. CASE call[g] # NoCall /\ call'[g] = call[g]
        <5>1. call[g].c \in Blocks
          BY <4>1 DEF TypeInv, CallType, Calling
        <5>2. InOrder(call[g].c, call[g].name, call[g].p, Now(call[g].c))
          BY <4>1 DEF OrderInv
        <5> QED
          BY <4>1, <5>1, <5>2
      <4>2. ASSUME call'[g].c \in DOMAIN BDMonitor.EventList,
                   CallHandler(g, call'[g].c, call'[g].name, call'[g].p)
            PROVE  \E d, nm, q : /\ d \in Blocks /\ d = call'[g].c /\ nm = call'[g].name /\ q = call'[g].p
                                            /\ InOrder(d, nm, q, Now(d))
        <5>1. PICK d, nm, q : d = call'[g].c /\ nm = call'[g].name /\ q = call'[g].p
          OBVIOUS
        <5>2. CallHandler(g, d, nm, q) /\ d \in DOMAIN BDMonitor.EventList
          BY <4>2, <5>1
        <5>3. d \in Blocks /\ MadeType
          BY <5>2, ListShape DEF TypeInv, CallType
        <5>4. Due(d, nm, q) /\ nm # "NewBlockEvent"
          BY <5>2 DEF CallHandler
        <5>5. <<nm, q>> \in CallsOf[d] /\ Ready(d, nm, q)
          BY <5>4 DEF Due
        <5>6. nm \in Names
          BY <5>3, <5>4, <5>5, CallsShape
        <5>7. InOrder(d, nm, q, Now(d))
          BY <5>3, <5>5, <5>6, ReadyInOrder
        <5> QED
          BY <5>1, <5>3, <5>7
      <4> QED
        BY <2>3, <4>1, <4>2, CallStep
    <3>2. PICK d, nm, q : /\ d \in Blocks /\ d = call'[g].c /\ nm = call'[g].name /\ q = call'[g].p
                                     /\ InOrder(d, nm, q, Now(d))
      BY <3>1
    <3>3. \E n \in Nat, m \in Nat : n = Now(d) /\ m = Now(d)' /\ n <= m
      <4>1. Now(d) \in Nat /\ Now(d)' \in Nat /\ Now(d) <= Now(d)'
        BY <1>2, <3>2, MadeGoesOn
      <4> QED
        BY <4>1
    <3>4. PICK n \in Nat, m \in Nat : n = Now(d) /\ m = Now(d)' /\ n <= m
      BY <3>3
    <3>5. InOrder(d, nm, q, m)'
      BY <2>1, <3>2, <3>4
    <3> QED
      BY <3>2, <3>4, <3>5
  <2> QED
    BY <2>2, <2>3 DEF OrderInv
<1> QED
  BY <1>1, <1>2
-----------------------------------------------------------------------------
(* A store of a block's only handler *)

LEMMA FirstIs ==
    ASSUME MadeType, NEW c \in Blocks, NEW name, NEW p
    PROVE  /\ First(c, name, p) \in Nat /\ First(c, name, p) < Now(c)
           /\ First(c, name, p) # 0 <=> <<name, p>> \in DOMAIN made[c]
<1>1. Now(c) \in Nat /\ Now(c) > 0
  BY MadeFinite DEF MadeType, MadeOK, Now
<1> QED
  BY <1>1, MadeTimes DEF First

LEMMA FirstRecorded ==
    ASSUME NEW c \in Blocks, NEW name, NEW p, Recorded(c, name, p),
           <<name, p>> \notin DOMAIN made[c]
    PROVE  /\ First(c, name, p) = 0
           /\ First(c, name, p)' = Now(c)
           /\ \A nm, q : nm # name \/ q # p => First(c, nm, q)' = First(c, nm, q)
<1>1. /\ DOMAIN made'[c] = DOMAIN made[c] \cup {<<name, p>>}
      /\ made'[c][<<name, p>>] = Now(c)
      /\ \A x \in DOMAIN made[c] : made'[c][x] = made[c][x]
  BY DEF Recorded
<1>2. ASSUME NEW nm, NEW q, nm # name \/ q # p PROVE First(c, nm, q)' = First(c, nm, q)
  <2>1. <<nm, q>> # <<name, p>>
    BY <1>2
  <2> QED
    BY <1>1, <2>1 DEF First
<1> QED
  BY <1>1, <1>2 DEF First

LEMMA ReceiversRecorded ==
    ASSUME NEW c \in Blocks, NEW name, NEW p, Recorded(c, name, p)
    PROVE  /\ name # "ReceiveBlock" => Receivers(c)' = Receivers(c)
           /\ name = "ReceiveBlock" /\ p \in Peers => Receivers(c)' = Receivers(c) \cup {p}
<1>1. DOMAIN made'[c] = DOMAIN made[c] \cup {<<name, p>>}
  BY DEF Recorded
<1>2. ASSUME NEW q
      PROVE  <<"ReceiveBlock", q>> \in DOMAIN made'[c] <=>
                 <<"ReceiveBlock", q>> \in DOMAIN made[c] \/ (name = "ReceiveBlock" /\ q = p)
  BY <1>1
<1> QED
  BY <1>2 DEF Receivers

\* e is in the list after name about p has stored what it made of be at t.
LeftBy(name, be, p, t, e) ==
    e \in Stores(name, be, p, t) \/ (Stores(name, be, p, t) = {} /\ e = be)

\* A handler that sets a time sets no other.
LEMMA TimeSet ==
    ASSUME NEW be, NEW p, NEW t, NEW e
    PROVE  /\ LeftBy("BlockServiceGet", be, p, t, e) => e = [be EXCEPT !.BlockServiceGet = t]
           /\ LeftBy("BitswapGet", be, p, t, e) => e = [be EXCEPT !.GetBlocksRequest = t]
           /\ LeftBy("BeginVisit", be, p, t, e) => e = [be EXCEPT !.BeginVisit = t]
           /\ LeftBy("FinishVisit", be, p, t, e) => e = [be EXCEPT !.FinishVisit = t]
           /\ be.FirstPutStore = 0 /\ LeftBy("PutStore", be, p, t, e) =>
                  e = [be EXCEPT !.FirstPutStore = t]
           /\ be.FirstFindProvider = 0 /\ LeftBy("FindProviders", be, p, t, e) =>
                  e = [be EXCEPT !.FirstFindProvider = t]
<1>1. /\ Stores("BlockServiceGet", be, p, t) = {[be EXCEPT !.BlockServiceGet = t]}
      /\ Stores("BitswapGet", be, p, t) = {[be EXCEPT !.GetBlocksRequest = t]}
      /\ Stores("BeginVisit", be, p, t) = {[be EXCEPT !.BeginVisit = t]}
      /\ Stores("FinishVisit", be, p, t) = {[be EXCEPT !.FinishVisit = t]}
  BY DEF Stores, BlockServiceGet, BitswapGet, BeginVisit, FinishVisit
<1>2. /\ be.FirstPutStore = 0 =>
             Stores("PutStore", be, p, t) = {[be EXCEPT !.FirstPutStore = t]}
      /\ be.FirstFindProvider = 0 =>
             Stores("FindProviders", be, p, t) = {[be EXCEPT !.FirstFindProvider = t]}
  BY DEF Stores, PutStore, FindProviders
<1> QED
  BY <1>1, <1>2 DEF LeftBy

LEMMA TimesStored ==
    ASSUME NEW c \in Blocks, NEW name \in BlockCalls \ {"NewBlockEvent"},
           Recorded(c, name, NoPeer), <<name, NoPeer>> \notin DOMAIN made[c],
           NEW be \in Events, TimesExact(be, c), NEW e, LeftBy(name, be, NoPeer, Now(c), e)
    PROVE  TimesExact(e, c)' /\ SameCounts(e, be) /\ SamePeers(e, be)
<1>1. /\ First(c, name, NoPeer) = 0 /\ First(c, name, NoPeer)' = Now(c)
      /\ \A nm : nm # name => First(c, nm, NoPeer)' = First(c, nm, NoPeer)
  BY FirstRecorded
<1> DEFINE t == Now(c)
<1>2. LeftBy(name, be, NoPeer, t, e)
  OBVIOUS
<1> HIDE DEF t
<1>3. CASE name = "BlockServiceGet"
  <2>1. e = [be EXCEPT !.BlockServiceGet = t]
    BY <1>2, <1>3, TimeSet
  <2>2. e.BlockServiceGet = t /\ SameCounts(e, be) /\ SamePeers(e, be)
    BY <2>1 DEF Events, SameCounts, SamePeers
  <2>3. /\ e.GetBlocksRequest = be.GetBlocksRequest /\ e.FirstFindProvider = be.FirstFindProvider
        /\ e.FirstPutStore = be.FirstPutStore
        /\ e.BeginVisit = be.BeginVisit /\ e.FinishVisit = be.FinishVisit
    BY <2>1 DEF Events
  <2> QED
    BY <1>1, <1>3, <2>2, <2>3 DEF TimesExact, t
<1>4. CASE name = "BitswapGet"
  <2>1. e = [be EXCEPT !.GetBlocksRequest = t]
    BY <1>2, <1>4, TimeSet
  <2>2. e.GetBlocksRequest = t /\ SameCounts(e, be) /\ SamePeers(e, be)
    BY <2>1 DEF Events, SameCounts, SamePeers
  <2>3. /\ e.BlockServiceGet = be.BlockServiceGet /\ e.FirstFindProvider = be.FirstFindProvider
        /\ e.FirstPutStore = be.FirstPutStore
        /\ e.BeginVisit = be.BeginVisit /\ e.FinishVisit = be.FinishVisit
    BY <2>1 DEF Events
  <2> QED
    BY <1>1, <1>4, <2>2, <2>3 DEF TimesExact, t
<1>5. CASE name = "BeginVisit"
  <2>1. e = [be EXCEPT !.BeginVisit = t]
    BY <1>2, <1>5, TimeSet
  <2>2. e.BeginVisit = t /\ SameCounts(e, be) /\ SamePeers(e, be)
    BY <2>1 DEF Events, SameCounts, SamePeers
  <2>3. /\ e.BlockServiceGet = be.BlockServiceGet /\ e.FirstFindProvider = be.FirstFindProvider
        /\ e.FirstPutStore = be.FirstPutStore
        /\ e.GetBlocksRequest = be.GetBlocksRequest /\ e.FinishVisit = be.FinishVisit
    BY <2>1 DEF Events
  <2> QED
    BY <1>1, <1>5, <2>2, <2>3 DEF TimesExact, t
<1>6. CASE name = "FinishVisit"
  <2>1. e = [be EXCEPT !.FinishVisit = t]
    BY <1>2, <1>6, TimeSet
  <2>2. e.FinishVisit = t /\ SameCounts(e, be) /\ SamePeers(e, be)
    BY <2>1 DEF Events, SameCounts, SamePeers
  <2>3. /\ e.BlockServiceGet = be.BlockServiceGet /\ e.FirstFindProvider = be.FirstFindProvider
        /\ e.FirstPutStore = be.FirstPutStore
        /\ e.GetBlocksRequest = be.GetBlocksRequest /\ e.BeginVisit = be.BeginVisit
    BY <2>1 DEF Events
  <2> QED
    BY <1>1, <1>6, <2>2, <2>3 DEF TimesExact, t
<1>7. CASE name = "PutStore"
  <2>1. be.FirstPutStore = 0
    BY <1>1, <1>7 DEF TimesExact
  <2>2. e = [be EXCEPT !.FirstPutStore = t]
    BY <1>2, <1>7, <2>1, TimeSet
  <2>3. e.FirstPutStore = t /\ SameCounts(e, be) /\ SamePeers(e, be)
    BY <2>2 DEF Events, SameCounts, SamePeers
  <2>4. /\ e.BlockServiceGet = be.BlockServiceGet /\ e.FirstFindProvider = be.FirstFindProvider
        /\ e.GetBlocksRequest = be.GetBlocksRequest
        /\ e.BeginVisit = be.BeginVisit /\ e.FinishVisit = be.FinishVisit
    BY <2>2 DEF Events
  <2> QED
    BY <1>1, <1>7, <2>3, <2>4 DEF TimesExact, t
<1>8. CASE name = "FindProviders"
  <2>1. be.FirstFindProvider = 0
    BY <1>1, <1>8 DEF TimesExact
  <2>2. e = [be EXCEPT !.FirstFindProvider = t]
    BY <1>2, <1>8, <2>1, TimeSet
  <2>3. e.FirstFindProvider = t /\ SameCounts(e, be) /\ SamePeers(e, be)
    BY <2>2 DEF Events, SameCounts, SamePeers
  <2>4. /\ e.BlockServiceGet = be.BlockServiceGet /\ e.FirstPutStore = be.FirstPutStore
        /\ e.GetBlocksRequest = be.GetBlocksRequest
        /\ e.BeginVisit = be.BeginVisit /\ e.FinishVisit = be.FinishVisit
    BY <2>2 DEF Events
  <2> QED
    BY <1>1, <1>8, <2>3, <2>4 DEF TimesExact, t
<1> QED
  BY <1>3, <1>4, <1>5, <1>6, <1>7, <1>8 DEF BlockCalls

\* What a handler does not record stays exact.
LEMMA TimesKept ==
    ASSUME NEW c \in Blocks, NEW name \in PeerCalls, NEW p, Recorded(c, name, p),
           <<name, p>> \notin DOMAIN made[c],
           NEW be, TimesExact(be, c), NEW e, SameTimes(e, be)
    PROVE  TimesExact(e, c)'
<1>1. \A nm \in BlockCalls : First(c, nm, NoPeer)' = First(c, nm, NoPeer)
  <2>1. BlockCalls \cap PeerCalls = {}
    BY DEF BlockCalls, PeerCalls
  <2> QED
    BY <2>1, FirstRecorded
<1> QED
  BY <1>1 DEF TimesExact, SameTimes, BlockCalls

LEMMA PeersKept ==
    ASSUME NEW c \in Blocks, NEW name, NEW p, Recorded(c, name, p),
           <<name, p>> \notin DOMAIN made[c], name \notin {"SendWant", "FoundProvide"},
           NEW be, PeersExact(be, c), NEW e, SamePeers(e, be)
    PROVE  PeersExact(e, c)'
<1>1. \A q : /\ First(c, "SendWant", q)' = First(c, "SendWant", q)
             /\ First(c, "FoundProvide", q)' = First(c, "FoundProvide", q)
  BY FirstRecorded
<1> QED
  BY <1>1 DEF PeersExact, SamePeers

LEMMA ReceivesKept ==
    ASSUME NEW c \in Blocks, NEW name, NEW p, Recorded(c, name, p),
           <<name, p>> \notin DOMAIN made[c], name # "ReceiveBlock", received'[c] = received[c],
           NEW be, ReceivesExact(be, c), NEW e,
           e.FirstReceive = be.FirstReceive, e.ReceiveFrom = be.ReceiveFrom,
           e.NumOfRedundantBlks = be.NumOfRedundantBlks
    PROVE  ReceivesExact(e, c)'
<1>1. \A q : First(c, "ReceiveBlock", q)' = First(c, "ReceiveBlock", q)
  BY FirstRecorded
<1>2. Receivers(c)' = Receivers(c)
  BY ReceiversRecorded
<1>3. First(c, "ReceiveBlock", e.ReceiveFrom)' = First(c, "ReceiveBlock", be.ReceiveFrom)
  BY <1>1
<1> QED
  BY <1>1, <1>2, <1>3 DEF ReceivesExact

LEMMA FoundStored ==
    ASSUME NEW c \in Blocks, NEW p \in Peers,
           Recorded(c, "FoundProvide", p), <<"FoundProvide", p>> \notin DOMAIN made[c],
           NEW be \in Events, PeersExact(be, c), NEW e, LeftBy("FoundProvide", be, p, Now(c), e)
    PROVE  PeersExact(e, c)' /\ SameTimes(e, be) /\ SameCounts(e, be)
<1>1. /\ First(c, "FoundProvide", p) = 0 /\ First(c, "FoundProvide", p)' = Now(c)
      /\ \A q : q # p => First(c, "FoundProvide", q)' = First(c, "FoundProvide", q)
      /\ \A q : First(c, "SendWant", q)' = First(c, "SendWant", q)
  BY FirstRecorded
<1>2. be.FirstGotProvider[p] = 0
  BY <1>1 DEF PeersExact
<1>3. e \in FoundProvide(be, p, Now(c))
  <2>1. Stores("FoundProvide", be, p, Now(c)) = FoundProvide(be, p, Now(c))
    BY StoresIs
  <2>2. FoundProvide(be, p, Now(c)) # {}
    BY <1>2 DEF FoundProvide
  <2> QED
    BY <2>1, <2>2 DEF LeftBy
<1>4. /\ SameCounts(e, be) /\ SameTimes(e, be) /\ e.FirstWantTo = be.FirstWantTo
      /\ e.FirstGotProvider = [be.FirstGotProvider EXCEPT ![p] = Now(c)]
  BY <1>3, FoundEffect
<1>5. be.FirstGotProvider \in [Peers -> Nat]
  BY EventFields
<1>6. e.FirstGotProvider[p] = Now(c) /\ \A q \in Peers : q # p => e.FirstGotProvider[q] = be.FirstGotProvider[q]
  BY <1>4, <1>5
<1> QED
  BY <1>1, <1>4, <1>6 DEF PeersExact

LEMMA ReceivedOnce ==
    ASSUME MadeType, NEW c \in Blocks, NEW be \in Events, ReceivesExact(be, c), received[c] \in Nat
    PROVE  /\ be.FirstReceive = 0 <=> Receivers(c) = {}
           /\ be.FirstReceive = 0 <=> received[c] = 0
<1>1. CASE Receivers(c) = {}
  BY <1>1 DEF ReceivesExact
<1>2. CASE Receivers(c) # {}
  <2>1. /\ be.FirstReceive = First(c, "ReceiveBlock", be.ReceiveFrom)
        /\ be.ReceiveFrom \in Receivers(c) /\ be.NumOfRedundantBlks = received[c] - 1
    BY <1>2 DEF ReceivesExact
  <2>2. be.FirstReceive # 0
    BY <2>1, FirstIs DEF Receivers
  <2>3. be.NumOfRedundantBlks \in Nat
    BY EventFields
  <2> QED
    BY <1>2, <2>1, <2>2, <2>3
<1> QED
  BY <1>1, <1>2

LEMMA WantStored ==
    ASSUME MadeType, NEW c \in Blocks, NEW p \in Peers,
           Recorded(c, "SendWant", p), <<"SendWant", p>> \notin DOMAIN made[c],
           received[c] \in Nat, lateWants[c] \in Nat,
           lateWants'[c] = lateWants[c] + (IF received[c] > 0 THEN 1 ELSE 0),
           NEW be \in Events, PeersExact(be, c), ReceivesExact(be, c),
           be.NumOfRedundantReqs = lateWants[c], NEW e, LeftBy("SendWant", be, p, Now(c), e)
    PROVE  /\ PeersExact(e, c)' /\ SameTimes(e, be) /\ e.NumOfRedundantReqs = lateWants'[c]
           /\ e.FirstReceive = be.FirstReceive /\ e.ReceiveFrom = be.ReceiveFrom
           /\ e.NumOfRedundantBlks = be.NumOfRedundantBlks
<1>1. /\ First(c, "SendWant", p) = 0 /\ First(c, "SendWant", p)' = Now(c)
      /\ \A q : q # p => First(c, "SendWant", q)' = First(c, "SendWant", q)
      /\ \A q : First(c, "FoundProvide", q)' = First(c, "FoundProvide", q)
  BY FirstRecorded
<1>2. e \in SendWant(be, p, Now(c))
  <2>1. Stores("SendWant", be, p, Now(c)) = SendWant(be, p, Now(c))
    BY StoresIs
  <2>2. SendWant(be, p, Now(c)) # {}
    BY DEF SendWant
  <2> QED
    BY <2>1, <2>2 DEF LeftBy
<1>3. be.FirstWantTo[p] = 0
  BY <1>1 DEF PeersExact
<1>4. /\ SameTimes(e, be) /\ e.FirstGotProvider = be.FirstGotProvider
      /\ \A q \in Peers : e.FirstWantTo[q] = IF q = p /\ be.FirstWantTo[p] = 0
                                             THEN Now(c) ELSE be.FirstWantTo[q]
      /\ e.FirstReceive = be.FirstReceive /\ e.ReceiveFrom = be.ReceiveFrom
      /\ e.NumOfRedundantBlks = be.NumOfRedundantBlks
      /\ be.FirstReceive = 0 => e.NumOfRedundantReqs = be.NumOfRedundantReqs
      /\ be.FirstReceive # 0 => e.NumOfRedundantReqs = be.NumOfRedundantReqs + 1
  BY <1>2, WantEffect
<1>5. e.FirstWantTo[p] = Now(c) /\ \A q \in Peers : q # p => e.FirstWantTo[q] = be.FirstWantTo[q]
  BY <1>3, <1>4
<1>6. PeersExact(e, c)'
  BY <1>1, <1>4, <1>5 DEF PeersExact
<1>7. be.FirstReceive = 0 <=> received[c] = 0
  BY ReceivedOnce
<1>8. e.NumOfRedundantReqs = lateWants'[c]
  BY <1>4, <1>7
<1> QED
  BY <1>4, <1>6, <1>8

LEMMA ReceiveStored ==
    ASSUME MadeType, NEW c \in Blocks, NEW p \in Peers,
           Recorded(c, "ReceiveBlock", p), <<"ReceiveBlock", p>> \notin DOMAIN made[c],
           received[c] \in Nat, received'[c] = received[c] + 1,
           NEW be \in Events, ReceivesExact(be, c), NEW e, LeftBy("ReceiveBlock", be, p, Now(c), e)
    PROVE  /\ ReceivesExact(e, c)' /\ SameTimes(e, be) /\ SamePeers(e, be)
           /\ e.NumOfRedundantReqs = be.NumOfRedundantReqs
<1>1. /\ First(c, "ReceiveBlock", p)' = Now(c)
      /\ \A q : q # p => First(c, "ReceiveBlock", q)' = First(c, "ReceiveBlock", q)
      /\ Receivers(c)' = Receivers(c) \cup {p} /\ p \notin Receivers(c)
  BY FirstRecorded, ReceiversRecorded DEF Receivers
<1>2. e \in ReceiveBlock(be, p, Now(c))
  <2>1. Stores("ReceiveBlock", be, p, Now(c)) = ReceiveBlock(be, p, Now(c))
    BY StoresIs
  <2>2. ReceiveBlock(be, p, Now(c)) # {}
    BY DEF ReceiveBlock
  <2> QED
    BY <2>1, <2>2 DEF LeftBy
<1>3. /\ SameTimes(e, be) /\ SamePeers(e, be)
      /\ e.NumOfRedundantReqs = be.NumOfRedundantReqs
      /\ be.FirstReceive = 0 =>
            /\ e.FirstReceive = Now(c) /\ e.ReceiveFrom = p
            /\ e.NumOfRedundantBlks = be.NumOfRedundantBlks
      /\ be.FirstReceive # 0 =>
            /\ e.FirstReceive = be.FirstReceive /\ e.ReceiveFrom = be.ReceiveFrom
            /\ e.NumOfRedundantBlks = be.NumOfRedundantBlks + 1
  BY <1>2, ReceiveEffect
<1>4. be.NumOfRedundantBlks \in Nat /\ Now(c) \in Nat
  BY EventFields, MadeTimes
<1>5. CASE be.FirstReceive = 0
  <2>1. Receivers(c) = {} /\ received[c] = 0
    BY <1>5, ReceivedOnce
  <2>2. be.NumOfRedundantBlks = 0
    BY <2>1 DEF ReceivesExact
  <2>3. Receivers(c)' = {p}
    BY <1>1, <2>1
  <2>4. First(c, "ReceiveBlock", e.ReceiveFrom)' = Now(c)
    BY <1>1, <1>3, <1>5
  <2>5. /\ e.FirstReceive = Now(c) /\ e.ReceiveFrom = p
        /\ e.NumOfRedundantBlks = received'[c] - 1
    BY <1>3, <1>5, <2>1, <2>2
  <2>6. \A q \in Receivers(c)' : e.FirstReceive <= First(c, "ReceiveBlock", q)'
    <3>1. e.FirstReceive <= First(c, "ReceiveBlock", p)'
      BY <1>1, <1>4, <2>5
    <3> QED
      BY <2>3, <3>1
  <2>7. e.ReceiveFrom \in Receivers(c)' /\ Receivers(c)' # {}
    BY <2>3, <2>5
  <2>8. ReceivesExact(e, c)'
    BY <2>4, <2>5, <2>6, <2>7 DEF ReceivesExact
  <2> QED
    BY <1>3, <2>8
<1>6. CASE be.FirstReceive # 0
  <2>1. Receivers(c) # {}
    BY <1>6, ReceivedOnce
  <2>2. /\ be.FirstReceive = First(c, "ReceiveBlock", be.ReceiveFrom)
        /\ be.ReceiveFrom \in Receivers(c)
        /\ \A q \in Receivers(c) : be.FirstReceive <= First(c, "ReceiveBlock", q)
        /\ be.NumOfRedundantBlks = received[c] - 1
    BY <2>1 DEF ReceivesExact
  <2>3. e.FirstReceive = be.FirstReceive /\ e.ReceiveFrom = be.ReceiveFrom
    BY <1>3, <1>6
  <2>4. First(c, "ReceiveBlock", e.ReceiveFrom)' = First(c, "ReceiveBlock", be.ReceiveFrom)
    BY <1>1, <2>2, <2>3
  <2>5. be.FirstReceive \in Nat /\ be.FirstReceive <= Now(c)
    <3>1. /\ First(c, "ReceiveBlock", be.ReceiveFrom) \in Nat
          /\ First(c, "ReceiveBlock", be.ReceiveFrom) < Now(c)
      BY FirstIs
    <3> QED
      BY <1>4, <2>2, <3>1
  <2>6. \A q \in Receivers(c)' : be.FirstReceive <= First(c, "ReceiveBlock", q)'
    BY <1>1, <2>2, <2>5
  <2>7. e.NumOfRedundantBlks = received'[c] - 1
    BY <1>3, <1>6, <2>2
  <2>8. Receivers(c)' # {} /\ e.ReceiveFrom \in Receivers(c)'
    BY <1>1, <2>2, <2>3
  <2>9. ReceivesExact(e, c)'
    BY <2>2, <2>3, <2>4, <2>6, <2>7, <2>8 DEF ReceivesExact
  <2> QED
    BY <1>3, <2>9
<1> QED
  BY <1>5, <1>6

\* A handler that worked on an exact event leaves an exact event.
LEMMA EventStored ==
    ASSUME MadeType, NEW c \in Blocks, NEW name \in Names, NEW p,
           <<name, p>> \in CallsOf[c] \ DOMAIN made[c], Recorded(c, name, p),
           received[c] \in Nat, lateWants[c] \in Nat,
           received'[c] = received[c] + (IF name = "ReceiveBlock" THEN 1 ELSE 0),
           lateWants'[c] = lateWants[c] + (IF name = "SendWant" /\ received[c] > 0 THEN 1 ELSE 0),
           NEW be \in Events, EventExact(be, c), NEW e, LeftBy(name, be, p, Now(c), e)
    PROVE  EventExact(e, c)'
<1>0. /\ TimesExact(be, c) /\ PeersExact(be, c) /\ ReceivesExact(be, c)
      /\ be.NumOfRedundantReqs = lateWants[c]
  BY DEF EventExact
<1>1. CASE name \in BlockCalls
  <2>1. p = NoPeer /\ name \notin {"SendWant", "FoundProvide", "ReceiveBlock", "NewBlockEvent"}
    BY <1>1, CallsShape DEF BlockCalls, PeerCalls, Names
  <2>2. received'[c] = received[c] /\ lateWants'[c] = lateWants[c]
    BY <2>1
  <2>3. TimesExact(e, c)' /\ SameCounts(e, be) /\ SamePeers(e, be)
    BY <1>0, <1>1, <2>1, TimesStored
  <2>4. PeersExact(e, c)'
    BY <1>0, <2>1, <2>3, PeersKept
  <2>5. ReceivesExact(e, c)'
    BY <1>0, <2>1, <2>2, <2>3, ReceivesKept DEF SameCounts
  <2> QED
    BY <1>0, <2>2, <2>3, <2>4, <2>5 DEF EventExact, SameCounts
<1>2. CASE name = "FoundProvide" /\ p \in Peers
  <2>1. received'[c] = received[c] /\ lateWants'[c] = lateWants[c] /\ name \in PeerCalls
    BY <1>2 DEF PeerCalls
  <2>2. PeersExact(e, c)' /\ SameTimes(e, be) /\ SameCounts(e, be)
    BY <1>0, <1>2, FoundStored
  <2>3. TimesExact(e, c)'
    BY <1>0, <2>1, <2>2, TimesKept
  <2>4. ReceivesExact(e, c)'
    BY <1>0, <1>2, <2>1, <2>2, ReceivesKept DEF SameCounts
  <2> QED
    BY <1>0, <2>1, <2>2, <2>3, <2>4 DEF EventExact, SameCounts
<1>3. CASE name = "SendWant" /\ p \in Peers
  <2>1. /\ received'[c] = received[c] /\ name \in PeerCalls
        /\ lateWants'[c] = lateWants[c] + (IF received[c] > 0 THEN 1 ELSE 0)
    BY <1>3 DEF PeerCalls
  <2>2. /\ PeersExact(e, c)' /\ SameTimes(e, be) /\ e.NumOfRedundantReqs = lateWants'[c]
        /\ e.FirstReceive = be.FirstReceive /\ e.ReceiveFrom = be.ReceiveFrom
        /\ e.NumOfRedundantBlks = be.NumOfRedundantBlks
    BY <1>0, <1>3, <2>1, WantStored
  <2>3. TimesExact(e, c)'
    BY <1>0, <2>1, <2>2, TimesKept
  <2>4. ReceivesExact(e, c)'
    BY <1>0, <1>3, <2>1, <2>2, ReceivesKept
  <2> QED
    BY <2>2, <2>3, <2>4 DEF EventExact
<1>4. CASE name = "ReceiveBlock" /\ p \in Peers
  <2>1. /\ received'[c] = received[c] + 1 /\ lateWants'[c] = lateWants[c] /\ name \in PeerCalls
    BY <1>4 DEF PeerCalls
  <2>2. /\ ReceivesExact(e, c)' /\ SameTimes(e, be) /\ SamePeers(e, be)
        /\ e.NumOfRedundantReqs = be.NumOfRedundantReqs
    BY <1>0, <1>4, <2>1, ReceiveStored
  <2>3. TimesExact(e, c)'
    BY <1>0, <2>1, <2>2, TimesKept
  <2>4. PeersExact(e, c)'
    BY <1>0, <1>4, <2>2, PeersKept
  <2> QED
    BY <1>0, <2>1, <2>2, <2>3, <2>4 DEF EventExact
<1> QED
  BY <1>1, <1>2, <1>3, <1>4, CallsShape DEF PeerCalls
-----------------------------------------------------------------------------
(* A block whose handlers never met *)

\* The blocks a step is not about keep what is known of them.
LEMMA BlockSteps ==
    ASSUME TypeInv, [Next]_vars, NEW c \in Blocks
    PROVE  \/ NewBlockEvent(c)
           \/ \E g \in Goroutines : StoreEvent(g) /\ call[g].c = c
           \/ \E t \in Threads : ReplaceMonitor(t)
           \/ made'[c] = made[c] /\ received'[c] = received[c] /\ lateWants'[c] = lateWants[c]
<1>0. received \in [Blocks -> Nat] /\ lateWants \in [Blocks -> Nat]
  BY DEF TypeInv, CallType
<1>1. ASSUME NEW d \in Blocks, NewBlockEvent(d), d # c
      PROVE  made'[c] = made[c] /\ received'[c] = received[c] /\ lateWants'[c] = lateWants[c]
  <2>1. Recorded(d, "NewBlockEvent", NoPeer) /\ UNCHANGED <<received, lateWants>>
    BY <1>1, NewBlockEffect
  <2> QED
    BY <1>1, <2>1 DEF Recorded
<1>2. ASSUME NEW g \in Goroutines, StoreEvent(g), call[g].c # c
      PROVE  made'[c] = made[c] /\ received'[c] = received[c] /\ lateWants'[c] = lateWants[c]
  <2>1. PICK h : h = call[g]
    OBVIOUS
  <2>2. Recorded(h.c, h.name, h.p) /\ Made(h.c, h.name, h.p) /\ h \in Calling
    BY <1>2, <2>1, StoreEffect
  <2>3. h.c \in Blocks /\ h.c # c
    BY <1>2, <2>1, <2>2 DEF Calling
  <2>4. received'[c] = received[c] /\ lateWants'[c] = lateWants[c]
    BY <1>0, <2>2, <2>3, MadeCounts
  <2> QED
    BY <2>2, <2>3, <2>4 DEF Recorded
<1>3. \/ \E d \in Blocks : NewBlockEvent(d)
      \/ \E g \in Goroutines : StoreEvent(g)
      \/ \E t \in Threads : ReplaceMonitor(t)
      \/ UNCHANGED <<made, received, lateWants>>
  BY DEF Next, BitswapNext, ThreadNext, CallHandler, Begin, Finish, GetReturns, FileFails,
     WriteReturns, CollectBreakdown, CollectTotals, Provide, ProvideFails, Wait, vars, callVars
<1> QED
  BY <1>1, <1>2, <1>3

\* What overlapped has overlapped.
LEMMA OverlapStays ==
    ASSUME [Next]_vars
    PROVE  overlapped \subseteq overlapped'
<1>1. ASSUME NEW g \in Goroutines, NEW c \in Blocks, NEW x \in CallsOf[c],
             CallHandler(g, c, x[1], x[2])
      PROVE  overlapped \subseteq overlapped'
  BY <1>1 DEF CallHandler
<1>2. \/ UNCHANGED overlapped
      \/ \E g \in Goroutines, c \in Blocks : \E x \in CallsOf[c] : CallHandler(g, c, x[1], x[2])
  BY DEF Next, BitswapNext, ThreadNext, NewBlockEvent, StoreEvent, Begin, Finish, GetReturns, FileFails,
     WriteReturns, CollectBreakdown, CollectTotals, ReplaceMonitor, Provide, ProvideFails, Wait,
     vars, callVars
<1> QED
  BY <1>1, <1>2

\* Both ways to share its maps, a current copy is the event of the list.
LEMMA CurrentCopy ==
    ASSUME NEW h \in Calling, NEW be, Loaded(h, be), h.be = BDMonitor.EventList[h.c]
    PROVE  be = h.be
<1>1. h.be \in Events
  BY DEF Calling
<1> QED
  BY <1>1 DEF Loaded, Events

LEMMA ListExact ==
    ASSUME TypeInv, ExactInv, [Next]_vars,
           NEW c \in DOMAIN BDMonitor'.EventList, c \notin overlapped'
    PROVE  EventExact(BDMonitor.EventList[c], c)'
<1>0. /\ MadeType /\ BDMonitor \in Monitors /\ c \notin overlapped
      /\ received \in [Blocks -> Nat] /\ lateWants \in [Blocks -> Nat]
  BY OverlapStays DEF TypeInv, CallType
<1>1. ASSUME c \in Blocks, NewBlockEvent(c)
      PROVE  EventExact(BDMonitor.EventList[c], c)'
  <2>1. /\ New \in CallsOf[c] \ DOMAIN made[c] /\ UNCHANGED <<received, lateWants>>
        /\ Recorded(c, "NewBlockEvent", NoPeer) /\ BDMonitor'.EventList[c] = NewEvent
    BY <1>1, NewBlockEffect
  <2>2. DOMAIN made[c] = {} /\ received[c] = 0 /\ lateWants[c] = 0
    BY <1>1, <2>1 DEF TypeInv, BlockOK
  <2>3. DOMAIN made'[c] = {New}
    BY <2>1, <2>2 DEF Recorded, New
  <2>4. \A nm, q : nm # "NewBlockEvent" => First(c, nm, q)' = 0
    BY <2>3 DEF First, New
  <2>5. Receivers(c)' = {}
    BY <2>3 DEF Receivers, New
  <2>6. EventExact(NewEvent, c)'
    BY <2>1, <2>2, <2>4, <2>5
       DEF EventExact, TimesExact, PeersExact, ReceivesExact, NewEvent, NoTimes
  <2> QED
    BY <2>1, <2>6
<1>2. ASSUME NEW g \in Goroutines, StoreEvent(g), call[g].c = c
      PROVE  EventExact(BDMonitor.EventList[c], c)'
  <2>1. PICK h : h = call[g]
    OBVIOUS
  <2>2. /\ h \in Calling /\ h # NoCall /\ h.c = c /\ c \in DOMAIN BDMonitor.EventList
        /\ <<h.name, h.p>> \in CallsOf[c] \ DOMAIN made[c]
        /\ Recorded(c, h.name, h.p) /\ Made(c, h.name, h.p)
        /\ \E be \in Events : Loaded(h, be) /\ \E e \in Events : Stored(h, be, e)
    BY <1>2, <2>1, StoreEffect
  <2>3. h.be = BDMonitor.EventList[c] /\ h.be \in Events /\ h.name \in Names /\ c \in Blocks
    BY <1>0, <2>1, <2>2 DEF ExactInv, Calling
  <2>4. PICK e : Stored(h, h.be, e)
    BY <2>2, <2>3, CurrentCopy
  <2>5. LeftBy(h.name, h.be, h.p, Now(c), e) /\ BDMonitor'.EventList[c] = e
    BY <2>2, <2>3, <2>4 DEF Stored, LeftBy
  <2>6. EventExact(h.be, c)
    BY <1>0, <2>2, <2>3 DEF ExactInv
  <2>7. received[c] \in Nat /\ lateWants[c] \in Nat
    BY <1>0, <2>3
  <2>8. /\ received'[c] = received[c] + (IF h.name = "ReceiveBlock" THEN 1 ELSE 0)
        /\ lateWants'[c] = lateWants[c] + (IF h.name = "SendWant" /\ received[c] > 0 THEN 1 ELSE 0)
    BY <1>0, <2>2, <2>3, MadeCounts
  <2>9. EventExact(e, c)'
    BY <1>0, <2>2, <2>3, <2>5, <2>6, <2>7, <2>8, EventStored
  <2> QED
    BY <2>5, <2>9
<1>3. ASSUME c \in DOMAIN BDMonitor.EventList, BDMonitor'.EventList[c] = BDMonitor.EventList[c],
             made'[c] = made[c], received'[c] = received[c], lateWants'[c] = lateWants[c]
      PROVE  EventExact(BDMonitor.EventList[c], c)'
  <2>1. PICK e : e = BDMonitor.EventList[c] /\ e = BDMonitor'.EventList[c]
    BY <1>3
  <2>2. EventExact(e, c)
    BY <1>0, <1>3, <2>1 DEF ExactInv
  <2>3. /\ \A nm, q : First(c, nm, q)' = First(c, nm, q)
        /\ Receivers(c)' = Receivers(c)
    BY <1>3 DEF First, Receivers
  <2>4. TimesExact(e, c)' /\ PeersExact(e, c)'
    BY <2>2, <2>3 DEF EventExact, TimesExact, PeersExact
  <2>5. ReceivesExact(e, c)'
    <3>1. First(c, "ReceiveBlock", e.ReceiveFrom)' = First(c, "ReceiveBlock", e.ReceiveFrom)
      BY <2>3
    <3>2. ReceivesExact(e, c) /\ received'[c] = received[c] /\ Receivers(c)' = Receivers(c)
      BY <1>3, <2>2, <2>3 DEF EventExact
    <3>3. CASE Receivers(c) = {}
      BY <3>2, <3>3 DEF ReceivesExact
    <3>4. CASE Receivers(c) # {}
      BY <2>3, <3>1, <3>2, <3>4 DEF ReceivesExact
    <3> QED
      BY <3>3, <3>4
  <2>6. EventExact(e, c)'
    BY <1>3, <2>2, <2>4, <2>5 DEF EventExact
  <2> QED
    BY <2>1, <2>6
<1>4. ASSUME NEW t \in Threads, ReplaceMonitor(t) PROVE FALSE
  BY <1>4, NewIsMonitor DEF ReplaceMonitor
<1>5. c \in Blocks
  <2>1. BDMonitor' \in Monitors
    BY TypeStep DEF TypeInv, CallType
  <2> QED
    BY <2>1, ListShape
<1> QED
  BY <1>1, <1>2, <1>3, <1>4, <1>5, BlockSteps, ListStep

LEMMA CopyExact ==
    ASSUME TypeInv, ExactInv, [Next]_vars, NEW g \in Goroutines, call'[g] # NoCall,
           call'[g].c \notin overlapped'
    PROVE  /\ call'[g].be = BDMonitor'.EventList[call'[g].c]
           /\ \A o \in Goroutines \ {g} : call'[o] # NoCall => call'[o].c # call'[g].c
<1>0. PICK c : c = call'[g].c
  OBVIOUS
<1>1. c \notin overlapped
  BY <1>0, OverlapStays
<1>2. ASSUME NEW o \in Goroutines, NEW name, NEW p, CallHandler(o, c, name, p),
             c \in DOMAIN BDMonitor.EventList
      PROVE  /\ \A u \in Goroutines : call[u] # NoCall => call[u].c # c
             /\ \A u \in Goroutines \ {o} : call'[u] = call[u]
             /\ UNCHANGED BDMonitor
  <2>1. overlapped' = IF \E u \in Goroutines : call[u] # NoCall /\ call[u].c = c
                      THEN overlapped \cup {c} ELSE overlapped
    BY <1>2 DEF CallHandler
  <2>2. \A u \in Goroutines : call[u] # NoCall => call[u].c # c
    BY <1>0, <2>1
  <2> QED
    BY <1>2, <2>2 DEF CallHandler, TypeInv, CallType
<1>3. CASE call[g] # NoCall /\ call'[g] = call[g]
  <2>1. /\ call[g].c = c /\ call[g].be = BDMonitor.EventList[c]
        /\ \A o \in Goroutines \ {g} : call[o] # NoCall => call[o].c # c
    BY <1>0, <1>1, <1>3 DEF ExactInv
  <2>2. c \in DOMAIN BDMonitor.EventList /\ c \in Blocks /\ New \in DOMAIN made[c]
    <3>1. c \in DOMAIN BDMonitor.EventList
      BY <1>3, <2>1 DEF TypeInv, CallOK
    <3>2. c \in Blocks
      BY <3>1, ListShape DEF TypeInv, CallType
    <3> QED
      BY <3>1, <3>2 DEF TypeInv, BlockOK
  <2>3. ~NewBlockEvent(c)
    BY <2>2, NewBlockEffect
  <2>4. ASSUME NEW o \in Goroutines, StoreEvent(o) PROVE call[o].c # c
    <3>1. call[o] # NoCall /\ call'[o] = NoCall
      BY <2>4 DEF StoreEvent, TypeInv, CallType
    <3> QED
      BY <2>1, <3>1
  <2>5. c \in DOMAIN BDMonitor'.EventList
    <3>1. ASSUME NEW t \in Threads, ReplaceMonitor(t) PROVE FALSE
      BY <3>1 DEF ReplaceMonitor
    <3>2. ASSUME NEW d \in Blocks, NewBlockEvent(d) PROVE c \in DOMAIN BDMonitor'.EventList
      BY <2>2, <3>2, NewBlockEffect
    <3>3. ASSUME NEW o \in Goroutines, StoreEvent(o) PROVE c \in DOMAIN BDMonitor'.EventList
      <4>1. ListKept(call[o].c)
        BY <3>3, StoreEffect
      <4> QED
        BY <2>2, <4>1 DEF ListKept
    <3>4. ASSUME NEW t \in Threads, Quiet(t) \/ Wait PROVE c \in DOMAIN BDMonitor'.EventList
      BY <2>2, <3>4, QuietSame DEF BlocksSame
    <3>5. \/ UNCHANGED BDMonitor
          \/ \E d \in Blocks : NewBlockEvent(d)
          \/ \E o \in Goroutines : StoreEvent(o)
          \/ \E t \in Threads : Quiet(t) \/ ReplaceMonitor(t)
          \/ Wait
      BY DEF Next, BitswapNext, ThreadNext, Quiet, CallHandler, vars
    <3> QED
      BY <2>2, <3>1, <3>2, <3>3, <3>4, <3>5, ThreadsNat
  <2>6. BDMonitor'.EventList[c] = BDMonitor.EventList[c]
    BY <2>3, <2>4, <2>5, ListStep
  <2>7. ASSUME NEW o \in Goroutines \ {g}, call'[o] # NoCall PROVE call'[o].c # c
    <3>1. CASE call[o] # NoCall /\ call'[o] = call[o]
      BY <2>1, <3>1
    <3>2. ASSUME call'[o].c = c, CallHandler(o, call'[o].c, call'[o].name, call'[o].p)
          PROVE  FALSE
      BY <1>2, <1>3, <2>1, <2>2, <3>2
    <3> QED
      BY <2>7, <3>1, <3>2, CallStep
  <2> QED
    BY <1>0, <1>3, <2>1, <2>6, <2>7
<1>4. ASSUME call[g] = NoCall, c \in DOMAIN BDMonitor.EventList,
             call'[g].be = BDMonitor.EventList[c],
             CallHandler(g, c, call'[g].name, call'[g].p)
      PROVE  /\ call'[g].be = BDMonitor'.EventList[c]
             /\ \A o \in Goroutines \ {g} : call'[o] # NoCall => call'[o].c # c
  BY <1>2, <1>4
<1> QED
  BY <1>0, <1>3, <1>4, CallStep
-----------------------------------------------------------------------------
(* The durations of an exact event *)

\* What was called comes after what it waited for.
LEMMA FirstInOrder ==
    ASSUME MadeType, OrderInv, NEW c \in Blocks, NEW name, NEW p, First(c, name, p) # 0
    PROVE  /\ name = "BitswapGet" => First(c, "BlockServiceGet", NoPeer) <= First(c, name, p)
           /\ name \in {"FindProviders", "SendWant"} =>
                  First(c, "BitswapGet", NoPeer) <= First(c, name, p)
           /\ name = "FoundProvide" => First(c, "FindProviders", NoPeer) <= First(c, name, p)
           /\ name = "ReceiveBlock" => First(c, "SendWant", p) <= First(c, name, p)
           /\ name = "PutStore" =>
                  \E q \in Receivers(c) : First(c, "ReceiveBlock", q) <= First(c, name, p)
           /\ name = "FinishVisit" => First(c, "BeginVisit", NoPeer) <= First(c, name, p)
<1>1. <<name, p>> \in DOMAIN made[c]
  BY FirstIs
<1>2. PICK n \in Nat : n = made[c][<<name, p>>]
  BY <1>1, MadeTimes
<1>3. InOrder(c, name, p, n)
  <2>1. InOrder(c, <<name, p>>[1], <<name, p>>[2], made[c][<<name, p>>])
    BY <1>1 DEF OrderInv
  <2> QED
    BY <1>2, <2>1
<1>4. First(c, name, p) = n
  BY <1>1, <1>2 DEF First
<1>5. ASSUME NEW nm, NEW q, Had(c, nm, q, n) PROVE First(c, nm, q) <= n
  <2>1. made[c][<<nm, q>>] \in Nat /\ made[c][<<nm, q>>] < n /\ <<nm, q>> \in DOMAIN made[c]
    BY <1>5, MadeTimes DEF Had
  <2> QED
    BY <1>2, <2>1 DEF First
<1>6. ASSUME NEW nm, HadIfAny(c, nm, n) PROVE First(c, nm, NoPeer) <= n
  <2>1. CASE Had(c, nm, NoPeer, n)
    BY <1>5, <2>1
  <2>2. CASE <<nm, NoPeer>> \notin CallsOf[c]
    <3>1. <<nm, NoPeer>> \notin DOMAIN made[c]
      BY <2>2 DEF MadeType, MadeOK
    <3> QED
      BY <1>2, <3>1 DEF First
  <2> QED
    BY <1>6, <2>1, <2>2 DEF HadIfAny
<1>7. ASSUME name = "PutStore"
      PROVE  \E q \in Receivers(c) : First(c, "ReceiveBlock", q) <= n
  <2>1. PICK q \in Peers : Had(c, "ReceiveBlock", q, n)
    BY <1>3, <1>7 DEF InOrder
  <2>2. q \in Receivers(c)
    BY <2>1 DEF Receivers, Had
  <2> QED
    BY <1>5, <2>1, <2>2
<1> QED
  BY <1>3, <1>4, <1>5, <1>6, <1>7 DEF InOrder

\* The recorded times of an exact event, in the order of the calls.
LEMMA EventInOrder ==
    ASSUME MadeType, OrderInv, NEW c \in Blocks, NEW be \in Events, EventExact(be, c)
    PROVE  /\ be.GetBlocksRequest # 0 => be.BlockServiceGet <= be.GetBlocksRequest
           /\ be.FirstFindProvider # 0 => be.GetBlocksRequest <= be.FirstFindProvider
           /\ be.FinishVisit # 0 => be.BeginVisit <= be.FinishVisit
           /\ be.FirstPutStore # 0 => be.FirstReceive <= be.FirstPutStore
           /\ \A p \in Peers :
                 /\ be.FirstWantTo[p] # 0 => be.GetBlocksRequest <= be.FirstWantTo[p]
                 /\ be.FirstGotProvider[p] # 0 => be.FirstFindProvider <= be.FirstGotProvider[p]
           /\ be.ReceiveFrom \in Peers /\ be.FirstReceive # 0 =>
                 be.FirstWantTo[be.ReceiveFrom] <= be.FirstReceive
<1>0. TimesExact(be, c) /\ PeersExact(be, c) /\ ReceivesExact(be, c)
  BY DEF EventExact
<1>1. /\ be.GetBlocksRequest # 0 => be.BlockServiceGet <= be.GetBlocksRequest
      /\ be.FirstFindProvider # 0 => be.GetBlocksRequest <= be.FirstFindProvider
      /\ be.FinishVisit # 0 => be.BeginVisit <= be.FinishVisit
  BY <1>0, FirstInOrder DEF TimesExact
<1>2. ASSUME NEW p \in Peers
      PROVE  /\ be.FirstWantTo[p] # 0 => be.GetBlocksRequest <= be.FirstWantTo[p]
             /\ be.FirstGotProvider[p] # 0 => be.FirstFindProvider <= be.FirstGotProvider[p]
  BY <1>0, FirstInOrder DEF TimesExact, PeersExact
<1>3. ASSUME be.FirstPutStore # 0 PROVE be.FirstReceive <= be.FirstPutStore
  <2>1. be.FirstPutStore = First(c, "PutStore", NoPeer)
    BY <1>0 DEF TimesExact
  <2>2. PICK q \in Receivers(c) : First(c, "ReceiveBlock", q) <= be.FirstPutStore
    BY <1>3, <2>1, FirstInOrder
  <2>3. be.FirstReceive <= First(c, "ReceiveBlock", q)
    BY <1>0, <2>2 DEF ReceivesExact
  <2>4. be.FirstReceive \in Nat /\ be.FirstPutStore \in Nat /\ First(c, "ReceiveBlock", q) \in Nat
    BY EventFields, FirstIs
  <2> QED
    BY <2>2, <2>3, <2>4
<1>4. ASSUME be.ReceiveFrom \in Peers, be.FirstReceive # 0
      PROVE  be.FirstWantTo[be.ReceiveFrom] <= be.FirstReceive
  <2>1. be.FirstReceive = First(c, "ReceiveBlock", be.ReceiveFrom)
    BY <1>0, <1>4 DEF ReceivesExact
  <2>2. First(c, "SendWant", be.ReceiveFrom) <= be.FirstReceive
    BY <1>4, <2>1, FirstInOrder
  <2>3. be.FirstWantTo[be.ReceiveFrom] = First(c, "SendWant", be.ReceiveFrom)
    BY <1>0, <1>4 DEF PeersExact
  <2> QED
    BY <2>2, <2>3
<1> QED
  BY <1>1, <1>2, <1>3, <1>4

\* An exact event has no negative duration.
LEMMA NonNegative ==
    ASSUME MadeType, OrderInv, NEW c \in Blocks, NEW be \in Events, EventExact(be, c)
    PROVE  /\ \A d \in RootDurations(be) : d >= 0
           /\ \A d \in LeafDurations(be) : d >= 0
           /\ \A d \in Span(be.BlockServiceGet, be.GetBlocksRequest) : d >= 0
           /\ \A d \in Span(At(be.FirstWantTo, be.ReceiveFrom), be.FirstReceive) : d >= 0
           /\ \A d \in Span(be.FirstReceive, be.FirstPutStore) : d >= 0
           /\ \A d \in Span(be.BeginVisit, be.FinishVisit) : d >= 0
<1> DEFINE want == At(be.FirstWantTo, be.ReceiveFrom)
           got == At(be.FirstGotProvider, be.ReceiveFrom)
<1>1. /\ be.BlockServiceGet \in Nat /\ be.GetBlocksRequest \in Nat
      /\ be.FirstFindProvider \in Nat /\ be.FirstReceive \in Nat
      /\ be.FirstPutStore \in Nat /\ be.BeginVisit \in Nat /\ be.FinishVisit \in Nat
  BY EventFields
<1>2. want \in Nat /\ got \in Nat
  BY EventFields DEF At
<1>3. /\ be.GetBlocksRequest # 0 => be.BlockServiceGet <= be.GetBlocksRequest
      /\ be.FirstFindProvider # 0 => be.GetBlocksRequest <= be.FirstFindProvider
      /\ be.FinishVisit # 0 => be.BeginVisit <= be.FinishVisit
      /\ be.FirstPutStore # 0 => be.FirstReceive <= be.FirstPutStore
  BY EventInOrder
<1>4. /\ want # 0 => be.GetBlocksRequest <= want
      /\ got # 0 => be.FirstFindProvider <= got
      /\ want # 0 /\ be.FirstReceive # 0 => want <= be.FirstReceive
  BY EventInOrder DEF At
<1>5. ASSUME NEW from \in Nat, NEW to \in Nat, to # 0 /\ from # 0 => from <= to
      PROVE  \A d \in Span(from, to) : d >= 0
  BY <1>5 DEF Span
<1> HIDE DEF want, got
<1>6. \A d \in Span(want, be.FirstReceive) : d >= 0
  BY <1>1, <1>2, <1>4, <1>5
<1>7. /\ \A d \in Span(be.BlockServiceGet, be.GetBlocksRequest) : d >= 0
      /\ \A d \in Span(be.FirstReceive, be.FirstPutStore) : d >= 0
      /\ \A d \in Span(be.BeginVisit, be.FinishVisit) : d >= 0
  BY <1>1, <1>3, <1>5
<1>8. ASSUME NEW d \in RootDurations(be) PROVE d >= 0
  <2> DEFINE find == be.FirstFindProvider
             get == be.GetBlocksRequest
  <2>1. got # 0 /\ want # 0 /\ ~(got >= want)
    BY <1>8 DEF RootDurations, want, got
  <2>2. \/ d = want - got
        \/ find # 0 /\ d = got - find
        \/ find # 0 /\ get # 0 /\ d = find - get
    BY <1>8 DEF RootDurations, want, got
  <2>3. find <= got /\ (find # 0 => get <= find) /\ find \in Nat /\ get \in Nat
    BY <1>1, <1>3, <1>4, <2>1
  <2> HIDE DEF find, get
  <2> QED
    BY <1>2, <2>1, <2>2, <2>3
<1>9. ASSUME NEW d \in LeafDurations(be) PROVE d >= 0
  <2>1. want # 0 /\ d = want - be.GetBlocksRequest
    BY <1>9 DEF LeafDurations, want
  <2> QED
    BY <1>1, <1>2, <1>4, <2>1
<1> QED
  BY <1>6, <1>7, <1>8, <1>9 DEF want

\* Durations are differences of times.
LEMMA DurationsInt ==
    ASSUME NEW be \in Events, NEW d,
           \/ d \in RootDurations(be) \/ d \in LeafDurations(be)
           \/ d \in Span(be.BlockServiceGet, be.GetBlocksRequest)
           \/ d \in Span(At(be.FirstWantTo, be.ReceiveFrom), be.FirstReceive)
           \/ d \in Span(be.FirstReceive, be.FirstPutStore)
           \/ d \in Span(be.BeginVisit, be.FinishVisit)
    PROVE  d \in Int
<1> DEFINE want == At(be.FirstWantTo, be.ReceiveFrom)
           got == At(be.FirstGotProvider, be.ReceiveFrom)
<1>1. /\ be.BlockServiceGet \in Nat /\ be.GetBlocksRequest \in Nat
      /\ be.FirstFindProvider \in Nat /\ be.FirstReceive \in Nat
      /\ be.FirstPutStore \in Nat /\ be.BeginVisit \in Nat /\ be.FinishVisit \in Nat
  BY EventFields
<1>2. want \in Nat /\ got \in Nat
  BY EventFields DEF At
<1>3. ASSUME NEW from \in Nat, NEW to \in Nat PROVE Span(from, to) \subseteq Int
  BY DEF Span
<1>4. RootDurations(be) \subseteq {want - got, got - be.FirstFindProvider,
                                  be.FirstFindProvider - be.GetBlocksRequest}
  BY DEF RootDurations
<1>5. LeafDurations(be) \subseteq {want - be.GetBlocksRequest}
  BY DEF LeafDurations
<1> HIDE DEF want, got
<1>6. RootDurations(be) \subseteq Int /\ LeafDurations(be) \subseteq Int
  BY <1>1, <1>2, <1>4, <1>5
<1>7. Span(want, be.FirstReceive) \subseteq Int
  BY <1>1, <1>2, <1>3
<1> QED
  BY <1>1, <1>3, <1>6, <1>7 DEF want

\* A negative duration is of a block whose handlers overlapped.
LEMMA NegativeOverlaps ==
    ASSUME TypeInv, OrderInv, ExactInv, NEW d \in GetBreakdown(BDMonitor), d < 0
    PROVE  DOMAIN BDMonitor.EventList \cap overlapped # {}
<1>1. PICK c \in DOMAIN BDMonitor.EventList :
          LET be == BDMonitor.EventList[c] IN
          d \in (IF c = BDMonitor.Root THEN RootDurations(be) ELSE LeafDurations(be))
                \cup Span(be.BlockServiceGet, be.GetBlocksRequest)
                \cup Span(At(be.FirstWantTo, be.ReceiveFrom), be.FirstReceive)
                \cup Span(be.FirstReceive, be.FirstPutStore)
                \cup Span(be.BeginVisit, be.FinishVisit)
  BY DEF GetBreakdown
<1>2. PICK be : be = BDMonitor.EventList[c]
  OBVIOUS
<1>3. be \in Events /\ c \in Blocks
  BY <1>2, ListShape DEF TypeInv, CallType
<1>4. SUFFICES ASSUME c \notin overlapped PROVE FALSE
  OBVIOUS
<1>5. EventExact(be, c)
  BY <1>2, <1>4 DEF ExactInv
<1>6. \/ d \in RootDurations(be) \/ d \in LeafDurations(be)
      \/ d \in Span(be.BlockServiceGet, be.GetBlocksRequest)
      \/ d \in Span(At(be.FirstWantTo, be.ReceiveFrom), be.FirstReceive)
      \/ d \in Span(be.FirstReceive, be.FirstPutStore)
      \/ d \in Span(be.BeginVisit, be.FinishVisit)
  BY <1>1, <1>2
<1>7. d >= 0
  BY <1>3, <1>5, <1>6, NonNegative DEF TypeInv
<1>8. d \in Int
  BY <1>3, <1>6, DurationsInt
<1> QED
  BY <1>7, <1>8

LEMMA ExactStep ==
    ASSUME TypeInv, OrderInv, ExactInv, [Next]_vars
    PROVE  ExactInv'
<1>1. ASSUME NEW t \in Threads, report'[t].negative
      PROVE  report'[t].blocks \cap overlapped' # {}
  <2>1. overlapped \subseteq overlapped'
    BY OverlapStays
  <2>2. CASE report'[t].negative = report[t].negative /\ report'[t].blocks = report[t].blocks
    BY <1>1, <2>1, <2>2 DEF ExactInv
  <2>3. CASE /\ report'[t].blocks = DOMAIN BDMonitor.EventList
             /\ report'[t].negative = \E d \in GetBreakdown(BDMonitor) : d < 0
    <3>1. DOMAIN BDMonitor.EventList \cap overlapped # {}
      BY <1>1, <2>3, NegativeOverlaps
    <3> QED
      BY <2>1, <2>3, <3>1
  <2> QED
    BY <1>1, <2>2, <2>3, ReportStep
<1> QED
  BY <1>1, ListExact, CopyExact DEF ExactInv

\* A block whose handlers ran one at a time has an event that says when and with whom
\* each thing happened first, and how often it was in vain, so that only the report of
\* a block whose handlers overlapped has a negative duration (monitor.go:111-266, 285).
THEOREM RecordedExactlyWhenAlone == Spec => []ExactWhenAlone
<1>1. Init => TypeInv /\ OrderInv /\ ExactInv
  <2> SUFFICES ASSUME Init PROVE TypeInv /\ OrderInv /\ ExactInv
    OBVIOUS
  <2>1. /\ DOMAIN BDMonitor.EventList = {} /\ call = [g \in Goroutines |-> NoCall]
        /\ report = [t \in Threads |-> NoReport] /\ made = [c \in Blocks |-> Nothing]
    BY NewIsMonitor DEF Init
  <2>2. \A c \in Blocks : DOMAIN made[c] = {}
    BY <2>1 DEF Nothing
  <2> QED
    BY <2>1, <2>2, TypeInit DEF OrderInv, ExactInv, NoReport
<1>2. TypeInv /\ OrderInv /\ ExactInv /\ [Next]_vars => (TypeInv /\ OrderInv /\ ExactInv)'
  BY TypeStep, OrderStep, ExactStep
<1>3. ExactInv => ExactWhenAlone
  <2> SUFFICES ASSUME ExactInv PROVE ExactWhenAlone
    OBVIOUS
  <2>1. \A c \in DOMAIN BDMonitor.EventList \ overlapped : EventExact(BDMonitor.EventList[c], c)
    BY DEF ExactInv
  <2>2. \A t \in Threads : report[t].negative => report[t].blocks \cap overlapped # {}
    BY DEF ExactInv
  <2> QED
    BY <2>1, <2>2 DEF ExactWhenAlone, EventExact, TimesExact, PeersExact, ReceivesExact, First, Receivers
<1> QED
  BY <1>1, <1>2, <1>3, PTL DEF Spec
=============================================================================
