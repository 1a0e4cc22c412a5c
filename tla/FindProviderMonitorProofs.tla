---------------------- MODULE FindProviderMonitorProofs ----------------------
(***************************************************************************)
(* The fathers recorded in the only event of a multihash never form a      *)
(* cycle.  A peer gets a father only while it has not been asked, and its  *)
(* father was asked before: fathers are strictly earlier in the order of   *)
(* the first requests, also when the stores of several goroutines are      *)
(* late.  And a peer that was asked has a father or is a seed.            *)
(***************************************************************************)
EXTENDS FindProviderMonitor, TLAPS, WellFoundedInduction

Rank(p) == FirstRequestTime[1][p]

\* f was asked, and c was not or later.
Before(f, c) == Rank(f) > 0 /\ (Rank(c) = 0 \/ Rank(f) < Rank(c))

\* At most one monitor has the event, and not a future one.
OneHome ==
    /\ \A m \in Monitors : EventList[m] # 0 => EventList[m] = 1 /\ made = 1 /\ m <= FPMonitor
    /\ \A m, n \in Monitors : EventList[m] # 0 /\ EventList[n] # 0 => m = n

\* A lookup that is past NewProviderEvent has seen the event in some monitor.
Begun ==
    \A l \in Lookups :
        /\ lookup[l].m <= FPMonitor
        /\ lookup[l].at \in {"seed", "run"} => made = 1
        /\ known[l] # {} => made = 1

Ranked == \A p \in Peers : Rank(p) <= asks

FathersEarlier ==
    \A c \in Peers : FirstGotCloserFrom[1][c] # NoPeer => Before(FirstGotCloserFrom[1][c], c)

\* What holds of the goroutine of peer p at k: a store is made to the event
\* the list has; the answers of p are recorded in the event that has its
\* request, or in none; p was asked before a peer it is to become the father of.
CallOK(p, k) ==
    /\ k.fn # "ask" => made = 1
    /\ k.fn \in {"want", "provider", "father", "putback"} => k.pe = 1 /\ EventList[k.m] = 1
    /\ k.fn \in {"asked", "provider", "answered"} => Rank(p) > 0 \/ EventList[FPMonitor] = 0
    /\ k.fn \in {"closers", "father", "putback"} => Rank(p) > 0 \/ EventList[k.m] = 0
    /\ k.fn = "father" => k.c \in Peers /\ Before(p, k.c)

OneEvent ==
    /\ OneHome /\ Begun /\ Ranked /\ FathersEarlier
    /\ \A l \in Lookups, p \in Peers : CallOK(p, call[l][p])

IInv == TypeOK /\ (made <= 1 => OneEvent)

Calls == [fn : {"ask", "want", "asked", "provider", "answered", "closers", "father",
                "putback", "done"},
          m : Monitors, pe : 0 .. MaxEvents, todo : SUBSET Peers,
          c : Peers \cup {NoPeer}]

-----------------------------------------------------------------------------
\* A step of the goroutine of one peer leaves the other goroutines where they are.
LEMMA CallStep ==
    ASSUME TypeOK, NEW l \in Lookups, NEW p \in Peers, NEW r \in Calls, To(l, p, r)
    PROVE  /\ call' \in [Lookups -> [Peers -> Calls]]
           /\ \A k \in Lookups, q \in Peers :
                call'[k][q] = IF k = l /\ q = p THEN r ELSE call[k][q]
BY DEF TypeOK, To, Calls

LEMMA CallTyped ==
    ASSUME TypeOK, NEW l \in Lookups, NEW p \in Peers
    PROVE  call[l][p] \in Calls
BY DEF TypeOK, Calls

LEMMA AtTyped ==
    ASSUME NEW fn \in {"ask", "want", "asked", "provider", "answered", "closers", "father",
                       "putback", "done"},
           NEW m \in Monitors, NEW pe \in 0 .. MaxEvents, NEW todo \in SUBSET Peers,
           NEW c \in Peers \cup {NoPeer}
    PROVE  /\ At(fn, m, pe, todo, c) \in Calls
           /\ At(fn, m, pe, todo, c).fn = fn /\ At(fn, m, pe, todo, c).m = m
           /\ At(fn, m, pe, todo, c).pe = pe /\ At(fn, m, pe, todo, c).todo = todo
           /\ At(fn, m, pe, todo, c).c = c
BY DEF At, Calls

LEMMA ZeroTyped == 0 \in Monitors /\ 0 \in 0 .. MaxEvents /\ 1 \in Events
BY MonitorAssumption DEF Monitors, Events

\* The types are kept by every step.
LEMMA TypeStep ==
    ASSUME TypeOK, [Next]_vars
    PROVE  TypeOK'
<1> USE MonitorAssumption, ZeroTyped
<1>c. ASSUME call' \in [Lookups -> [Peers -> Calls]]
      PROVE  call' \in [Lookups -> [Peers ->
            [fn : {"ask", "want", "asked", "provider", "answered", "closers", "father",
                   "putback", "done"},
             m : Monitors, pe : 0 .. MaxEvents, todo : SUBSET Peers,
             c : Peers \cup {NoPeer}]]]
  BY <1>c DEF Calls
<1>1. ASSUME NEW l \in Lookups, NewLoad(l)
      PROVE  TypeOK'
  <2>1. lookup' \in [Lookups -> [at : {"idle", "new", "seed", "run"}, m : Monitors]]
    BY <1>1 DEF NewLoad, TypeOK
  <2> QED BY <1>1, <2>1 DEF NewLoad, eventVars, TypeOK
<1>2. ASSUME NEW l \in Lookups, NewStore(l)
      PROVE  TypeOK'
  <2>1. lookup' \in [Lookups -> [at : {"idle", "new", "seed", "run"}, m : Monitors]]
    <3>1. lookup \in [Lookups -> [at : {"idle", "new", "seed", "run"}, m : Monitors]]
      BY DEF TypeOK
    <3>2. lookup' = [lookup EXCEPT ![l].at = "seed"]
      BY <1>2 DEF NewStore
    <3> QED BY <3>1, <3>2
  <2>2. made + 1 \in 0 .. MaxEvents
    BY <1>2 DEF NewStore, TypeOK
  <2>3. made' \in 0 .. MaxEvents
    BY <1>2, <2>2 DEF NewStore
  <2>4. EventList' \in [Monitors -> 0 .. MaxEvents]
    <3>1. EventList \in [Monitors -> 0 .. MaxEvents]
      BY DEF TypeOK
    <3>2. EventList' = [EventList EXCEPT ![lookup[l].m] = made + 1]
      BY <1>2 DEF NewStore
    <3> QED BY <2>2, <3>1, <3>2
  <2> QED BY <1>2, <2>1, <2>3, <2>4 DEF NewStore, eventVars, TypeOK
<1>3. ASSUME NEW l \in Lookups, Seed(l)
      PROVE  TypeOK'
  <2>1. lookup' \in [Lookups -> [at : {"idle", "new", "seed", "run"}, m : Monitors]]
    BY <1>3 DEF Seed, TypeOK
  <2>2. SeedPeers' \in [Events -> SUBSET Peers] /\ known' \in [Lookups -> SUBSET Peers]
    BY <1>3 DEF Seed, TypeOK
  <2> QED BY <1>3, <2>1, <2>2 DEF Seed, TypeOK
<1>4. ASSUME NEW l \in Lookups, NEW p \in Peers, PeerNext(l, p)
      PROVE  TypeOK'
  <2> DEFINE k == call[l][p]
  <2>k. /\ k \in Calls /\ k.m \in Monitors /\ k.pe \in 0 .. MaxEvents
        /\ k.todo \in SUBSET Peers /\ k.c \in Peers \cup {NoPeer}
    BY CallTyped DEF Calls
  <2>m. FPMonitor \in Monitors /\ EventList[FPMonitor] \in 0 .. MaxEvents
        /\ EventList[k.m] \in 0 .. MaxEvents
    BY <2>k DEF TypeOK
  <2> HIDE DEF k
  <2>1. ASSUME NEW r \in Calls, To(l, p, r)
        PROVE  call' \in [Lookups -> [Peers ->
            [fn : {"ask", "want", "asked", "provider", "answered", "closers", "father",
                   "putback", "done"},
             m : Monitors, pe : 0 .. MaxEvents, todo : SUBSET Peers,
             c : Peers \cup {NoPeer}]]]
    BY <2>1, CallStep, <1>c
  <2>a. CASE WantLoad(l, p)
    <3>1. call' \in [Lookups -> [Peers -> Calls]]
      BY <2>a, <2>m, CallStep, AtTyped DEF WantLoad
    <3> QED BY <2>a, <3>1, <1>c DEF WantLoad, eventVars, TypeOK
  <2>b. CASE WantStore(l, p)
    <3>1. call' \in [Lookups -> [Peers -> Calls]]
      BY <2>b, CallStep, AtTyped DEF WantStore
    <3>2. FirstRequestTime' \in [Events -> [Peers -> Nat]] /\ asks' \in Nat
      <4>1. CASE k.pe \in Events
        <5>1. FirstRequestTime[k.pe] \in [Peers -> Nat] /\ asks \in Nat
          BY <4>1 DEF TypeOK
        <5>2. [FirstRequestTime[k.pe] EXCEPT ![p] = asks + 1] \in [Peers -> Nat]
          BY <5>1
        <5> QED BY <2>b, <5>1, <5>2, <4>1 DEF WantStore, TypeOK, k
      <4>2. CASE k.pe \notin Events
        <5>1. \A x : [FirstRequestTime EXCEPT ![k.pe] = x] = FirstRequestTime
          BY <4>2 DEF TypeOK
        <5>2. FirstRequestTime' = FirstRequestTime /\ asks' \in {asks, asks + 1}
          BY <2>b, <5>1, Zenon DEF WantStore, k
        <5> QED BY <5>2 DEF TypeOK
      <4> QED BY <4>1, <4>2
    <3>3. EventList' \in [Monitors -> 0 .. MaxEvents]
      BY <2>b, <2>k DEF WantStore, TypeOK, k
    <3> QED BY <2>b, <3>1, <3>2, <3>3, <1>c DEF WantStore, TypeOK
  <2>d. CASE ProviderLoad(l, p)
    <3>1. call' \in [Lookups -> [Peers -> Calls]]
      BY <2>d, <2>m, CallStep, AtTyped DEF ProviderLoad
    <3> QED BY <2>d, <3>1, <1>c DEF ProviderLoad, eventVars, TypeOK
  <2>e. CASE ProviderStore(l, p)
    <3>1. call' \in [Lookups -> [Peers -> Calls]]
      BY <2>e, CallStep, AtTyped DEF ProviderStore
    <3>2. FirstGotProviderFrom' \in [Events -> SUBSET Peers]
      BY <2>e DEF ProviderStore, TypeOK
    <3>3. EventList' \in [Monitors -> 0 .. MaxEvents]
      BY <2>e, <2>k DEF ProviderStore, TypeOK, k
    <3> QED BY <2>e, <3>1, <3>2, <3>3, <1>c DEF ProviderStore, TypeOK
  <2>f. CASE CloserStart(l, p)
    <3>1. call' \in [Lookups -> [Peers -> Calls]]
      BY <2>f, <2>m, CallStep, AtTyped DEF CloserStart
    <3> QED BY <2>f, <3>1, <1>c DEF CloserStart, eventVars, TypeOK
  <2>g. CASE CloserSkip(l, p)
    <3>1. PICK c \in k.todo : To(l, p, [k EXCEPT !.todo = @ \ {c}])
      BY <2>g DEF CloserSkip, k
    <3>2. [k EXCEPT !.todo = @ \ {c}] \in Calls
      BY <2>k DEF Calls
    <3>3. call' \in [Lookups -> [Peers -> Calls]]
      BY <3>1, <3>2, CallStep
    <3> QED BY <2>g, <3>3, <1>c DEF CloserSkip, eventVars, TypeOK
  <2>h. CASE CloserLoad(l, p)
    <3>1. PICK c \in k.todo :
            To(l, p, At(IF Fresh(EventList[k.m], c) THEN "father" ELSE "putback",
                        k.m, EventList[k.m], k.todo \ {c}, c))
      BY <2>h DEF CloserLoad, k
    <3>2. call' \in [Lookups -> [Peers -> Calls]]
      BY <3>1, <2>k, <2>m, CallStep, AtTyped
    <3> QED BY <2>h, <3>2, <1>c DEF CloserLoad, eventVars, TypeOK
  <2>i. CASE CloserStore(l, p)
    <3>1. call' \in [Lookups -> [Peers -> Calls]]
      BY <2>i, <2>k, CallStep, AtTyped DEF CloserStore, k
    <3>2. FirstGotCloserFrom' \in [Events -> [Peers -> Peers \cup {NoPeer}]]
      BY <2>i DEF CloserStore, TypeOK
    <3>3. EventList' \in [Monitors -> 0 .. MaxEvents]
      BY <2>i, <2>k DEF CloserStore, TypeOK, k
    <3> QED BY <2>i, <3>1, <3>2, <3>3, <1>c DEF CloserStore, TypeOK
  <2>j. CASE Learn(l, p)
    <3>1. call' \in [Lookups -> [Peers -> Calls]]
      BY <2>j, CallStep, AtTyped DEF Learn
    <3>2. known' \in [Lookups -> SUBSET Peers]
      BY <2>j DEF Learn, TypeOK
    <3> QED BY <2>j, <3>1, <3>2, <1>c DEF Learn, eventVars, TypeOK
  <2> QED
    BY <1>4, <2>a, <2>b, <2>d, <2>e, <2>f, <2>g, <2>h, <2>i, <2>j DEF PeerNext
<1>5. CASE CollectStart
  <2>1. EventList[FPMonitor] # 0 => EventList[FPMonitor] \in Events
    BY DEF TypeOK, Events
  <2>2. /\ collect' \in [at : {"idle", "walk"}, m : Monitors, pe : 0 .. MaxEvents,
                         todo : SUBSET Peers, current : Peers \cup {NoPeer}]
        /\ collect'.pe = 0 => collect'.todo = {} /\ collect'.current = NoPeer
        /\ collect'.at = "walk" => FPMonitor < MaxCollects
    BY <1>5, <2>1 DEF CollectStart, TypeOK
  <2> QED BY <1>5, <2>2 DEF CollectStart, eventVars, TypeOK, Monitors
<1>6. CASE CollectPick
  <2>1. PICK from \in collect.todo :
            collect' = [collect EXCEPT !.current = from, !.todo = @ \ {from}]
    BY <1>6 DEF CollectPick
  <2>2. /\ collect' \in [at : {"idle", "walk"}, m : Monitors, pe : 0 .. MaxEvents,
                         todo : SUBSET Peers, current : Peers \cup {NoPeer}]
        /\ collect'.pe = 0 => collect'.todo = {} /\ collect'.current = NoPeer
        /\ collect'.at = "walk" => FPMonitor < MaxCollects
    BY <2>1 DEF TypeOK
  <2> QED BY <1>6, <2>2 DEF CollectPick, eventVars, TypeOK
<1>7. CASE CollectWalk
  <2>1. collect.pe \in Events /\ collect.current \in Peers
    BY <1>7 DEF CollectWalk, TypeOK, Events
  <2>2. Father(collect.current) \in Peers \cup {NoPeer}
    BY <2>1 DEF Father, TypeOK
  <2>3. /\ collect' \in [at : {"idle", "walk"}, m : Monitors, pe : 0 .. MaxEvents,
                         todo : SUBSET Peers, current : Peers \cup {NoPeer}]
        /\ collect'.pe = 0 => collect'.todo = {} /\ collect'.current = NoPeer
        /\ collect'.at = "walk" => FPMonitor < MaxCollects
    <3>1. collect' = [collect EXCEPT !.current = Father(collect.current)]
      BY <1>7 DEF CollectWalk
    <3>2. collect.pe # 0
      BY <2>1 DEF Events
    <3> QED BY <3>1, <3>2, <2>2 DEF TypeOK
  <2> QED BY <1>7, <2>3 DEF CollectWalk, eventVars, TypeOK
<1>8. CASE CollectEnd
  <2>1. FPMonitor' \in Monitors
    BY <1>8 DEF CollectEnd, TypeOK, Monitors
  <2> QED BY <1>8, <2>1 DEF CollectEnd, Idle, eventVars, TypeOK
<1>9. CASE UNCHANGED vars
  BY <1>9 DEF vars, eventVars, TypeOK
<1> QED
  BY <1>1, <1>2, <1>3, <1>4, <1>5, <1>6, <1>7, <1>8, <1>9 DEF Next, LookupNext, CollectNext

-----------------------------------------------------------------------------
\* Ranks once given stay, later ones are greater.
RanksGrow ==
    \A q \in Peers : Rank(q)' = Rank(q) \/ (Rank(q) = 0 /\ Rank(q)' = asks + 1)

LEMMA RankTyped == TypeOK => \A q \in Peers : Rank(q) \in Nat
BY ZeroTyped DEF TypeOK, Rank

\* What was earlier stays earlier.
LEMMA BeforeStable ==
    ASSUME TypeOK, TypeOK', Ranked, RanksGrow, NEW f \in Peers, NEW c \in Peers, Before(f, c)
    PROVE  Before(f, c)'
<1>1. Rank(f) \in Nat /\ Rank(c) \in Nat /\ asks \in Nat
  BY RankTyped DEF TypeOK
<1>2. Rank(f) <= asks /\ Rank(f)' = Rank(f)
  BY <1>1 DEF Ranked, RanksGrow, Before
<1>3. Rank(c)' = Rank(c) \/ (Rank(c) = 0 /\ Rank(c)' = asks + 1)
  BY DEF RanksGrow
<1> QED BY <1>1, <1>2, <1>3 DEF Before

\* A goroutine that does not move is where it may be after a step of others.
LEMMA CallStable ==
    ASSUME TypeOK, TypeOK', OneEvent, RanksGrow, made' = made, EventList' = EventList,
           \/ FPMonitor' = FPMonitor
           \/ EventList[FPMonitor'] = 0,
           NEW p \in Peers, NEW k \in Calls, CallOK(p, k)
    PROVE  CallOK(p, k)'
<1>1. Rank(p) > 0 => Rank(p)' > 0
  BY RankTyped DEF RanksGrow
<1>2. k.fn = "father" => Before(p, k.c)'
  BY BeforeStable DEF CallOK, OneEvent
<1> QED BY <1>1, <1>2 DEF CallOK

\* A step that moves one goroutine, and nothing but it and the ranks.
LEMMA PeerStep ==
    ASSUME TypeOK, TypeOK', OneEvent, RanksGrow, Ranked', FathersEarlier',
           made' = made, EventList' = EventList, FPMonitor' = FPMonitor, lookup' = lookup,
           \A k \in Lookups : known'[k] # known[k] => made = 1,
           NEW l \in Lookups, NEW p \in Peers, NEW r \in Calls, To(l, p, r), CallOK(p, r)'
    PROVE  OneEvent'
<1>1. ASSUME NEW k \in Lookups, NEW q \in Peers
      PROVE  CallOK(q, call[k][q])'
  <2>1. PICK x \in Calls : x = call'[k][q]
    BY CallStep
  <2>2. CallOK(q, x)'
    <3>1. CASE k = l /\ q = p
      <4>1. x = r
        BY <3>1, <2>1, CallStep
      <4> QED BY <4>1, <3>1
    <3>2. CASE ~(k = l /\ q = p)
      <4>1. x = call[k][q]
        BY <3>2, <2>1, CallStep
      <4>2. CallOK(q, x)
        BY <4>1 DEF OneEvent
      <4> QED BY <4>2, CallStable
    <3> QED BY <3>1, <3>2
  <2> QED BY <2>1, <2>2 DEF CallOK
<1>2. OneHome' /\ Begun'
  BY DEF OneEvent, OneHome, Begun
<1> QED BY <1>1, <1>2 DEF OneEvent

\* The steps of the goroutine of one peer.
LEMMA PeerNextStep ==
    ASSUME TypeOK, TypeOK', OneEvent, made <= 1,
           NEW l \in Lookups, NEW p \in Peers, PeerNext(l, p)
    PROVE  OneEvent'
<1> USE MonitorAssumption, ZeroTyped
<1>k. PICK k \in Calls : k = call[l][p]
  BY CallTyped
<1>t. /\ k.m \in Monitors /\ k.pe \in 0 .. MaxEvents
      /\ k.todo \in SUBSET Peers /\ k.c \in Peers \cup {NoPeer}
      /\ CallOK(p, k)
  BY <1>k DEF Calls, OneEvent
<1>n. PICK n \in Monitors : n = FPMonitor
  BY DEF TypeOK
<1>e. PICK e \in 0 .. MaxEvents : e = EventList[n]
  BY DEF TypeOK
<1>1. /\ e # 0 => e = 1 /\ made = 1
      /\ EventList[k.m] # 0 => EventList[k.m] = 1 /\ made = 1
  BY <1>n, <1>e, <1>t DEF OneEvent, OneHome
<1>q. ASSUME UNCHANGED <<FPMonitor, EventList, made, FirstRequestTime, FirstGotCloserFrom,
                         asks, lookup>>,
             \A j \in Lookups : known'[j] # known[j] => made = 1,
             NEW r \in Calls, To(l, p, r), CallOK(p, r)
      PROVE  OneEvent'
  <2>1. RanksGrow /\ Ranked' /\ FathersEarlier' /\ CallOK(p, r)'
    BY <1>q DEF OneEvent, RanksGrow, Ranked, Rank, FathersEarlier, Before, CallOK
  <2> QED BY <1>q, <2>1, PeerStep
<1>a. CASE WantLoad(l, p)
  <2>1. made = 1
    BY <1>a DEF WantLoad, OneEvent, Begun
  <2>2. CASE e # 0 /\ FirstRequestTime[e][p] = 0
    <3>1. PICK r \in Calls : r = At("want", n, e, {}, NoPeer)
      BY AtTyped
    <3>2. To(l, p, r)
      BY <1>a, <2>2, <3>1, <1>n, <1>e DEF WantLoad
    <3>3. CallOK(p, r)
      BY <3>1, <2>1, <2>2, <1>1, <1>e, AtTyped DEF CallOK
    <3> QED BY <1>a, <1>q, <3>2, <3>3 DEF WantLoad, eventVars
  <2>3. CASE ~(e # 0 /\ FirstRequestTime[e][p] = 0)
    <3>1. PICK r \in Calls : r = At("asked", 0, 0, {}, NoPeer)
      BY AtTyped
    <3>2. To(l, p, r)
      BY <1>a, <2>3, <3>1, <1>n, <1>e DEF WantLoad
    <3>3. Rank(p) > 0 \/ EventList[FPMonitor] = 0
      BY <2>3, <1>1, <1>n, <1>e, RankTyped DEF Rank
    <3>4. CallOK(p, r)
      BY <3>1, <3>3, <2>1, AtTyped DEF CallOK
    <3> QED BY <1>a, <1>q, <3>2, <3>4 DEF WantLoad, eventVars
  <2> QED BY <2>2, <2>3
<1>b. CASE WantStore(l, p)
  <2>1. k.fn = "want" /\ k.pe = 1 /\ EventList[k.m] = 1 /\ made = 1
    BY <1>b, <1>k, <1>t DEF WantStore, CallOK
  <2>2. EventList' = EventList
    BY <1>b, <1>k, <2>1 DEF WantStore, TypeOK
  <2>3. /\ Rank(p) = 0 => Rank(p)' = asks + 1 /\ asks' = asks + 1
        /\ Rank(p) # 0 => Rank(p)' = Rank(p) /\ asks' = asks
        /\ \A q \in Peers \ {p} : Rank(q)' = Rank(q)
    <3>1. FirstRequestTime[1] \in [Peers -> Nat]
      BY DEF TypeOK
    <3> QED BY <1>b, <1>k, <2>1, <3>1 DEF WantStore, TypeOK, Rank
  <2>4. RanksGrow /\ Ranked'
    <3>1. asks \in Nat /\ asks' \in {asks, asks + 1}
      BY <2>3, RankTyped DEF TypeOK
    <3>2. ASSUME NEW q \in Peers
          PROVE  /\ Rank(q)' = Rank(q) \/ (Rank(q) = 0 /\ Rank(q)' = asks + 1)
                 /\ Rank(q)' <= asks'
      <4>1. Rank(q) \in Nat /\ Rank(q) <= asks
        BY RankTyped DEF OneEvent, Ranked
      <4>2. CASE q = p
        BY <4>1, <4>2, <3>1, <2>3
      <4>3. CASE q # p
        BY <4>1, <4>3, <3>1, <2>3
      <4> QED BY <4>2, <4>3
    <3> QED BY <3>2 DEF RanksGrow, Ranked
  <2>5. FathersEarlier'
    <3> SUFFICES ASSUME NEW c \in Peers, FirstGotCloserFrom'[1][c] # NoPeer
                 PROVE  Before(FirstGotCloserFrom[1][c], c)'
      BY DEF FathersEarlier
    <3>1. FirstGotCloserFrom' = FirstGotCloserFrom
      BY <1>b DEF WantStore
    <3>2. PICK f \in Peers : f = FirstGotCloserFrom[1][c] /\ Before(f, c)
      BY <3>1 DEF OneEvent, FathersEarlier, TypeOK
    <3>3. Before(f, c)'
      BY <3>2, <2>4, BeforeStable DEF OneEvent
    <3> QED BY <3>1, <3>2, <3>3 DEF Before
  <2>6. PICK r \in Calls : r = At("asked", 0, 0, {}, NoPeer)
    BY AtTyped
  <2>7. CallOK(p, r)'
    <3>1. Rank(p)' > 0
      BY <2>3, RankTyped DEF TypeOK
    <3>2. made' = 1
      BY <1>b, <2>1 DEF WantStore
    <3> QED BY <2>6, <3>1, <3>2, AtTyped DEF CallOK
  <2> QED BY <1>b, <2>1, <2>2, <2>4, <2>5, <2>6, <2>7, PeerStep DEF WantStore
<1>d. CASE ProviderLoad(l, p)
  <2>1. PICK r \in Calls : r = At("provider", n, e, {}, NoPeer)
    BY AtTyped
  <2>2. To(l, p, r) /\ e # 0 /\ k.fn = "asked"
    BY <1>d, <2>1, <1>n, <1>e, <1>k DEF ProviderLoad
  <2>3. CallOK(p, r)
    BY <2>1, <2>2, <1>1, <1>t, <1>n, <1>e, AtTyped DEF CallOK
  <2> QED BY <1>d, <1>q, <2>2, <2>3 DEF ProviderLoad, eventVars
<1>f. CASE ProviderStore(l, p)
  <2>1. k.fn = "provider" /\ k.pe = 1 /\ EventList[k.m] = 1 /\ made = 1
    BY <1>f, <1>k, <1>t DEF ProviderStore, CallOK
  <2>2. EventList' = EventList
    BY <1>f, <1>k, <2>1 DEF ProviderStore, TypeOK
  <2>3. PICK r \in Calls : r = At("answered", 0, 0, {}, NoPeer)
    BY AtTyped
  <2>4. CallOK(p, r)
    BY <2>1, <2>3, <1>t, AtTyped DEF CallOK
  <2>5. To(l, p, r)
    BY <1>f, <2>3 DEF ProviderStore
  <2> QED BY <1>f, <1>q, <2>2, <2>4, <2>5 DEF ProviderStore
<1>g. CASE CloserStart(l, p)
  <2>1. PICK r \in Calls : r = At("closers", n, 0, ClosersOf[p], NoPeer)
    BY AtTyped
  <2>2. To(l, p, r) /\ k.fn \in {"asked", "answered"}
    BY <1>g, <2>1, <1>n, <1>k DEF CloserStart
  <2>3. CallOK(p, r)
    BY <2>1, <2>2, <1>t, <1>n, AtTyped DEF CallOK
  <2> QED BY <1>g, <1>q, <2>2, <2>3 DEF CloserStart, eventVars
<1>h. CASE CloserSkip(l, p)
  <2>1. PICK c \in k.todo : To(l, p, [k EXCEPT !.todo = @ \ {c}])
    BY <1>h, <1>k DEF CloserSkip
  <2>2. PICK r \in Calls : r = [k EXCEPT !.todo = @ \ {c}]
    BY <1>t DEF Calls
  <2>3. r.fn = k.fn /\ r.m = k.m /\ k.fn = "closers"
    BY <1>h, <1>k, <2>2 DEF CloserSkip, Calls
  <2>4. CallOK(p, r)
    BY <2>3, <1>t DEF CallOK
  <2> QED BY <1>h, <1>q, <2>1, <2>2, <2>4 DEF CloserSkip, eventVars
<1>i. CASE CloserLoad(l, p)
  <2>1. EventList[k.m] = 1 /\ made = 1 /\ k.fn = "closers" /\ Rank(p) > 0
    BY <1>i, <1>k, <1>1, <1>t DEF CloserLoad, CallOK
  <2>2. PICK c \in k.todo :
            To(l, p, At(IF Fresh(1, c) THEN "father" ELSE "putback", k.m, 1, k.todo \ {c}, c))
    BY <1>i, <1>k, <2>1 DEF CloserLoad
  <2>3. 1 \in 0 .. MaxEvents
    OBVIOUS
  <2>4. CASE Fresh(1, c)
    <3>1. PICK r \in Calls : r = At("father", k.m, 1, k.todo \ {c}, c)
      BY AtTyped, <1>t, <2>3
    <3>2. c \in Peers /\ Before(p, c)
      BY <2>1, <2>4, <1>t DEF Before, Fresh, Rank
    <3>3. CallOK(p, r)
      BY <3>1, <3>2, <2>1, <2>3, <1>t, AtTyped DEF CallOK
    <3> QED BY <1>i, <1>q, <2>2, <2>4, <3>1, <3>3 DEF CloserLoad, eventVars
  <2>5. CASE ~Fresh(1, c)
    <3>1. PICK r \in Calls : r = At("putback", k.m, 1, k.todo \ {c}, c)
      BY AtTyped, <1>t, <2>3
    <3>2. CallOK(p, r)
      BY <3>1, <2>1, <2>3, <1>t, AtTyped DEF CallOK
    <3> QED BY <1>i, <1>q, <2>2, <2>5, <3>1, <3>2 DEF CloserLoad, eventVars
  <2> QED BY <2>4, <2>5
<1>j. CASE CloserStore(l, p)
  <2>1. k.fn \in {"father", "putback"} /\ k.pe = 1 /\ EventList[k.m] = 1 /\ made = 1
    BY <1>j, <1>k, <1>t DEF CloserStore, CallOK
  <2>2. EventList' = EventList
    BY <1>j, <1>k, <2>1 DEF CloserStore, TypeOK
  <2>3. RanksGrow /\ Ranked'
    BY <1>j DEF CloserStore, OneEvent, RanksGrow, Ranked, Rank
  <2>4. FathersEarlier'
    <3> SUFFICES ASSUME NEW c \in Peers, FirstGotCloserFrom'[1][c] # NoPeer
                 PROVE  Before(FirstGotCloserFrom[1][c], c)'
      BY DEF FathersEarlier
    <3>1. FirstRequestTime' = FirstRequestTime
      BY <1>j DEF CloserStore
    <3>2. CASE k.fn = "father" /\ c = k.c
      <4>1. FirstGotCloserFrom'[1][c] = p
        <5>1. FirstGotCloserFrom[1] \in [Peers -> Peers \cup {NoPeer}]
          BY DEF TypeOK
        <5> QED BY <1>j, <1>k, <2>1, <3>2, <5>1 DEF CloserStore, TypeOK
      <4>2. Before(p, c)
        BY <3>2, <1>t DEF CallOK
      <4> QED BY <4>1, <4>2, <3>1 DEF Before, Rank
    <3>3. CASE ~(k.fn = "father" /\ c = k.c)
      <4>1. FirstGotCloserFrom'[1][c] = FirstGotCloserFrom[1][c]
        <5>1. FirstGotCloserFrom[1] \in [Peers -> Peers \cup {NoPeer}]
          BY DEF TypeOK
        <5> QED BY <1>j, <1>k, <2>1, <3>3, <5>1 DEF CloserStore, TypeOK
      <4>2. Before(FirstGotCloserFrom[1][c], c)
        BY <4>1 DEF OneEvent, FathersEarlier
      <4> QED BY <4>1, <4>2, <3>1 DEF Before, Rank
    <3> QED BY <3>2, <3>3
  <2>5. PICK r \in Calls : r = At("closers", k.m, 0, k.todo, NoPeer)
    BY AtTyped, <1>t
  <2>6. CallOK(p, r)'
    <3>1. Rank(p)' > 0
      BY <1>j, <2>1, <1>t DEF CloserStore, CallOK, Rank
    <3>2. made' = 1
      BY <1>j, <2>1 DEF CloserStore
    <3> QED BY <2>5, <3>1, <3>2, <1>t, AtTyped DEF CallOK
  <2>7. To(l, p, r)
    BY <1>j, <1>k, <2>5 DEF CloserStore
  <2> QED BY <1>j, <2>1, <2>2, <2>3, <2>4, <2>6, <2>7, PeerStep DEF CloserStore
<1>m. CASE Learn(l, p)
  <2>1. PICK r \in Calls : r = At("done", 0, 0, {}, NoPeer)
    BY AtTyped
  <2>2. To(l, p, r) /\ k.fn = "closers"
    BY <1>m, <1>k, <2>1 DEF Learn
  <2>3. made = 1
    BY <2>2, <1>t DEF CallOK
  <2>4. CallOK(p, r)
    BY <2>1, <2>3, AtTyped DEF CallOK
  <2> QED BY <1>m, <1>q, <2>2, <2>3, <2>4 DEF Learn, eventVars
<1> QED
  BY <1>a, <1>b, <1>d, <1>f, <1>g, <1>h, <1>i, <1>j, <1>m DEF PeerNext

\* The steps of lookups and of the goroutine that collects.
LEMMA OneEventStep ==
    ASSUME TypeOK, TypeOK', made' <= 1, made <= 1 => OneEvent, [Next]_vars
    PROVE  OneEvent'
<1> USE MonitorAssumption, ZeroTyped
<1>0. OneEvent
  <2>1. made \in Nat /\ made' \in Nat
    BY DEF TypeOK
  <2>2. made' \in {made, made + 1}
    <3>1. ASSUME NEW l \in Lookups, LookupNext(l)
          PROVE  made' \in {made, made + 1}
      BY <3>1 DEF LookupNext, NewLoad, NewStore, Seed
    <3>2. ASSUME NEW l \in Lookups, NEW p \in Peers, PeerNext(l, p)
          PROVE  made' \in {made, made + 1}
      BY <3>2 DEF PeerNext, WantLoad, WantStore, ProviderLoad, ProviderStore, CloserStart,
                  CloserSkip, CloserLoad, CloserStore, Learn
    <3>3. ASSUME CollectStart \/ CollectNext \/ UNCHANGED vars
          PROVE  made' \in {made, made + 1}
      BY <3>3 DEF CollectNext, CollectStart, CollectPick, CollectWalk, CollectEnd, vars
    <3> QED BY <3>1, <3>2, <3>3 DEF Next
  <2> QED BY <2>1, <2>2
<1>c. ASSUME UNCHANGED <<EventList, made, FirstRequestTime, FirstGotCloserFrom, asks, call>>,
             FPMonitor' = FPMonitor \/ EventList[FPMonitor'] = 0
      PROVE  /\ Ranked' /\ FathersEarlier'
             /\ \A l \in Lookups, p \in Peers : CallOK(p, call[l][p])'
  <2>1. RanksGrow /\ Ranked' /\ FathersEarlier'
    BY <1>c, <1>0 DEF OneEvent, RanksGrow, Ranked, FathersEarlier, Before, Rank
  <2>2. ASSUME NEW l \in Lookups, NEW p \in Peers
        PROVE  CallOK(p, call[l][p])'
    <3>1. PICK x \in Calls : x = call[l][p]
      BY CallTyped
    <3>2. CallOK(p, x)
      BY <3>1, <1>0 DEF OneEvent
    <3>3. CallOK(p, x)'
      BY <3>2, <2>1, <1>c, <1>0, CallStable
    <3> QED BY <3>1, <3>3, <1>c DEF CallOK
  <2> QED BY <2>1, <2>2
<1>1. ASSUME NEW l \in Lookups, NewLoad(l)
      PROVE  OneEvent'
  <2>1. Begun' /\ OneHome'
    <3>1. lookup' = [lookup EXCEPT ![l] =
            [at |-> IF EventList[FPMonitor] = 0 THEN "new" ELSE "seed", m |-> FPMonitor]]
      BY <1>1 DEF NewLoad
    <3>2. FPMonitor \in Nat
      BY DEF TypeOK, Monitors
    <3>3. EventList[FPMonitor] # 0 => made = 1
      BY <1>0 DEF OneEvent, OneHome, TypeOK
    <3>4. \A j \in Lookups : lookup'[j].m <= FPMonitor /\ (lookup'[j].at \in {"seed", "run"} => made = 1)
      BY <3>1, <3>2, <3>3, <1>0 DEF OneEvent, Begun, TypeOK
    <3> QED BY <1>1, <3>4, <1>0 DEF NewLoad, OneEvent, Begun, OneHome
  <2> QED BY <2>1, <1>c, <1>1 DEF NewLoad, eventVars, OneEvent
<1>2. ASSUME NEW l \in Lookups, NewStore(l)
      PROVE  OneEvent'
  <2>1. made = 0 /\ made' = 1
    BY <1>2 DEF NewStore, TypeOK
  <2>2. \A m \in Monitors : EventList[m] = 0
    BY <2>1, <1>0 DEF OneEvent, OneHome
  <2>3. PICK h \in Monitors : h = lookup[l].m /\ h <= FPMonitor
    BY <1>0 DEF OneEvent, Begun, TypeOK
  <2>4. \A m \in Monitors : EventList'[m] = IF m = h THEN 1 ELSE 0
    BY <1>2, <2>1, <2>2, <2>3 DEF NewStore, TypeOK
  <2>5. OneHome'
    BY <2>1, <2>3, <2>4, <1>2 DEF NewStore, OneHome
  <2>6. \A j \in Lookups : lookup'[j].m = lookup[j].m
    BY <1>2 DEF NewStore, TypeOK
  <2>7. Begun'
    BY <2>1, <2>6, <1>2, <1>0 DEF NewStore, OneEvent, Begun
  <2>8. ASSUME NEW j \in Lookups, NEW p \in Peers
        PROVE  CallOK(p, call[j][p])'
    <3>1. call[j][p].fn = "ask"
      BY <2>1, <1>0 DEF OneEvent, CallOK
    <3> QED BY <3>1, <1>2 DEF NewStore, CallOK
  <2>9. Ranked' /\ FathersEarlier'
    BY <1>2, <1>0 DEF NewStore, eventVars, OneEvent, Ranked, FathersEarlier, Before, Rank
  <2> QED BY <2>5, <2>7, <2>8, <2>9 DEF OneEvent
<1>3. ASSUME NEW l \in Lookups, Seed(l)
      PROVE  OneEvent'
  <2>1. made = 1
    BY <1>3, <1>0 DEF Seed, OneEvent, Begun
  <2>2. \A j \in Lookups : lookup'[j].m = lookup[j].m
    BY <1>3 DEF Seed, TypeOK
  <2>3. Begun' /\ OneHome'
    BY <2>1, <2>2, <1>3, <1>0 DEF Seed, OneEvent, Begun, OneHome
  <2> QED BY <2>3, <1>c, <1>3 DEF Seed, OneEvent
<1>4. ASSUME NEW l \in Lookups, NEW p \in Peers, PeerNext(l, p)
      PROVE  OneEvent'
  <2>1. made' = made
    BY <1>4 DEF PeerNext, WantLoad, WantStore, ProviderLoad, ProviderStore, CloserStart,
                CloserSkip, CloserLoad, CloserStore, Learn
  <2> QED BY <2>1, <1>4, <1>0, PeerNextStep
<1>5. CASE CollectEnd
  <2>1. FPMonitor' = FPMonitor + 1 /\ FPMonitor \in Nat /\ FPMonitor' \in Monitors
    BY <1>5 DEF CollectEnd, TypeOK, Monitors
  <2>2. EventList[FPMonitor'] = 0
    BY <2>1, <1>0 DEF OneEvent, OneHome
  <2>3. OneHome'
    BY <2>1, <1>5, <1>0 DEF CollectEnd, OneEvent, OneHome, Monitors
  <2>4. Begun'
    <3>1. \A l \in Lookups : lookup[l].m \in Nat
      BY DEF TypeOK, Monitors
    <3> QED BY <2>1, <3>1, <1>5, <1>0 DEF CollectEnd, OneEvent, Begun
  <2> QED BY <2>2, <2>3, <2>4, <1>c, <1>5 DEF CollectEnd, eventVars, OneEvent
<1>6. CASE UNCHANGED <<FPMonitor, EventList, made, eventVars, asks, lookup, known, call>>
  <2>1. OneHome' /\ Begun'
    BY <1>6, <1>0 DEF OneEvent, OneHome, Begun
  <2> QED BY <2>1, <1>c, <1>6 DEF eventVars, OneEvent
<1>7. CASE CollectStart \/ CollectPick \/ CollectWalk \/ UNCHANGED vars
  BY <1>6, <1>7 DEF CollectStart, CollectPick, CollectWalk, vars
<1> QED
  BY <1>1, <1>2, <1>3, <1>4, <1>5, <1>7 DEF Next, LookupNext, CollectNext

-----------------------------------------------------------------------------
\* The invariant holds at the start and is kept by every step.
LEMMA InvInit == Init => IInv
<1> SUFFICES ASSUME Init PROVE IInv
  OBVIOUS
<1> USE MonitorAssumption, ZeroTyped
<1>1. TypeOK
  <2>1. call \in [Lookups -> [Peers -> Calls]]
    BY AtTyped DEF Init
  <2>2. collect = Idle /\ Idle.pe = 0 /\ Idle.todo = {} /\ Idle.current = NoPeer /\ Idle.at = "idle"
    BY DEF Init, Idle
  <2> QED BY <2>1, <2>2 DEF Init, TypeOK, Calls, Idle
<1>2. OneEvent
  <2>1. \A l \in Lookups, p \in Peers : call[l][p].fn = "ask"
    BY AtTyped DEF Init
  <2> QED BY <2>1 DEF Init, OneEvent, OneHome, Begun, Ranked, FathersEarlier, CallOK, Rank, Monitors
<1> QED BY <1>1, <1>2 DEF IInv

LEMMA InvNext == IInv /\ [Next]_vars => IInv'
BY TypeStep, OneEventStep DEF IInv

\* Types of the monitor, for any number of peers and lookups.
THEOREM TypeCorrect == Spec => []TypeOK
<1>1. IInv => TypeOK
  BY DEF IInv
<1> QED BY InvInit, InvNext, <1>1, PTL DEF Spec

\* In a set of numbers one is least, so among the peers of a cycle the one
\* asked first would have a father that was asked before it.
LEMMA NoCycle ==
    ASSUME TypeOK, FathersEarlier, NEW S \in SUBSET Peers, S # {}
    PROVE  \E c \in S : FirstGotCloserFrom[1][c] \notin S
<1> SUFFICES ASSUME \A c \in S : FirstGotCloserFrom[1][c] \in S
             PROVE  FALSE
  OBVIOUS
<1> USE MonitorAssumption
<1> DEFINE T == {Rank(FirstGotCloserFrom[1][c]) : c \in S}
           R == OpToRel(<, Nat)
<1>1. \A c \in S : Before(FirstGotCloserFrom[1][c], c)
  BY DEF FathersEarlier
<1>2. T \subseteq Nat /\ T # {}
  BY RankTyped
<1>3. PICK x \in T : \A y \in T : ~ (<<y, x>> \in R)
  <2> HIDE DEF T
  <2> QED BY <1>2, NatLessThanWellFounded, WFMin
<1>4. PICK c \in S : x = Rank(FirstGotCloserFrom[1][c])
  BY <1>3
<1>5. PICK f \in S : f = FirstGotCloserFrom[1][c]
  BY <1>4
<1>6. PICK g \in S : g = FirstGotCloserFrom[1][f]
  BY <1>5
<1>7. Rank(g) \in T /\ Rank(f) = x
  BY <1>4, <1>5, <1>6
<1>8. Rank(g) < Rank(f)
  BY <1>1, <1>5, <1>6, RankTyped DEF Before
<1>9. <<Rank(g), x>> \in R
  BY <1>2, <1>7, <1>8 DEF OpToRel
<1> QED BY <1>3, <1>7, <1>9

\* As long as one event of the multihash was made, its fathers form no cycle:
\* the critical path CollectFPMonitor walks is finite.
THEOREM CriticalPathsEnd == Spec => []PathsEnd
<1>1. IInv => PathsEnd
  <2> SUFFICES ASSUME IInv, made <= 1, NEW S \in SUBSET Peers, S # {}
               PROVE  \E c \in S : FirstGotCloserFrom[1][c] \notin S
    BY DEF PathsEnd
  <2> QED BY NoCycle DEF IInv, OneEvent
<1> QED BY InvInit, InvNext, <1>1, PTL DEF Spec

-----------------------------------------------------------------------------
(* Where critical paths begin *)

Rooted(p) == FirstGotCloserFrom[1][p] # NoPeer \/ \E l \in Lookups : p \in SeedsOf[l]

\* The monitor in use has no event of the multihash: no request is recorded any more.
NoEvent == EventList[FPMonitor] = 0

\* The peers the loop over the answer of p has passed are rooted, but for the one that is
\* about to be told a father.
CallRooted(p, k) ==
    /\ k.fn = "want" => Rooted(p)
    /\ k.fn \in {"closers", "father", "putback"} =>
          /\ EventList[k.m] = 0 => NoEvent
          /\ NoEvent \/ \A c \in ClosersOf[p] \ k.todo : Rooted(c) \/ (k.fn = "father" /\ k.c = c)

\* A peer that was asked is rooted, for so is every peer a lookup knows of.
AskedRooted ==
    /\ \A p \in Peers : Rank(p) > 0 => Rooted(p)
    /\ NoEvent \/ \A l \in Lookups : \A c \in known[l] : Rooted(c)
    /\ \A l \in Lookups, p \in Peers : CallRooted(p, call[l][p])

RootInv == made <= 1 => AskedRooted

LEMMA CallRootedStable ==
    ASSUME TypeOK, EventList' = EventList, NoEvent => NoEvent',
           \A q \in Peers : Rooted(q) => Rooted(q)',
           NEW p \in Peers, NEW k \in Calls, CallRooted(p, k)
    PROVE  CallRooted(p, k)'
<1>1. ClosersOf[p] \subseteq Peers
  BY MonitorAssumption
<1> HIDE DEF NoEvent
<1> QED
  BY <1>1 DEF CallRooted

\* What keeps the peers that were asked rooted: roots stay, and a peer that is asked or
\* learned is rooted.
LEMMA RootsKept ==
    ASSUME TypeOK, TypeOK', AskedRooted, EventList' = EventList, NoEvent => NoEvent',
           \A q \in Peers : Rooted(q) => Rooted(q)',
           \A q \in Peers : Rank(q)' > 0 => Rank(q) > 0 \/ Rooted(q)',
           NoEvent' \/ \A l \in Lookups : \A c \in known'[l] : c \in known[l] \/ Rooted(c)',
           \A l \in Lookups, q \in Peers :
              \/ call'[l][q] = call[l][q]
              \/ \E r \in Calls : r = call'[l][q] /\ CallRooted(q, r)'
    PROVE  AskedRooted'
<1> HIDE DEF NoEvent
<1>1. \A q \in Peers : Rank(q)' > 0 => Rooted(q)'
  BY DEF AskedRooted
<1>2. NoEvent' \/ \A l \in Lookups : \A c \in known'[l] : Rooted(c)'
  <2>1. \A l \in Lookups : known'[l] \subseteq Peers
    BY DEF TypeOK
  <2> QED
    BY <2>1 DEF AskedRooted
<1>3. ASSUME NEW l \in Lookups, NEW q \in Peers PROVE CallRooted(q, call[l][q])'
  <2>1. CASE call'[l][q] = call[l][q]
    <3>1. PICK k \in Calls : k = call[l][q]
      BY CallTyped
    <3>2. CallRooted(q, k)'
      BY <3>1, CallRootedStable DEF AskedRooted
    <3> QED
      BY <2>1, <3>1, <3>2
  <2>2. ASSUME NEW r \in Calls, r = call'[l][q], CallRooted(q, r)'
        PROVE  CallRooted(q, call[l][q])'
    BY <2>2
  <2> QED
    BY <2>1, <2>2
<1> QED
  BY <1>1, <1>2, <1>3 DEF AskedRooted

\* The steps of the goroutine of one peer.
LEMMA PeerNextRooted ==
    ASSUME TypeOK, TypeOK', OneEvent, AskedRooted,
           NEW l \in Lookups, NEW p \in Peers, PeerNext(l, p)
    PROVE  AskedRooted'
<1> USE MonitorAssumption, ZeroTyped
<1>k. PICK k \in Calls : k = call[l][p]
  BY CallTyped
<1>t. /\ k.m \in Monitors /\ k.pe \in 0 .. MaxEvents
      /\ k.todo \in SUBSET Peers /\ k.c \in Peers \cup {NoPeer}
      /\ CallOK(p, k) /\ CallRooted(p, k)
  BY <1>k DEF Calls, OneEvent, AskedRooted
<1>1. /\ FPMonitor \in Monitors
      /\ \A m \in Monitors : EventList[m] # 0 => EventList[m] = 1
      /\ ClosersOf[p] \subseteq Peers
  BY DEF TypeOK, OneEvent, OneHome
\* The records of the event stay, or change as given.
<1>q. ASSUME UNCHANGED <<FPMonitor, EventList>>, NEW r \in Calls, To(l, p, r), CallRooted(p, r)',
             \A q \in Peers : Rooted(q) => Rooted(q)',
             \A q \in Peers : Rank(q)' > 0 => Rank(q) > 0 \/ Rooted(q)',
             NoEvent' \/ \A j \in Lookups : \A c \in known'[j] : c \in known[j] \/ Rooted(c)'
      PROVE  AskedRooted'
  <2>1. ASSUME NEW j \in Lookups, NEW q \in Peers, call'[j][q] # call[j][q]
        PROVE  \E x \in Calls : x = call'[j][q] /\ CallRooted(q, x)'
    <3>1. q = p /\ call'[j][q] = r
      BY <1>q, <2>1, CallStep
    <3> QED
      BY <1>q, <3>1
  <2>2. NoEvent => NoEvent'
    BY <1>q DEF NoEvent
  <2> HIDE DEF NoEvent
  <2> QED
    BY <1>q, <2>1, <2>2, RootsKept
<1>s. ASSUME UNCHANGED <<FPMonitor, EventList, FirstRequestTime, FirstGotCloserFrom, known>>,
             NEW r \in Calls, To(l, p, r), CallRooted(p, r)
      PROVE  AskedRooted'
  <2>1. /\ \A q \in Peers : (Rooted(q) <=> Rooted(q)') /\ Rank(q)' = Rank(q)
        /\ NoEvent' <=> NoEvent
    BY <1>s DEF Rooted, Rank, NoEvent
  <2>2. CallRooted(p, r)'
    BY <1>s, <2>1, CallRootedStable
  <2> QED
    BY <1>q, <1>s, <2>1, <2>2
<1>a. CASE WantLoad(l, p)
  <2>1. CASE EventList[FPMonitor] # 0 /\ FirstRequestTime[EventList[FPMonitor]][p] = 0
    <3>1. PICK r \in Calls : /\ r = At("want", FPMonitor, EventList[FPMonitor], {}, NoPeer)
                             /\ r.fn = "want"
      BY <2>1, <1>1, AtTyped
    <3>2. Rooted(p)
      BY <1>a, <2>1 DEF WantLoad, AskedRooted, NoEvent
    <3>3. To(l, p, r)
      BY <1>a, <2>1, <3>1 DEF WantLoad
    <3> QED
      BY <1>a, <1>s, <3>1, <3>2, <3>3 DEF WantLoad, eventVars, CallRooted
  <2>2. CASE ~(EventList[FPMonitor] # 0 /\ FirstRequestTime[EventList[FPMonitor]][p] = 0)
    <3>1. PICK r \in Calls : r = At("asked", 0, 0, {}, NoPeer) /\ r.fn = "asked"
      BY AtTyped
    <3>2. To(l, p, r)
      BY <1>a, <2>2, <3>1 DEF WantLoad
    <3> QED
      BY <1>a, <1>s, <3>1, <3>2 DEF WantLoad, eventVars, CallRooted
  <2> QED
    BY <2>1, <2>2
<1>b. CASE WantStore(l, p)
  <2>1. k.fn = "want" /\ k.pe = 1 /\ EventList[k.m] = 1
    BY <1>b, <1>k, <1>t DEF WantStore, CallOK
  <2>2. UNCHANGED <<EventList, FPMonitor, FirstGotCloserFrom, known>>
    BY <1>b, <1>k, <2>1 DEF WantStore, TypeOK
  <2>3. \A q \in Peers \ {p} : Rank(q)' = Rank(q)
    <3>1. FirstRequestTime[1] \in [Peers -> Nat]
      BY DEF TypeOK
    <3> QED
      BY <1>b, <1>k, <2>1, <3>1 DEF WantStore, TypeOK, Rank
  <2>4. Rooted(p)
    BY <2>1, <1>t DEF CallRooted
  <2>5. PICK r \in Calls : r = At("asked", 0, 0, {}, NoPeer) /\ r.fn = "asked"
    BY AtTyped
  <2>6. To(l, p, r) /\ CallRooted(p, r)'
    BY <1>b, <2>5 DEF WantStore, CallRooted
  <2>7. \A q \in Peers : Rooted(q) <=> Rooted(q)'
    BY <2>2 DEF Rooted
  <2> QED
    BY <1>q, <2>2, <2>3, <2>4, <2>6, <2>7
<1>d. CASE ProviderLoad(l, p)
  <2>1. PICK r \in Calls : /\ r = At("provider", FPMonitor, EventList[FPMonitor], {}, NoPeer)
                           /\ r.fn = "provider"
    <3>1. EventList[FPMonitor] \in 0 .. MaxEvents
      BY DEF TypeOK
    <3> QED
      BY <1>1, <3>1, AtTyped
  <2>2. To(l, p, r)
    BY <1>d, <2>1 DEF ProviderLoad
  <2> QED
    BY <1>d, <1>s, <2>1, <2>2 DEF ProviderLoad, eventVars, CallRooted
<1>f. CASE ProviderStore(l, p)
  <2>1. k.pe = 1 /\ EventList[k.m] = 1
    BY <1>f, <1>k, <1>t DEF ProviderStore, CallOK
  <2>2. EventList' = EventList
    BY <1>f, <1>k, <2>1 DEF ProviderStore, TypeOK
  <2>3. PICK r \in Calls : r = At("answered", 0, 0, {}, NoPeer) /\ r.fn = "answered"
    BY AtTyped
  <2>4. To(l, p, r)
    BY <1>f, <2>3 DEF ProviderStore
  <2> QED
    BY <1>f, <1>s, <2>2, <2>3, <2>4 DEF ProviderStore, CallRooted
<1>g. CASE CloserStart(l, p)
  <2>1. PICK r \in Calls : /\ r = At("closers", FPMonitor, 0, ClosersOf[p], NoPeer)
                           /\ r.fn = "closers" /\ r.m = FPMonitor /\ r.todo = ClosersOf[p]
    BY <1>1, AtTyped
  <2>2. To(l, p, r)
    BY <1>g, <2>1 DEF CloserStart
  <2>3. CallRooted(p, r)
    BY <2>1 DEF CallRooted, NoEvent
  <2> QED
    BY <1>g, <1>s, <2>2, <2>3 DEF CloserStart, eventVars
<1>h. CASE CloserSkip(l, p)
  <2>1. k.fn = "closers" /\ NoEvent
    BY <1>h, <1>k, <1>t DEF CloserSkip, CallRooted
  <2>2. PICK c \in k.todo : To(l, p, [k EXCEPT !.todo = @ \ {c}])
    BY <1>h, <1>k DEF CloserSkip
  <2>3. PICK r \in Calls : r = [k EXCEPT !.todo = @ \ {c}]
    BY <1>t DEF Calls
  <2>4. r.fn = "closers"
    BY <2>1, <2>3, <1>t DEF Calls
  <2>5. CallRooted(p, r)
    BY <2>1, <2>4 DEF CallRooted
  <2> QED
    BY <1>h, <1>s, <2>2, <2>3, <2>5 DEF CloserSkip, eventVars
<1>i. CASE CloserLoad(l, p)
  <2>1. k.fn = "closers" /\ EventList[k.m] = 1
    BY <1>i, <1>k, <1>1, <1>t DEF CloserLoad
  <2>2. PICK c \in k.todo :
            To(l, p, At(IF Fresh(1, c) THEN "father" ELSE "putback", k.m, 1, k.todo \ {c}, c))
    BY <1>i, <1>k, <2>1 DEF CloserLoad
  <2>3. NoEvent \/ \A d \in ClosersOf[p] \ k.todo : Rooted(d)
    BY <2>1, <1>t DEF CallRooted
  <2>4. PICK r \in Calls : /\ r = At(IF Fresh(1, c) THEN "father" ELSE "putback", k.m, 1,
                                     k.todo \ {c}, c)
                           /\ r.fn = IF Fresh(1, c) THEN "father" ELSE "putback"
                           /\ r.m = k.m /\ r.todo = k.todo \ {c} /\ r.c = c
    <3>1. (IF Fresh(1, c) THEN "father" ELSE "putback") \in {"father", "putback"}
      OBVIOUS
    <3>2. 1 \in 0 .. MaxEvents /\ k.todo \ {c} \in SUBSET Peers /\ c \in Peers \cup {NoPeer}
      BY <1>t
    <3> QED
      BY <1>t, <3>1, <3>2, AtTyped
  <2>5. ~Fresh(1, c) => Rooted(c)
    <3>1. c \in Peers
      BY <1>t
    <3> QED
      BY <3>1, RankTyped DEF Fresh, AskedRooted, Rooted, Rank
  <2>6. CallRooted(p, r)
    <3>1. r.fn \in {"father", "putback"} /\ (EventList[r.m] = 0 => NoEvent)
      BY <2>1, <2>4
    <3>2. Rooted(c) \/ (r.fn = "father" /\ r.c = c)
      BY <2>4, <2>5
    <3>3. ASSUME ~NoEvent, NEW d \in ClosersOf[p] \ r.todo
          PROVE  Rooted(d) \/ (r.fn = "father" /\ r.c = d)
      <4>1. d = c \/ d \in ClosersOf[p] \ k.todo
        BY <2>4, <3>3
      <4> QED
        BY <2>3, <3>2, <3>3, <4>1
    <3> QED
      BY <3>1, <3>3 DEF CallRooted
  <2> QED
    BY <1>i, <1>s, <2>2, <2>4, <2>6 DEF CloserLoad, eventVars
<1>j. CASE CloserStore(l, p)
  <2>1. k.fn \in {"father", "putback"} /\ k.pe = 1 /\ EventList[k.m] = 1
    BY <1>j, <1>k, <1>t DEF CloserStore, CallOK
  <2>2. EventList' = EventList
    BY <1>j, <1>k, <2>1 DEF CloserStore, TypeOK
  <2>3. FirstGotCloserFrom[1] \in [Peers -> Peers \cup {NoPeer}]
    BY DEF TypeOK
  <2>4. \A q \in Peers : Rooted(q) \/ (k.fn = "father" /\ q = k.c) => Rooted(q)'
    <3>1. CASE k.fn = "father"
      <4>1. \A q \in Peers : FirstGotCloserFrom'[1][q] = IF q = k.c THEN p ELSE FirstGotCloserFrom[1][q]
        BY <1>j, <1>k, <2>1, <2>3, <3>1 DEF CloserStore, TypeOK
      <4> QED
        BY <4>1 DEF Rooted
    <3>2. CASE k.fn # "father"
      BY <1>j, <1>k, <2>1, <3>2 DEF CloserStore, Rooted
    <3> QED
      BY <3>1, <3>2
  <2>5. PICK r \in Calls : /\ r = At("closers", k.m, 0, k.todo, NoPeer)
                           /\ r.fn = "closers" /\ r.m = k.m /\ r.todo = k.todo
    BY AtTyped, <1>t
  <2>6. To(l, p, r) /\ UNCHANGED <<FPMonitor, FirstRequestTime, known>>
    BY <1>j, <1>k, <2>5 DEF CloserStore
  <2>7. NoEvent' <=> NoEvent
    BY <2>2, <2>6 DEF NoEvent
  <2>8. CallRooted(p, r)'
    <3>1. NoEvent \/ \A d \in ClosersOf[p] \ k.todo : Rooted(d) \/ (k.fn = "father" /\ d = k.c)
      BY <2>1, <1>t DEF CallRooted
    <3>2. NoEvent' \/ \A d \in ClosersOf[p] \ k.todo : Rooted(d)'
      BY <2>4, <2>7, <3>1, <1>1
    <3> QED
      BY <2>1, <2>2, <2>5, <3>2 DEF CallRooted
  <2>9. \A q \in Peers : Rank(q)' = Rank(q)
    BY <2>6 DEF Rank
  <2> QED
    BY <1>q, <2>2, <2>4, <2>6, <2>8, <2>9
<1>m. CASE Learn(l, p)
  <2>1. k.fn = "closers" /\ k.todo = {}
    BY <1>m, <1>k DEF Learn
  <2>2. NoEvent \/ \A c \in ClosersOf[p] : Rooted(c)
    BY <2>1, <1>t DEF CallRooted
  <2>3. PICK r \in Calls : r = At("done", 0, 0, {}, NoPeer) /\ r.fn = "done"
    BY AtTyped
  <2>4. To(l, p, r) /\ UNCHANGED <<FPMonitor, EventList, FirstRequestTime, FirstGotCloserFrom>>
    BY <1>m, <2>3 DEF Learn, eventVars
  <2>5. \A q \in Peers : (Rooted(q) <=> Rooted(q)') /\ Rank(q)' = Rank(q)
    BY <2>4 DEF Rooted, Rank
  <2>6. NoEvent' <=> NoEvent
    BY <2>4 DEF NoEvent
  <2>7. \A j \in Lookups : \A c \in known'[j] : c \in known[j] \/ c \in ClosersOf[p]
    BY <1>m DEF Learn, TypeOK
  <2>8. CallRooted(p, r)'
    BY <2>3 DEF CallRooted
  <2>9. NoEvent' \/ \A j \in Lookups : \A c \in known'[j] : c \in known[j] \/ Rooted(c)'
    BY <2>2, <2>5, <2>6, <2>7, <1>1
  <2> QED
    BY <1>q, <2>4, <2>5, <2>8, <2>9
<1> QED
  BY <1>a, <1>b, <1>d, <1>f, <1>g, <1>h, <1>i, <1>j, <1>m DEF PeerNext

\* The steps of lookups and of the goroutine that collects.
LEMMA RootStep ==
    ASSUME IInv, IInv', RootInv, [Next]_vars
    PROVE  RootInv'
<1> SUFFICES ASSUME made' <= 1 PROVE AskedRooted'
  BY DEF RootInv
<1> USE MonitorAssumption, ZeroTyped
<1>0. TypeOK /\ TypeOK'
  BY DEF IInv
<1>1. made <= 1
  <2>1. made \in Nat /\ made' \in Nat
    BY <1>0 DEF TypeOK
  <2>2. ASSUME NEW l \in Lookups, LookupNext(l)
        PROVE  made' \in {made, made + 1}
    BY <2>2 DEF LookupNext, NewLoad, NewStore, Seed
  <2>3. ASSUME NEW l \in Lookups, NEW p \in Peers, PeerNext(l, p)
        PROVE  made' \in {made, made + 1}
    BY <2>3 DEF PeerNext, WantLoad, WantStore, ProviderLoad, ProviderStore, CloserStart,
                CloserSkip, CloserLoad, CloserStore, Learn
  <2>4. ASSUME CollectStart \/ CollectNext \/ UNCHANGED vars
        PROVE  made' \in {made, made + 1}
    BY <2>4 DEF CollectNext, CollectStart, CollectPick, CollectWalk, CollectEnd, vars
  <2> QED
    BY <2>1, <2>2, <2>3, <2>4 DEF Next
<1>2. OneEvent /\ AskedRooted
  BY <1>1 DEF IInv, RootInv
<1>3. ASSUME UNCHANGED <<EventList, FirstRequestTime, FirstGotCloserFrom, call>>,
             NoEvent => NoEvent',
             \A l \in Lookups : \A c \in known'[l] : c \in known[l] \/ c \in SeedsOf[l]
      PROVE  AskedRooted'
  <2>1. \A q \in Peers : (Rooted(q) <=> Rooted(q)') /\ Rank(q)' = Rank(q)
    BY <1>3 DEF Rooted, Rank
  <2>2. \A l \in Lookups : \A c \in known'[l] : c \in known[l] \/ Rooted(c)'
    BY <1>3 DEF Rooted
  <2> HIDE DEF NoEvent
  <2> QED
    BY <1>0, <1>2, <1>3, <2>1, <2>2, RootsKept
<1>4. ASSUME NEW l \in Lookups, NewLoad(l) PROVE AskedRooted'
  BY <1>3, <1>4 DEF NewLoad, eventVars, NoEvent
\* Before there is an event no lookup knows a peer.
<1>5. ASSUME NEW l \in Lookups, NewStore(l) PROVE AskedRooted'
  <2>1. made = 0
    BY <1>0, <1>5 DEF NewStore, TypeOK
  <2>2. UNCHANGED <<FirstRequestTime, FirstGotCloserFrom, known, call>>
    BY <1>5 DEF NewStore, eventVars
  <2>3. \A q \in Peers : (Rooted(q) <=> Rooted(q)') /\ Rank(q)' = Rank(q)
    BY <2>2 DEF Rooted, Rank
  <2>4. \A k \in Lookups : known'[k] = {}
    BY <1>2, <2>1, <2>2 DEF OneEvent, Begun
  <2>5. ASSUME NEW k \in Lookups, NEW q \in Peers PROVE CallRooted(q, call[k][q])'
    <3>1. call'[k][q].fn = "ask"
      BY <1>2, <2>1, <2>2 DEF OneEvent, CallOK
    <3> QED
      BY <3>1 DEF CallRooted
  <2> QED
    BY <1>2, <2>3, <2>4, <2>5 DEF AskedRooted
<1>6. ASSUME NEW l \in Lookups, Seed(l) PROVE AskedRooted'
  <2>1. \A k \in Lookups : known'[k] = IF k = l THEN SeedsOf[l] ELSE known[k]
    BY <1>0, <1>6 DEF Seed, TypeOK
  <2> QED
    BY <1>3, <1>6, <2>1 DEF Seed, NoEvent
<1>7. ASSUME NEW l \in Lookups, NEW p \in Peers, PeerNext(l, p) PROVE AskedRooted'
  BY <1>0, <1>2, <1>7, PeerNextRooted
\* A new monitor has no event, and gets none.
<1>8. CASE CollectEnd
  <2>1. FPMonitor' = FPMonitor + 1 /\ FPMonitor \in Nat /\ FPMonitor' \in Monitors
    BY <1>0, <1>8 DEF CollectEnd, TypeOK, Monitors
  <2>2. NoEvent'
    BY <1>2, <1>8, <2>1 DEF CollectEnd, OneEvent, OneHome, NoEvent
  <2> QED
    BY <1>3, <1>8, <2>2 DEF CollectEnd, eventVars
<1>9. CASE CollectStart \/ CollectPick \/ CollectWalk \/ UNCHANGED vars
  BY <1>3, <1>9 DEF CollectStart, CollectPick, CollectWalk, vars, eventVars, NoEvent
<1> QED
  BY <1>4, <1>5, <1>6, <1>7, <1>8, <1>9 DEF Next, LookupNext, CollectNext

\* Theorem: as long as one event of the multihash was made, a peer that was asked has a father
\* or some lookup started from it, however the handlers of several lookups interleave and
\* whenever the monitor is replaced.
THEOREM CriticalPathsBeginAtSeeds == Spec => []PathsBeginAtSeeds
<1>1. Init => RootInv
  <2> SUFFICES ASSUME Init PROVE AskedRooted
    BY DEF RootInv
  <2>1. \A l \in Lookups, p \in Peers : call[l][p].fn = "ask"
    BY AtTyped, MonitorAssumption, ZeroTyped DEF Init
  <2>2. \A p \in Peers : Rank(p) = 0
    BY ZeroTyped DEF Init, Rank
  <2>3. \A l \in Lookups : known[l] = {}
    BY DEF Init
  <2> QED
    BY <2>1, <2>2, <2>3 DEF AskedRooted, CallRooted
<1>2. IInv /\ RootInv /\ [Next]_vars => IInv' /\ RootInv'
  BY InvNext, RootStep
<1>3. IInv /\ RootInv => PathsBeginAtSeeds
  <2> SUFFICES ASSUME AskedRooted, NEW p \in Peers, FirstRequestTime[1][p] > 0,
                      FirstGotCloserFrom[1][p] = NoPeer
               PROVE  \E l \in Lookups : p \in SeedsOf[l]
    BY DEF RootInv, PathsBeginAtSeeds
  <2> QED
    BY DEF AskedRooted, Rooted, Rank
<1> QED
  BY InvInit, <1>1, <1>2, <1>3, PTL DEF Spec
=============================================================================
