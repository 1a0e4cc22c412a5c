------------------------- MODULE FindProviderMonitor -------------------------
(***************************************************************************)
(* The record FindProviderMonitor keeps of how the providers of one        *)
(* multihash are found.  Lookups of the routing call its handlers from     *)
(* several goroutines, one per peer they have asked; a downloader collects *)
(* the record and replaces the monitor while lookups may still run.        *)
(*                                                                         *)
(* A ProviderEvent is a number, 0 for none; so is a monitor, counted by    *)
(* the times it was replaced.  Every handler loads the event, tests its    *)
(* maps, and stores: two steps.  Of the times of an event only the order   *)
(* of the first requests is kept.  The lookup itself is external: it asks  *)
(* the peers it knows, and learns the peers an answer names once the       *)
(* handler of the answer is over.                                          *)
(***************************************************************************)
EXTENDS Integers

CONSTANTS
    Peers,          \* peers of the routing
    NoPeer,         \* in place of a peer: none
    Lookups,        \* calls of FindProvidersAsync for the multihash
    SeedsOf,        \* SeedsOf[l]: peers lookup l starts from
    ClosersOf,      \* ClosersOf[p]: closer peers p answers with
    MaxEvents,      \* cap on ProviderEvents made (bound)
    MaxCollects     \* cap on calls of CollectFPMonitor (bound)

ASSUME MonitorAssumption ==
    /\ NoPeer \notin Peers
    /\ SeedsOf \in [Lookups -> SUBSET Peers]
    /\ ClosersOf \in [Peers -> SUBSET Peers]
    /\ MaxEvents \in Nat \ {0} /\ MaxCollects \in Nat

Monitors == 0 .. MaxCollects
Events == 1 .. MaxEvents

VARIABLES
    FPMonitor,              \* the monitor in use
    EventList,              \* of each monitor: its event of the multihash
    made,                   \* events made so far
    SeedPeers,              \* of each event
    FirstRequestTime,       \* of each event and peer: rank, or 0 if absent
    FirstGotCloserFrom,     \* of each event and peer: the father, or NoPeer
    FirstGotProviderFrom,   \* of each event: peers that named a provider first
    asks,                   \* first requests so far
    lookup,                 \* of each lookup: how far it is, its receiver
    known,                  \* of each lookup: peers it knows
    call,                   \* of each lookup and peer: where its goroutine is
    collect                 \* the goroutine that collects

eventVars == <<SeedPeers, FirstRequestTime, FirstGotCloserFrom, FirstGotProviderFrom>>
vars == <<FPMonitor, EventList, made, eventVars, asks, lookup, known, call, collect>>

At(fn, m, pe, todo, c) == [fn |-> fn, m |-> m, pe |-> pe, todo |-> todo, c |-> c]
Idle == [at |-> "idle", m |-> 0, pe |-> 0, todo |-> {}, current |-> NoPeer]

Init ==
    /\ FPMonitor = 0
    /\ EventList = [m \in Monitors |-> 0]
    /\ made = 0
    /\ SeedPeers = [e \in Events |-> {}]
    /\ FirstRequestTime = [e \in Events |-> [p \in Peers |-> 0]]
    /\ FirstGotCloserFrom = [e \in Events |-> [p \in Peers |-> NoPeer]]
    /\ FirstGotProviderFrom = [e \in Events |-> {}]
    /\ asks = 0
    /\ lookup = [l \in Lookups |-> [at |-> "idle", m |-> 0]]
    /\ known = [l \in Lookups |-> {}]
    /\ call = [l \in Lookups |-> [p \in Peers |-> At("ask", 0, 0, {}, NoPeer)]]
    /\ collect = Idle

-----------------------------------------------------------------------------
(* A lookup begins *)

\* NewProviderEvent adds the event only if it is not there ...
NewLoad(l) ==
    /\ lookup[l].at = "idle"
    /\ lookup' = [lookup EXCEPT ![l] =
            [at |-> IF EventList[FPMonitor] = 0 THEN "new" ELSE "seed", m |-> FPMonitor]]
    /\ UNCHANGED <<FPMonitor, EventList, made, eventVars, asks, known, call, collect>>

\* ... when it looked.
NewStore(l) ==
    /\ lookup[l].at = "new" /\ made < MaxEvents
    /\ made' = made + 1
    /\ EventList' = [EventList EXCEPT ![lookup[l].m] = made + 1]
    /\ lookup' = [lookup EXCEPT ![l].at = "seed"]
    /\ UNCHANGED <<FPMonitor, eventVars, asks, known, call, collect>>

\* The first seeds stay.
Seed(l) ==
    LET pe == EventList[FPMonitor] IN
    /\ lookup[l].at = "seed"
    /\ lookup' = [lookup EXCEPT ![l].at = "run"]
    /\ known' = [known EXCEPT ![l] = SeedsOf[l]]
    /\ SeedPeers' = IF pe # 0 /\ SeedPeers[pe] = {}
                    THEN [SeedPeers EXCEPT ![pe] = SeedsOf[l]] ELSE SeedPeers
    /\ UNCHANGED <<FPMonitor, EventList, made, FirstRequestTime, FirstGotCloserFrom,
                   FirstGotProviderFrom, asks, call, collect>>

-----------------------------------------------------------------------------
(* The goroutine of lookup l for peer p *)

To(l, p, record) == call' = [call EXCEPT ![l][p] = record]

WantLoad(l, p) ==
    LET pe == EventList[FPMonitor] IN
    /\ p \in known[l] /\ call[l][p].fn = "ask"
    /\ IF pe # 0 /\ FirstRequestTime[pe][p] = 0
       THEN To(l, p, At("want", FPMonitor, pe, {}, NoPeer))
       ELSE To(l, p, At("asked", 0, 0, {}, NoPeer))
    /\ UNCHANGED <<FPMonitor, EventList, made, eventVars, asks, lookup, known, collect>>

\* SendNodeWant puts the event it changed back into the list.  The request of
\* another lookup may have come first: the peer keeps its rank.
WantStore(l, p) ==
    LET k == call[l][p] IN
    /\ k.fn = "want"
    /\ FirstRequestTime' = IF FirstRequestTime[k.pe][p] = 0
                           THEN [FirstRequestTime EXCEPT ![k.pe][p] = asks + 1]
                           ELSE FirstRequestTime
    /\ asks' = IF FirstRequestTime[k.pe][p] = 0 THEN asks + 1 ELSE asks
    /\ EventList' = [EventList EXCEPT ![k.m] = k.pe]
    /\ To(l, p, At("asked", 0, 0, {}, NoPeer))
    /\ UNCHANGED <<FPMonitor, made, SeedPeers, FirstGotCloserFrom, FirstGotProviderFrom,
                   lookup, known, collect>>

\* An answer may name a provider that is not in FirstGotProviderFrom yet.
ProviderLoad(l, p) ==
    LET pe == EventList[FPMonitor] IN
    /\ call[l][p].fn = "asked" /\ pe # 0
    /\ To(l, p, At("provider", FPMonitor, pe, {}, NoPeer))
    /\ UNCHANGED <<FPMonitor, EventList, made, eventVars, asks, lookup, known, collect>>

ProviderStore(l, p) ==
    LET k == call[l][p] IN
    /\ k.fn = "provider"
    /\ FirstGotProviderFrom' = [FirstGotProviderFrom EXCEPT ![k.pe] = @ \cup {p}]
    /\ EventList' = [EventList EXCEPT ![k.m] = k.pe]
    /\ To(l, p, At("answered", 0, 0, {}, NoPeer))
    /\ UNCHANGED <<FPMonitor, made, SeedPeers, FirstRequestTime, FirstGotCloserFrom,
                   asks, lookup, known, collect>>

\* GotCloserFrom goes through the closer peers, in the order of the answer.
CloserStart(l, p) ==
    /\ call[l][p].fn \in {"asked", "answered"}
    /\ To(l, p, At("closers", FPMonitor, 0, ClosersOf[p], NoPeer))
    /\ UNCHANGED <<FPMonitor, EventList, made, eventVars, asks, lookup, known, collect>>

\* Mutant: the loop over the closer peers ends early.
BugLeavesLoop(l, p) ==
    LET k == call[l][p] IN
    /\ k.fn = "closers"
    /\ \E c \in k.todo : To(l, p, [k EXCEPT !.todo = {}])
    /\ UNCHANGED <<FPMonitor, EventList, made, eventVars, asks, lookup, known, collect>>

CloserSkip(l, p) ==
    LET k == call[l][p] IN
    /\ k.fn = "closers" /\ EventList[k.m] = 0
    /\ \E c \in k.todo : To(l, p, [k EXCEPT !.todo = @ \ {c}])
    /\ UNCHANGED <<FPMonitor, EventList, made, eventVars, asks, lookup, known, collect>>

\* Mutant: it is not tested whether the peer was asked already.
BugFatherOnly(pe, c) == FirstGotCloserFrom[pe][c] = NoPeer

\* Neither told of nor asked before: !ok && !ok3.
Fresh(pe, c) == FirstGotCloserFrom[pe][c] = NoPeer /\ FirstRequestTime[pe][c] = 0

CloserLoad(l, p) ==
    LET k == call[l][p]
        pe == EventList[k.m] IN
    /\ k.fn = "closers" /\ pe # 0
    /\ \E c \in k.todo :
            To(l, p, At(IF Fresh(pe, c) THEN "father" ELSE "putback", k.m, pe, k.todo \ {c}, c))
    /\ UNCHANGED <<FPMonitor, EventList, made, eventVars, asks, lookup, known, collect>>

CloserStore(l, p) ==
    LET k == call[l][p] IN
    /\ k.fn \in {"father", "putback"}
    /\ FirstGotCloserFrom' = IF k.fn = "father"
                             THEN [FirstGotCloserFrom EXCEPT ![k.pe][k.c] = p]
                             ELSE FirstGotCloserFrom
    /\ EventList' = [EventList EXCEPT ![k.m] = k.pe]
    /\ To(l, p, At("closers", k.m, 0, k.todo, NoPeer))
    /\ UNCHANGED <<FPMonitor, made, SeedPeers, FirstRequestTime, FirstGotProviderFrom,
                   asks, lookup, known, collect>>

Learn(l, p) ==
    /\ call[l][p].fn = "closers" /\ call[l][p].todo = {}
    /\ known' = [known EXCEPT ![l] = @ \cup ClosersOf[p]]
    /\ To(l, p, At("done", 0, 0, {}, NoPeer))
    /\ UNCHANGED <<FPMonitor, EventList, made, eventVars, asks, lookup, collect>>

-----------------------------------------------------------------------------
(* CollectFPMonitor *)

CollectStart ==
    LET pe == EventList[FPMonitor] IN
    /\ collect.at = "idle" /\ FPMonitor < MaxCollects
    /\ collect' = [at |-> "walk", m |-> FPMonitor, pe |-> pe, current |-> NoPeer,
                   todo |-> IF pe = 0 THEN {} ELSE FirstGotProviderFrom[pe]]
    /\ UNCHANGED <<FPMonitor, EventList, made, eventVars, asks, lookup, known, call>>

CollectPick ==
    /\ collect.at = "walk" /\ collect.current = NoPeer
    /\ \E from \in collect.todo :
            collect' = [collect EXCEPT !.current = from, !.todo = @ \ {from}]
    /\ UNCHANGED <<FPMonitor, EventList, made, eventVars, asks, lookup, known, call>>

\* The critical path of one provider, a peer a step, up to a seed or a peer
\* nobody told of.
Father(p) ==
    IF p \in SeedPeers[EventList[collect.m]] THEN NoPeer ELSE FirstGotCloserFrom[collect.pe][p]

CollectWalk ==
    /\ collect.at = "walk" /\ collect.current # NoPeer
    /\ collect' = [collect EXCEPT !.current = Father(collect.current)]
    /\ UNCHANGED <<FPMonitor, EventList, made, eventVars, asks, lookup, known, call>>

CollectEnd ==
    /\ collect.at = "walk" /\ collect.current = NoPeer /\ collect.todo = {}
    /\ FPMonitor' = FPMonitor + 1
    /\ collect' = Idle
    /\ UNCHANGED <<EventList, made, eventVars, asks, lookup, known, call>>

-----------------------------------------------------------------------------
LookupNext(l) == NewLoad(l) \/ NewStore(l) \/ Seed(l)

PeerNext(l, p) ==
    \/ WantLoad(l, p) \/ WantStore(l, p) \/ ProviderLoad(l, p) \/ ProviderStore(l, p)
    \/ CloserStart(l, p) \/ CloserSkip(l, p) \/ CloserLoad(l, p) \/ CloserStore(l, p)
    \/ Learn(l, p)

CollectNext == CollectPick \/ CollectWalk \/ CollectEnd

Next ==
    \/ \E l \in Lookups : LookupNext(l) \/ \E p \in Peers : PeerNext(l, p)
    \/ CollectStart \/ CollectNext

\* A goroutine that collects is scheduled again and again.
Spec == Init /\ [][Next]_vars /\ WF_vars(CollectNext)

-----------------------------------------------------------------------------
\* Types of the monitor and of the goroutines that write to it.
TypeOK ==
    /\ FPMonitor \in Monitors
    /\ EventList \in [Monitors -> 0 .. MaxEvents]
    /\ made \in 0 .. MaxEvents
    /\ SeedPeers \in [Events -> SUBSET Peers]
    /\ FirstRequestTime \in [Events -> [Peers -> Nat]]
    /\ FirstGotCloserFrom \in [Events -> [Peers -> Peers \cup {NoPeer}]]
    /\ FirstGotProviderFrom \in [Events -> SUBSET Peers]
    /\ asks \in Nat
    /\ lookup \in [Lookups -> [at : {"idle", "new", "seed", "run"}, m : Monitors]]
    /\ known \in [Lookups -> SUBSET Peers]
    /\ call \in [Lookups -> [Peers ->
            [fn : {"ask", "want", "asked", "provider", "answered", "closers", "father",
                   "putback", "done"},
             m : Monitors, pe : 0 .. MaxEvents, todo : SUBSET Peers,
             c : Peers \cup {NoPeer}]]]
    /\ collect \in [at : {"idle", "walk"}, m : Monitors, pe : 0 .. MaxEvents,
                    todo : SUBSET Peers, current : Peers \cup {NoPeer}]
    /\ collect.pe = 0 => collect.todo = {} /\ collect.current = NoPeer
    /\ collect.at = "walk" => FPMonitor < MaxCollects

\* As long as one event was made, however many lookups write to it and in
\* whatever order, every walk up the fathers comes to an end: no set of peers
\* has all its fathers inside (findProviderMonitor.go:32, the critical path).
PathsEnd ==
    made <= 1 => \A S \in (SUBSET Peers) \ {{}} :
                    \E c \in S : FirstGotCloserFrom[1][c] \notin S

\* As long as one event was made, a critical path begins at a peer some lookup
\* started from: a peer that was asked has a father or is a seed.
PathsBeginAtSeeds ==
    made <= 1 => \A p \in Peers :
        /\ FirstRequestTime[1][p] > 0
        /\ FirstGotCloserFrom[1][p] = NoPeer
        => \E l \in Lookups : p \in SeedsOf[l]

\* The first peer that named a provider begins "a critical path lead us to a
\* provider" (findProviderMonitor.go:32): in every event the walk from it comes
\* to a seed or to a peer without father.
EveryPathEnds ==
    \A e \in Events : \A S \in SUBSET (Peers \ SeedPeers[e]) :
        S \cap FirstGotProviderFrom[e] # {} => \E c \in S : FirstGotCloserFrom[e][c] \notin S

\* As long as one event was made, a collection ends although lookups go on
\* changing the fathers it walks along (metrics.go:324, the loop without exit).
CollectEnds == [](made <= 1) => (collect.at = "walk" ~> collect.at = "idle")
=============================================================================
