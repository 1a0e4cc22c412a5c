---------------------------- MODULE BlockMonitor ----------------------------
(***************************************************************************)
(* What metrics/monitor.go records of one block.  The handlers are given   *)
(* as functions of the event they loaded: the code loads a BlockEvent from *)
(* EventList, changes the copy and stores it, or does not store it, which  *)
(* is the empty set here.  Download interleaves them.                      *)
(*                                                                         *)
(* Times in an event are ticks of a clock, 0 is ZeroTime; the start and    *)
(* the finish of a file are marks, because only whose they are matters.    *)
(* Level and the counts TotalBlocks and TotalFetches only weigh            *)
(* ModeledTime and are left out.                                           *)
(***************************************************************************)
EXTENDS Integers, FiniteSetsExt

CONSTANTS Blocks, Peers

NoTimes == [p \in Peers |-> 0]

NewEvent ==
    [BlockServiceGet |-> 0, GetBlocksRequest |-> 0, FirstWantTo |-> NoTimes,
     FirstFindProvider |-> 0, FirstGotProvider |-> NoTimes, FirstReceive |-> 0,
     ReceiveFrom |-> "", FirstPutStore |-> 0, BeginVisit |-> 0, FinishVisit |-> 0,
     NumOfRedundantReqs |-> 0, NumOfRedundantBlks |-> 0]

\* A monitor; the empty EventList is the function on no block.
NewMonitor ==
    [EventList |-> [c \in {} |-> NewEvent], Root |-> "", GetStartTime |-> <<>>, GetFinishTime |-> <<>>]

-----------------------------------------------------------------------------
(* Handlers: the events they may store, given the event they loaded *)

BlockServiceGet(be, t) == {[be EXCEPT !.BlockServiceGet = t]}
BitswapGet(be, t) == {[be EXCEPT !.GetBlocksRequest = t]}
BeginVisit(be, t) == {[be EXCEPT !.BeginVisit = t]}
FinishVisit(be, t) == {[be EXCEPT !.FinishVisit = t]}

PutStore(be, t) ==
    IF be.FirstPutStore = 0 THEN {[be EXCEPT !.FirstPutStore = t]} ELSE {}

FindProviders(be, t) ==
    IF be.FirstFindProvider = 0 THEN {[be EXCEPT !.FirstFindProvider = t]} ELSE {}

FoundProvide(be, p, t) ==
    IF be.FirstGotProvider[p] = 0 THEN {[be EXCEPT !.FirstGotProvider[p] = t]} ELSE {}

BugEveryReceive(be, p, t) ==
    IF be.FirstReceive = 0
    THEN {[be EXCEPT !.FirstReceive = t, !.ReceiveFrom = p, !.NumOfRedundantBlks = @ + 1]}
    ELSE {[be EXCEPT !.NumOfRedundantBlks = @ + 1]}

\* A block that was received before is redundant.
ReceiveBlock(be, p, t) ==
    IF be.FirstReceive = 0
    THEN {[be EXCEPT !.FirstReceive = t, !.ReceiveFrom = p]}
    ELSE {[be EXCEPT !.NumOfRedundantBlks = @ + 1]}

BugWantReceived(be, p, t) ==
    IF be.FirstReceive # 0
    THEN {[be EXCEPT !.NumOfRedundantReqs = @ + 1]}
    ELSE {[be EXCEPT !.FirstWantTo[p] = IF @ = 0 THEN t ELSE @]}

\* A want for a block that was received is redundant; it is stored all the same.
SendWant(be, p, t) ==
    {[be EXCEPT !.NumOfRedundantReqs = @ + (IF be.FirstReceive # 0 THEN 1 ELSE 0),
                !.FirstWantTo[p] = IF @ = 0 THEN t ELSE @]}

-----------------------------------------------------------------------------
(* Reading a monitor *)

\* Time of p in FirstWantTo or FirstGotProvider, 0 for the absent key "".
At(times, p) == IF p \in Peers THEN times[p] ELSE 0

RootDurations(be) ==
    LET got == At(be.FirstGotProvider, be.ReceiveFrom)
        want == At(be.FirstWantTo, be.ReceiveFrom)
        find == be.FirstFindProvider
    IN IF got = 0 \/ want = 0 \/ got >= want THEN {}
       ELSE {want - got} \cup
            (IF find = 0 THEN {} ELSE {got - find}) \cup
            (IF find = 0 \/ be.GetBlocksRequest = 0 THEN {} ELSE {find - be.GetBlocksRequest})

LeafDurations(be) ==
    LET want == At(be.FirstWantTo, be.ReceiveFrom)
    IN IF want # 0 /\ be.FirstFindProvider # 0 THEN {want - be.GetBlocksRequest} ELSE {}

\* The difference of two times, if both were recorded.
Span(from, to) == IF from # 0 /\ to # 0 THEN {to - from} ELSE {}

\* Every duration GetBreakdown puts into one of its lists.
GetBreakdown(m) ==
    UNION {LET be == m.EventList[c]
           IN (IF c = m.Root THEN RootDurations(be) ELSE LeafDurations(be))
              \cup Span(be.BlockServiceGet, be.GetBlocksRequest)
              \cup Span(At(be.FirstWantTo, be.ReceiveFrom), be.FirstReceive)
              \cup Span(be.FirstReceive, be.FirstPutStore)
              \cup Span(be.BeginVisit, be.FinishVisit) : c \in DOMAIN m.EventList}

\* The start and the finish that RealTime subtracts.
RealTime(m) == <<m.GetStartTime, m.GetFinishTime>>

\* The sum of a count of blocks.
Total(n) == MapThenSumSet(LAMBDA c : n[c], DOMAIN n)

SumBlksRedundant(m) == Total([c \in DOMAIN m.EventList |-> m.EventList[c].NumOfRedundantBlks])
SumReqsRedundant(m) == Total([c \in DOMAIN m.EventList |-> m.EventList[c].NumOfRedundantReqs])
==============================================================================
