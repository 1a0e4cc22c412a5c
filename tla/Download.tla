------------------------------ MODULE Download ------------------------------
(***************************************************************************)
(* DownloadSerial of local-node/main.go: threads get the files of a list   *)
(* of cids, while bitswap calls the handlers of BlockMonitor from its own  *)
(* goroutines, and each thread ends a file with CollectMonitor, which      *)
(* reads and replaces the one monitor BDMonitor of the process.            *)
(*                                                                         *)
(* A handler is a load and a store.  In which order bitswap calls the      *)
(* handlers of one block is not in this repository: Ready says what it     *)
(* keeps to.  Every call is made at most once per block and peer.          *)
(***************************************************************************)
EXTENDS BlockMonitor, Sequences, FiniteSets

CONSTANTS
    concurrentGet,      \* number of threads
    CidFile,            \* the lines of the file, each a cid; a cid is its root block
    lastEnded,          \* the last line ends in a newline as the others do
    BlocksOf,           \* blocks of a file, disjoint from those of other files
    CallsOf,            \* <<handler, peer>> that bitswap calls for a block
    Goroutines,         \* goroutines of bitswap that may be in a handler
    pag,                \* provide after get
    sad                 \* stall after download

NoPeer == "none"
Threads == 0 .. concurrentGet - 1
NoCall == [name |-> "idle"]

\* The calls about a block as such, and those about a peer.
BlockCalls == {"NewBlockEvent", "BlockServiceGet", "BitswapGet", "FindProviders", "PutStore",
               "BeginVisit", "FinishVisit"}
PeerCalls == {"FoundProvide", "SendWant", "ReceiveBlock"}

ASSUME DownloadAssumption ==
    /\ concurrentGet \in Nat \ {0}
    /\ CidFile \in Seq(Blocks)
    /\ \A i, j \in DOMAIN CidFile : i # j => CidFile[i] # CidFile[j]
    /\ \A i \in DOMAIN CidFile : CidFile[i] \in BlocksOf[CidFile[i]]
    /\ IsFiniteSet(Blocks) /\ NoPeer \notin Peers /\ "" \notin Peers
    /\ \A c \in Blocks :
          /\ CallsOf[c] \subseteq (BlockCalls \X {NoPeer}) \cup (PeerCalls \X Peers)
          /\ IsFiniteSet(CallsOf[c])
    /\ pag \in BOOLEAN /\ sad \in BOOLEAN /\ lastEnded \in BOOLEAN

VARIABLES
    BDMonitor,              \* the current monitor
    call,                   \* what a goroutine of bitswap is doing
    pc, file,               \* thread: control point, files it has begun
    stopped, returned,      \* thread returned early; DownloadSerial returned
    report,                 \* what a thread published last
    made,                   \* calls made for a block, with their times (ghost)
    received, lateWants,    \* receives of a block, wants sent after one (ghosts)
    overlapped,             \* blocks not recorded by one call at a time (ghost)
    failed,                 \* a file failed since the monitor was new (ghost)
    disturbed               \* another thread was at work since t began (ghost)

\* f with the value v at x, and a map without entries.
Put(f, x, v) == [y \in {x} \cup DOMAIN f |-> IF y = x THEN v ELSE f[y]]
Nothing == [x \in {} |-> 0]

threadVars == <<pc, file, stopped, returned, report, failed, disturbed>>
callVars == <<call, made, received, lateWants, overlapped>>
vars == <<BDMonitor, threadVars, callVars>>

NoReport == [blocks |-> {}, negative |-> FALSE, realtime |-> <<>>, blks |-> 0, reqs |-> 0]

\* ReadString('\n') returns what is behind the last newline together with io.EOF, and
\* the loop breaks before it appends that line.
Ended(i) == i < Len(CidFile) \/ lastEnded
LinesRead == {i \in DOMAIN CidFile : Ended(i)}

\* tmpCnt%concurrentGet deals the lines read out to the threads.
Dealt(t) == {i \in LinesRead : (i - 1) % concurrentGet = t}
fileCid == [t \in Threads |-> [k \in 1 .. Cardinality(Dealt(t)) |->
                CidFile[CHOOSE i \in Dealt(t) : Cardinality({x \in Dealt(t) : x <= i}) = k]]]

cid(t) == fileCid[t][file[t]]
AtWork(t) == pc[t] \notin {"next", "done"}

Init ==
    /\ BDMonitor = NewMonitor
    /\ call = [g \in Goroutines |-> NoCall]
    /\ pc = [t \in Threads |-> "next"]
    /\ file = [t \in Threads |-> 0]
    /\ stopped = [t \in Threads |-> FALSE] /\ returned = FALSE
    /\ report = [t \in Threads |-> NoReport]
    /\ made = [c \in Blocks |-> Nothing]
    /\ received = [c \in Blocks |-> 0] /\ lateWants = [c \in Blocks |-> 0]
    /\ overlapped = {}
    /\ failed = FALSE
    /\ disturbed = [t \in Threads |-> FALSE]

-----------------------------------------------------------------------------
(* The handlers, called by bitswap *)

\* The blocks bitswap may ask for: the root, and once it is there the others.
Wanted(c) ==
    \E t \in Threads : \/ pc[t] = "get" /\ c = cid(t)
                       \/ pc[t] = "write" /\ c \in BlocksOf[cid(t)]

Was(c, name) == \E p \in Peers \cup {NoPeer} : <<name, p>> \in DOMAIN made[c]

\* name was called, if bitswap calls it at all for c.
Past(c, name) == Was(c, name) \/ ~\E x \in CallsOf[c] : x[1] = name

Ready(c, name, p) ==
    CASE name = "NewBlockEvent" -> Wanted(c)
      [] name = "BlockServiceGet" -> Was(c, "NewBlockEvent")
      [] name = "BitswapGet" -> Was(c, "NewBlockEvent") /\ Past(c, "BlockServiceGet")
      [] name = "FindProviders" -> Was(c, "NewBlockEvent") /\ Past(c, "BitswapGet")
      [] name = "SendWant" -> /\ Was(c, "NewBlockEvent") /\ Past(c, "BitswapGet")
                              /\ <<"FoundProvide", p>> \in CallsOf[c] \cap DOMAIN made[c]
                                    \/ <<"FoundProvide", p>> \notin CallsOf[c]
      [] name = "FoundProvide" -> Was(c, "FindProviders")
      [] name = "ReceiveBlock" -> <<"SendWant", p>> \in DOMAIN made[c]
      [] name = "PutStore" -> Was(c, "ReceiveBlock")
      [] name = "BeginVisit" -> Was(c, "ReceiveBlock") /\ Past(c, "PutStore")
      [] name = "FinishVisit" -> Was(c, "BeginVisit")

Stores(name, be, p, t) ==
    CASE name = "BlockServiceGet" -> BlockServiceGet(be, t)
      [] name = "BitswapGet" -> BitswapGet(be, t)
      [] name = "SendWant" -> SendWant(be, p, t)
      [] name = "FindProviders" -> FindProviders(be, t)
      [] name = "FoundProvide" -> FoundProvide(be, p, t)
      [] name = "ReceiveBlock" -> ReceiveBlock(be, p, t)
      [] name = "PutStore" -> PutStore(be, t)
      [] name = "BeginVisit" -> BeginVisit(be, t)
      [] name = "FinishVisit" -> FinishVisit(be, t)

Due(c, name, p) ==
    /\ <<name, p>> \in CallsOf[c] \ DOMAIN made[c]
    /\ \A g \in Goroutines : call[g] # NoCall => <<call[g].c, call[g].name, call[g].p>> # <<c, name, p>>
    /\ Ready(c, name, p)

\* The clock of a block ticks with each call made for it.
Now(c) == Cardinality(DOMAIN made[c]) + 1

Made(c, name, p) ==
    /\ made' = [made EXCEPT ![c] = Put(@, <<name, p>>, Now(c))]
    /\ received' = IF name = "ReceiveBlock" THEN [received EXCEPT ![c] = @ + 1] ELSE received
    /\ lateWants' = IF name = "SendWant" /\ received[c] > 0
                    THEN [lateWants EXCEPT ![c] = @ + 1] ELSE lateWants

\* A new event replaces the one the block may have.
NewBlockEvent(c) ==
    /\ Due(c, "NewBlockEvent", NoPeer)
    /\ BDMonitor' = [BDMonitor EXCEPT
           !.EventList = Put(@, c, NewEvent),
           !.Root = IF c \in {CidFile[i] : i \in DOMAIN CidFile} THEN c ELSE @]
    /\ Made(c, "NewBlockEvent", NoPeer)
    /\ UNCHANGED <<threadVars, call, received, lateWants, overlapped>>

\* The load.  A monitor without the event ignores the call, which is no step here.
CallHandler(g, c, name, p) ==
    /\ call[g] = NoCall
    /\ name # "NewBlockEvent"
    /\ c \in DOMAIN BDMonitor.EventList
    /\ Due(c, name, p)
    /\ call' = [call EXCEPT ![g] =
                  [name |-> name, c |-> c, p |-> p, be |-> BDMonitor.EventList[c]]]
    /\ overlapped' = IF \E o \in Goroutines : call[o] # NoCall /\ call[o].c = c
                     THEN overlapped \cup {c} ELSE overlapped
    /\ UNCHANGED <<BDMonitor, threadVars, made, received, lateWants>>

\* The store, of what the handler made of the event it loaded.  The maps of the
\* copy may or may not be shared with the event of the list by now.
StoreEvent(g) ==
    /\ call[g] # NoCall
    /\ LET h == call[g]
           now == BDMonitor.EventList[h.c]
           shared == [h.be EXCEPT !.FirstWantTo = now.FirstWantTo,
                                  !.FirstGotProvider = now.FirstGotProvider]
       IN /\ \E be \in {h.be, shared} :
                LET stored == Stores(h.name, be, h.p, Now(h.c))
                IN \/ stored = {} /\ UNCHANGED BDMonitor
                   \/ \E e \in stored : BDMonitor' = [BDMonitor EXCEPT !.EventList[h.c] = e]
          /\ Made(h.c, h.name, h.p)
    /\ call' = [call EXCEPT ![g] = NoCall]
    /\ UNCHANGED <<threadVars, overlapped>>

BitswapNext ==
    \/ \E c \in Blocks : NewBlockEvent(c)
    \/ \E g \in Goroutines :
          \/ \E c \in Blocks : \E x \in CallsOf[c] : CallHandler(g, c, x[1], x[2])
          \/ StoreEvent(g)

-----------------------------------------------------------------------------
(* A thread of DownloadSerial *)

Begin(t) ==
    /\ pc[t] = "next"
    /\ file[t] < Len(fileCid[t])
    /\ file' = [file EXCEPT ![t] = @ + 1]
    /\ pc' = [pc EXCEPT ![t] = "get"]
    /\ BDMonitor' = [BDMonitor EXCEPT !.GetStartTime = <<t, file'[t]>>]
    /\ disturbed' = [u \in Threads |->
           IF u = t THEN failed \/ \E v \in Threads \ {t} : AtWork(v)
           ELSE disturbed[u] \/ AtWork(u)]
    /\ UNCHANGED <<stopped, returned, report, failed, callVars>>

Finish(t) ==
    /\ pc[t] = "next"
    /\ file[t] = Len(fileCid[t])
    /\ pc' = [pc EXCEPT ![t] = "done"]
    /\ UNCHANGED <<BDMonitor, file, stopped, returned, report, failed,
                   disturbed, callVars>>

\* The block was received; in a monitor that replaced its own it left no trace.
Here(c) == Was(c, "ReceiveBlock") \/ (Was(c, "NewBlockEvent") /\ c \notin DOMAIN BDMonitor.EventList)

\* Get returns the root node once its block was received.
GetReturns(t) ==
    /\ pc[t] = "get"
    /\ Here(cid(t))
    /\ pc' = [pc EXCEPT ![t] = "write"]
    /\ UNCHANGED <<BDMonitor, file, stopped, returned, report, failed, disturbed, callVars>>

\* An error of Get or WriteTo: continue, with the events left in the monitor.
FileFails(t) ==
    /\ pc[t] \in {"get", "write"}
    /\ pc' = [pc EXCEPT ![t] = "next"]
    /\ failed' = TRUE
    /\ UNCHANGED <<BDMonitor, file, stopped, returned, report, disturbed,
                   callVars>>

\* WriteTo has read all blocks.
WriteReturns(t) ==
    /\ pc[t] = "write"
    /\ \A c \in BlocksOf[cid(t)] : Here(c)
    /\ BDMonitor' = [BDMonitor EXCEPT !.GetFinishTime = <<t, file[t]>>]
    /\ pc' = [pc EXCEPT ![t] = "breakdown"]
    /\ UNCHANGED <<file, stopped, returned, report, failed, disturbed, callVars>>

CollectBreakdown(t) ==
    /\ pc[t] = "breakdown"
    /\ report' = [report EXCEPT ![t] =
           [NoReport EXCEPT !.blocks = DOMAIN BDMonitor.EventList,
                            !.negative = \E d \in GetBreakdown(BDMonitor) : d < 0]]
    /\ pc' = [pc EXCEPT ![t] = "totals"]
    /\ UNCHANGED <<BDMonitor, file, stopped, returned, failed, disturbed,
                   callVars>>

\* BDMonitor is read again for the times and the sums.
CollectTotals(t) ==
    /\ pc[t] = "totals"
    /\ report' = [report EXCEPT
           ![t].realtime = RealTime(BDMonitor),
           ![t].reqs = SumReqsRedundant(BDMonitor),
           ![t].blks = SumBlksRedundant(BDMonitor)]
    /\ pc' = [pc EXCEPT ![t] = "replace"]
    /\ UNCHANGED <<BDMonitor, file, stopped, returned, failed, disturbed,
                   callVars>>

BugKeepsMonitor(t) ==
    /\ pc[t] = "replace"
    /\ report' = [report EXCEPT ![t] = NoReport]
    /\ failed' = FALSE
    /\ pc' = [pc EXCEPT ![t] = IF pag THEN "provide" ELSE "next"]
    /\ UNCHANGED <<BDMonitor, file, stopped, returned, disturbed, callVars>>

\* BDMonitor = Newmonitor().  What handlers under way store goes to the old
\* monitor, which nobody reads again.
ReplaceMonitor(t) ==
    /\ pc[t] = "replace"
    /\ BDMonitor' = NewMonitor
    /\ call' = [g \in Goroutines |-> NoCall]
    /\ made' = [c \in Blocks |-> IF c \in DOMAIN BDMonitor.EventList
                                 THEN Put(Nothing, <<"NewBlockEvent", NoPeer>>, 1) ELSE made[c]]
    /\ report' = [report EXCEPT ![t] = NoReport]
    /\ failed' = FALSE
    /\ pc' = [pc EXCEPT ![t] = IF pag THEN "provide" ELSE "next"]
    /\ UNCHANGED <<file, stopped, returned, disturbed, received, lateWants, overlapped>>

Provide(t) ==
    /\ pc[t] = "provide"
    /\ pc' = [pc EXCEPT ![t] = "next"]
    /\ UNCHANGED <<BDMonitor, file, stopped, returned, report, failed,
                   disturbed, callVars>>

\* A failed Provide ends the thread: the rest of its files is not downloaded.
ProvideFails(t) ==
    /\ pc[t] = "provide"
    /\ pc' = [pc EXCEPT ![t] = "done"]
    /\ stopped' = [stopped EXCEPT ![t] = TRUE]
    /\ UNCHANGED <<BDMonitor, file, returned, report, failed, disturbed,
                   callVars>>

BugWaitsForOne ==
    /\ \E t \in Threads : pc[t] = "done"
    /\ ~sad /\ ~returned
    /\ returned' = TRUE
    /\ UNCHANGED <<BDMonitor, pc, file, stopped, report, failed, disturbed,
                   callVars>>

\* wg.Wait(); with sad one Done is missing.
Wait ==
    /\ \A t \in Threads : pc[t] = "done"
    /\ ~sad /\ ~returned
    /\ returned' = TRUE
    /\ UNCHANGED <<BDMonitor, pc, file, stopped, report, failed, disturbed,
                   callVars>>

ThreadNext(t) ==
    \/ Begin(t) \/ Finish(t) \/ GetReturns(t) \/ FileFails(t) \/ WriteReturns(t)
    \/ CollectBreakdown(t) \/ CollectTotals(t) \/ ReplaceMonitor(t)
    \/ Provide(t) \/ ProvideFails(t)

Next == BitswapNext \/ (\E t \in Threads : ThreadNext(t)) \/ Wait

Spec == Init /\ [][Next]_vars

-----------------------------------------------------------------------------
(* Properties *)

\* However handlers interleave, what is reported as redundant was: no event and
\* no report counts more redundant blocks and requests than there were
\* (monitor.go:150-205, metrics.go:301).
NeverOvercounts ==
    /\ \A c \in DOMAIN BDMonitor.EventList :
          LET be == BDMonitor.EventList[c] IN
          /\ be.NumOfRedundantBlks > 0 => be.NumOfRedundantBlks < received[c]
          /\ be.NumOfRedundantReqs <= lateWants[c]
    /\ \A t \in Threads :
          /\ report[t].reqs <= Total(lateWants)
          /\ report[t].blks <= Total(received)

\* A block whose handlers ran one at a time has an event that says when and with
\* whom each thing happened first, and how often it was in vain: what is lost is
\* lost in the overlap of a load and a store. A report has a negative duration only if
\* it is about a block whose handlers overlapped (monitor.go:111-266, 285).
ExactWhenAlone ==
    /\ \A c \in DOMAIN BDMonitor.EventList :
           LET be == BDMonitor.EventList[c]
               First(name, p) == IF <<name, p>> \in DOMAIN made[c] THEN made[c][<<name, p>>] ELSE 0
               receivers == {p \in Peers : <<"ReceiveBlock", p>> \in DOMAIN made[c]}
           IN c \notin overlapped /\ (\A g \in Goroutines : call[g] # NoCall => call[g].c # c) =>
               /\ be.BlockServiceGet = First("BlockServiceGet", NoPeer)
               /\ be.GetBlocksRequest = First("BitswapGet", NoPeer)
               /\ be.FirstFindProvider = First("FindProviders", NoPeer)
               /\ be.FirstPutStore = First("PutStore", NoPeer)
               /\ be.BeginVisit = First("BeginVisit", NoPeer)
               /\ be.FinishVisit = First("FinishVisit", NoPeer)
               /\ \A p \in Peers : /\ be.FirstWantTo[p] = First("SendWant", p)
                                   /\ be.FirstGotProvider[p] = First("FoundProvide", p)
               /\ IF receivers = {} THEN be.FirstReceive = 0 /\ be.ReceiveFrom = ""
                  ELSE /\ be.FirstReceive = First("ReceiveBlock", be.ReceiveFrom)
                       /\ \A p \in receivers : be.FirstReceive <= First("ReceiveBlock", p)
                       /\ be.NumOfRedundantBlks = received[c] - 1
               /\ be.NumOfRedundantReqs = lateWants[c]
    /\ \A t \in Threads : report[t].negative => report[t].blocks \cap overlapped # {}

\* A thread that had BDMonitor for itself reports the blocks of its own file only,
\* over a time that is its own (main.go:437-461, metrics.go:267).
OwnFileWhenUndisturbed ==
    \A t \in Threads :
        pc[t] = "replace" /\ ~disturbed[t] =>
            report[t].blocks \subseteq BlocksOf[cid(t)] /\ report[t].realtime = <<<<t, file[t]>>, <<t, file[t]>>>>

\* When DownloadSerial returns, the cid of each line that ends in a newline was begun,
\* except those of a thread that a failed Provide ended.  No other cid is ever begun: the
\* last one of a file without a newline at its end is not downloaded
\* (main.go:410-420, 421-497).
EndedLinesTried ==
    /\ returned =>
           \A i \in DOMAIN CidFile : Ended(i) =>
               \E t \in Threads : \E k \in DOMAIN fileCid[t] :
                   fileCid[t][k] = CidFile[i] /\ (k <= file[t] \/ stopped[t])
    /\ \A t \in Threads : AtWork(t) =>
           \E i \in DOMAIN CidFile : Ended(i) /\ cid(t) = CidFile[i]
==============================================================================
