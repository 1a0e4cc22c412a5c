----------------------------- MODULE Dispatcher -----------------------------
(***************************************************************************)
(* One call of (d *Dispatcher) Dispatch3 in local-node/pbitswap: the main  *)
(* loop that creates a worker per provider, the goroutines that execute    *)
(* (p *peerToDispatch) run(), and the block table (queryState, cids) they  *)
(* share without a common lock.                                            *)
(*                                                                         *)
(* Grain.  A step is one operation another goroutine can see: a Load or a  *)
(* Store of the sync.Map queryState, the read or the write of the slice    *)
(* d.cids (two steps, append is not synchronised), one absorb2 sweep over  *)
(* the workers, one pass of squeeze, a channel rendezvous, a read or a     *)
(* write of the flag working.  Blocks and peers are model values; a block  *)
(* carries only the list of its children.                                  *)
(***************************************************************************)
EXTENDS BlockSets, BatchSize

CONSTANTS
    RootChilds,     \* Seq(Cids): links of the root node, in link order
    Childs,         \* [Cids -> Seq(Cids)]: links of each block
    Has,            \* [Peers -> SUBSET Cids]: blocks a peer can deliver
    MaxRuns,        \* goroutines of one peer alive at a time (bound)
    VisitCap,       \* cap on the count of visits of a block (bound)
    MayCancel       \* may the caller cancel d.ctx?

ASSUME ConstantsAssumption ==
    /\ RootChilds \in Seq(Cids)
    /\ Childs \in [Cids -> Seq(Cids)]
    /\ Has \in [Peers -> SUBSET Cids]
    /\ MaxRuns \in Nat \ {0}
    /\ VisitCap \in Nat \ {0}
    /\ MayCancel \in BOOLEAN

Absent  == 0        \* no entry in queryState
Empty   == 1
Pending == 2
Filled  == 3

\* control points at which Dispatch3 has returned
Returned == {"done", "cancelled", "endofdag"}

Runs == Peers \X (1..MaxRuns)       \* slots for the goroutines run()
Peer(r) == r[1]

VARIABLES
    \* Dispatcher
    queryState,     \* [Cids -> {Absent, Empty, Pending, Filled}]
    cids,           \* the slice d.cids
    worker,         \* peers with an entry in the sync.Map d.worker
    visits,         \* how often visit(block) was called, capped at VisitCap
    \* Dispatch3's own goroutine
    mpc,            \* its control point
    newpeer,        \* set holding the peer of the worker being created
    scan,           \* workers the finish handler has still to look at
    ctxDone,        \* the caller has cancelled d.ctx
    \* peerToDispatch
    distances, sequence, requestEachTime, adjuster, working,
    \* locals of the goroutines run()
    pc, snapshot, limit, toRequest, requests, numOfRequest, totalrequests,
    blk, child, oldcids

dispVars == <<queryState, cids, worker, visits>>
mainVars == <<mpc, newpeer, scan, ctxDone>>
peerVars == <<distances, sequence, requestEachTime, adjuster, working>>
runVars  == <<pc, snapshot, limit, toRequest, requests, numOfRequest, totalrequests,
              blk, child, oldcids>>
vars == <<dispVars, mainVars, peerVars, runVars>>

roundVars == <<snapshot, limit, toRequest, requests, numOfRequest, totalrequests>>
findVars  == <<blk, child, oldcids>>

-----------------------------------------------------------------------------
\* (Definitions named Bug... are never used: they are slips a maintainer could
\* make, kept to test that the properties below notice them.)
BugEmptyOnly(p, Q, s, n) ==
    Nearest(p, {c \in Q : queryState[c] = s /\ s = Empty}, n)

\* One pass of squeeze over the sequence Q: the blocks in state s, cut after n.
\* (Its "ask for non-exists cid" return is never taken: SequenceTracked.)
Pass(p, Q, s, n) == Nearest(p, {c \in Q : queryState[c] = s}, n)

-----------------------------------------------------------------------------
Init ==
    /\ queryState = [c \in Cids |-> Absent]
    /\ cids = <<>>
    /\ worker = {}
    /\ visits = [c \in Cids |-> 0]
    /\ mpc = "start"
    /\ newpeer = {}
    /\ scan = {}
    /\ ctxDone = FALSE
    /\ distances = [p \in Peers |-> {}]
    /\ sequence = [p \in Peers |-> {}]
    /\ requestEachTime = [p \in Peers |-> 0]
    /\ adjuster = [p \in Peers |-> "init"]
    /\ working = [p \in Peers |-> FALSE]
    /\ pc = [r \in Runs |-> "idle"]
    /\ snapshot = [r \in Runs |-> {}]
    /\ limit = [r \in Runs |-> 0]
    /\ toRequest = [r \in Runs |-> {}]
    /\ requests = [r \in Runs |-> {}]
    /\ numOfRequest = [r \in Runs |-> 0]
    /\ totalrequests = [r \in Runs |-> 0]
    /\ blk = [r \in Runs |-> {}]
    /\ child = [r \in Runs |-> 1]
    /\ oldcids = [r \in Runs |-> <<>>]

-----------------------------------------------------------------------------
(* Dispatch3: the calling goroutine *)

\* Dispatch3 up to its loop.  No other goroutine exists yet, so blkFind of the
\* root's children is one step: it stores the prefix before the first repeated
\* child and informs nobody.
Start ==
    /\ mpc = "start"
    /\ \E k \in 0..Len(RootChilds) :
         /\ FreshPrefix({}, RootChilds) = 1..k
         /\ queryState' = [c \in Cids |->
                IF \E i \in 1..k : RootChilds[i] = c THEN Empty ELSE Absent]
         /\ cids' = SubSeq(RootChilds, 1, k)
    /\ mpc' = IF RootChilds = <<>> THEN "endofdag" ELSE "select"
    /\ UNCHANGED <<worker, visits, newpeer, scan, ctxDone, peerVars, runVars>>

\* "go worker.run()", unless the flag working is up.  The flag goes up only
\* inside run(), so this can start a second goroutine for the same peer.
Spawn(p) ==
    IF working[p] THEN UNCHANGED pc
    ELSE \E i \in 1..MaxRuns :
            /\ pc[<<p, i>>] = "idle"
            /\ \A j \in 1..(i-1) : pc[<<p, j>>] # "idle"
            /\ pc' = [pc EXCEPT ![<<p, i>>] = "start"]

\* A finder reports a provider that has a worker.
RecvKnownProvider(p) ==
    /\ mpc = "select"
    /\ p \in worker
    /\ Spawn(p)
    /\ UNCHANGED <<dispVars, mainVars, peerVars, roundVars, findVars>>

\* A finder reports a new provider: newPeerToDispatch reads d.cids and absorbs
\* it; the worker is not in d.worker yet.
RecvNewProvider(p) ==
    /\ mpc = "select"
    /\ p \notin worker
    /\ mpc' = "register"
    /\ newpeer' = {p}
    /\ distances' = [distances EXCEPT ![p] = AbsorbDistances({}, cids)]
    /\ sequence' = [sequence EXCEPT ![p] = AbsorbSequence({}, {}, cids)]
    /\ requestEachTime' = [requestEachTime EXCEPT ![p] = InitRequestBlkNumber]
    /\ UNCHANGED <<dispVars, scan, ctxDone, adjuster, working, runVars>>

\* d.worker.Store(prov, newworker), then the new worker is started.
Register(p) ==
    /\ mpc = "register"
    /\ newpeer = {p}
    /\ worker' = worker \cup {p}
    /\ newpeer' = {}
    /\ mpc' = "select"
    /\ Spawn(p)
    /\ UNCHANGED <<queryState, cids, visits, scan, ctxDone, peerVars,
                   roundVars, findVars>>

BugSeesNobody(p) == FALSE

\* The finish handler reads the flag of one worker, without its lock.
SeenWorking(p) == working[p]

ScanWorker(p) ==
    /\ mpc = "scan"
    /\ p \in scan
    /\ IF SeenWorking(p)
       THEN mpc' = "select" /\ scan' = {}
       ELSE mpc' = mpc /\ scan' = scan \ {p}
    /\ UNCHANGED <<dispVars, newpeer, ctxDone, peerVars, runVars>>

\* No worker was seen working: cancel workctx and return nil.
AllEnds ==
    /\ mpc = "scan"
    /\ scan = {}
    /\ mpc' = "done"
    /\ UNCHANGED <<dispVars, newpeer, scan, ctxDone, peerVars, runVars>>

\* The caller cancels d.ctx, and with it workctx.
CancelCtx ==
    /\ MayCancel
    /\ ~ctxDone
    /\ mpc \notin Returned
    /\ ctxDone' = TRUE
    /\ UNCHANGED <<dispVars, mpc, newpeer, scan, peerVars, runVars>>

\* Dispatch3 sees the cancelled context in its select and returns nil as well.
CtxReturn ==
    /\ mpc = "select"
    /\ ctxDone
    /\ mpc' = "cancelled"
    /\ UNCHANGED <<dispVars, newpeer, scan, ctxDone, peerVars, runVars>>

-----------------------------------------------------------------------------
(* run(): one goroutine of a worker *)

\* working = true, then PeerConnect.
RunStart(r) ==
    /\ pc[r] = "start"
    /\ working' = [working EXCEPT ![Peer(r)] = TRUE]
    /\ pc' = [pc EXCEPT ![r] = "squeeze"]
    /\ UNCHANGED <<dispVars, mainVars, distances, sequence, requestEachTime,
                   adjuster, roundVars, findVars>>

\* squeeze(*p) works on a copy of the worker: sequence and requestEachTime are
\* those of the call.  First pass: Empty blocks.  The test against requestEachTime
\* follows the append, so a batch size of 0 still takes one block.
SqueezeEmpty(r) ==
    LET p == Peer(r)
        L == requestEachTime[p]
        picked == Pass(p, sequence[p], Empty, IF L = 0 THEN 1 ELSE L)
    IN
    /\ pc[r] = "squeeze"
    /\ snapshot' = [snapshot EXCEPT ![r] = sequence[p]]
    /\ limit' = [limit EXCEPT ![r] = L]
    /\ toRequest' = [toRequest EXCEPT ![r] = picked]
    /\ numOfRequest' = [numOfRequest EXCEPT ![r] = Cardinality(picked)]
    /\ pc' = [pc EXCEPT ![r] =
                IF Cardinality(picked) < L THEN "squeeze2"
                ELSE IF picked = {} THEN "finish" ELSE "pend"]
    /\ UNCHANGED <<dispVars, mainVars, peerVars, requests, totalrequests,
                   findVars>>

BugCountsLastPass(r, picked) ==
    IF picked = {} THEN numOfRequest[r] ELSE Cardinality(picked)

\* fetched, the counter both passes share.
Fetched(r, picked) == numOfRequest[r] + Cardinality(picked)

\* squeeze(*p), second pass over the same copy: Pending blocks fill
\* up the batch.  A block that turned Pending since the first pass is counted
\* twice.
SqueezePending(r) ==
    LET p == Peer(r)
        picked == Pass(p, snapshot[r], Pending,
                       limit[r] - numOfRequest[r])
        n == Fetched(r, picked)
    IN
    /\ pc[r] = "squeeze2"
    /\ toRequest' = [toRequest EXCEPT ![r] = @ \cup picked]
    /\ numOfRequest' = [numOfRequest EXCEPT ![r] = n]
    /\ pc' = [pc EXCEPT ![r] = IF n = 0 THEN "finish" ELSE "pend"]
    /\ UNCHANGED <<dispVars, mainVars, peerVars, snapshot, limit, requests,
                   totalrequests, findVars>>

\* blkPending stores Pending whatever the state is by now; requests.Store is
\* local.  After the last one GetBlocksFrom is called.
BlkPending(r) ==
    /\ pc[r] = "pend"
    /\ \E c \in toRequest[r] \ requests[r] :
         /\ queryState' = [queryState EXCEPT ![c] = Pending]
         /\ requests' = [requests EXCEPT ![r] = @ \cup {c}]
         /\ IF requests[r] \cup {c} = toRequest[r]
            THEN /\ pc' = [pc EXCEPT ![r] = "wait"]
                 /\ totalrequests' = [totalrequests EXCEPT ![r] = numOfRequest[r]]
                 /\ toRequest' = [toRequest EXCEPT ![r] = {}]
                 /\ snapshot' = [snapshot EXCEPT ![r] = {}]
                 /\ limit' = [limit EXCEPT ![r] = 0]
            ELSE UNCHANGED <<pc, totalrequests, toRequest, snapshot, limit>>
    /\ UNCHANGED <<cids, worker, visits, mainVars, peerVars, numOfRequest,
                   findVars>>

\* A requested block arrives; the worker looks whether it is still wanted.
Receive(r, c) ==
    /\ pc[r] = "wait"
    /\ c \in requests[r] \cap Has[Peer(r)]
    /\ requests' = [requests EXCEPT ![r] = @ \ {c}]
    /\ numOfRequest' = [numOfRequest EXCEPT ![r] = @ - 1]
    /\ IF queryState[c] # Filled
       THEN /\ pc' = [pc EXCEPT ![r] = "fill"]
            /\ blk' = [blk EXCEPT ![r] = {c}]
       ELSE UNCHANGED <<pc, blk>>
    /\ UNCHANGED <<dispVars, mainVars, peerVars, snapshot, limit, toRequest,
                   totalrequests, child, oldcids>>

BugFindBeforeVisit(r) ==
    /\ pc[r] = "fill"
    /\ queryState' = [c \in Cids |-> IF c \in blk[r] THEN Filled ELSE queryState[c]]
    /\ pc' = [pc EXCEPT ![r] = IF \A b \in blk[r] : Childs[b] = <<>>
                               THEN "visit" ELSE "find"]
    /\ UNCHANGED <<cids, worker, visits, mainVars, peerVars, roundVars, findVars>>

\* The Store that should keep other workers from taking the block.
Fill(r) ==
    /\ pc[r] = "fill"
    /\ queryState' = [c \in Cids |-> IF c \in blk[r] THEN Filled ELSE queryState[c]]
    /\ pc' = [pc EXCEPT ![r] = "visit"]
    /\ UNCHANGED <<cids, worker, visits, mainVars, peerVars, roundVars, findVars>>

\* Where a worker goes once it is through with a block it needed.
Resume(r) == IF numOfRequest[r] <= 0 THEN "adjust" ELSE "wait"

BugInformFirst(r, b) == IF Childs[b] = <<>> THEN Resume(r) ELSE "inform"

\* After visit comes blkFind of the links, if there are any.
AfterVisit(r, b) == IF Childs[b] = <<>> THEN Resume(r) ELSE "find"

LeaveBlk(r) ==
    /\ blk' = [blk EXCEPT ![r] = {}]
    /\ child' = [child EXCEPT ![r] = 1]

BackToLoop(r) ==
    /\ pc' = [pc EXCEPT ![r] = Resume(r)]
    /\ LeaveBlk(r)

\* visit(block) and collectedblk++ under writeNodeLock.
Visit(r) ==
    \E b \in blk[r] :
    /\ pc[r] = "visit"
    /\ visits' = [visits EXCEPT ![b] = IF @ < VisitCap THEN @ + 1 ELSE @]
    /\ pc' = [pc EXCEPT ![r] = AfterVisit(r, b)]
    /\ IF Childs[b] = <<>> THEN LeaveBlk(r) ELSE UNCHANGED <<blk, child>>
    /\ UNCHANGED <<queryState, cids, worker, mainVars, peerVars, roundVars,
                   oldcids>>

\* blkFind: queryState.Load of the next child.  A child that has an entry ends
\* the whole call, its remaining siblings and the sweep over the workers
\* included.
FindLoad(r) ==
    \E b \in blk[r] :
    /\ pc[r] = "find"
    /\ IF queryState[Childs[b][child[r]]] # Absent
       THEN BackToLoop(r)
       ELSE pc' = [pc EXCEPT ![r] = "store"] /\ UNCHANGED <<blk, child>>
    /\ UNCHANGED <<dispVars, mainVars, peerVars, roundVars, oldcids>>

\* queryState.Store(c, Empty), then append reads the slice d.cids ...
FindStore(r) ==
    \E b \in blk[r] :
    /\ pc[r] = "store"
    /\ queryState' = [queryState EXCEPT ![Childs[b][child[r]]] = Empty]
    /\ oldcids' = [oldcids EXCEPT ![r] = cids]
    /\ pc' = [pc EXCEPT ![r] = "append"]
    /\ UNCHANGED <<cids, worker, visits, mainVars, peerVars, roundVars, blk, child>>

\* ... and writes it back.  If another worker appended in between, its blocks
\* are cut off, and on a shared backing array its block may stay in the slot
\* this worker meant for its own.
BugOneFurther(r, b) == child[r] > Len(Childs[b])

LastChild(r, b) == child[r] >= Len(Childs[b])

FindAppend(r) ==
    \E b \in blk[r] :
    LET c    == Childs[b][child[r]]
        slot == Len(oldcids[r]) + 1
    IN
    /\ pc[r] = "append"
    /\ \E x \in {c} \cup {cids[i] : i \in DOMAIN cids \cap {slot}} :
          cids' = Append(oldcids[r], x)
    /\ oldcids' = [oldcids EXCEPT ![r] = <<>>]
    /\ IF LastChild(r, b)
       THEN /\ pc' = [pc EXCEPT ![r] = "inform"]
            /\ UNCHANGED child
       ELSE /\ pc' = [pc EXCEPT ![r] = "find"]
            /\ child' = [child EXCEPT ![r] = @ + 1]
    /\ UNCHANGED <<queryState, worker, visits, mainVars, peerVars, roundVars, blk>>

BugInformsOthers(r) == worker \ {Peer(r)}

\* absorb2 of the new blocks by every worker in d.worker, the finder included.
Informed(r) == worker

Inform(r) ==
    \E b \in blk[r] :
    /\ pc[r] = "inform"
    /\ distances' = [p \in Peers |-> IF p \in Informed(r)
                        THEN AbsorbDistances(distances[p], Childs[b])
                        ELSE distances[p]]
    /\ sequence' = [p \in Peers |-> IF p \in Informed(r)
                        THEN AbsorbSequence(distances[p], sequence[p], Childs[b])
                        ELSE sequence[p]]
    /\ BackToLoop(r)
    /\ UNCHANGED <<dispVars, mainVars, requestEachTime, adjuster, working,
                   roundVars, oldcids>>

\* The limiter ticks, or the block channel is closed.
RoundTimeout(r) ==
    /\ pc[r] = "wait"
    /\ pc' = [pc EXCEPT ![r] = "adjust"]
    /\ UNCHANGED <<dispVars, mainVars, peerVars, roundVars, findVars>>

\* NextRound2: Adjust5 sets the size of the next batch.
NextRound(r) ==
    LET p == Peer(r) IN
    /\ pc[r] = "adjust"
    /\ IF HitRatioHigh(totalrequests[r], numOfRequest[r])
       THEN /\ \E l \in AdjustOutcomes(adjuster[p], requestEachTime[p]) :
                  requestEachTime' = [requestEachTime EXCEPT ![p] = l]
            /\ adjuster' = [adjuster EXCEPT ![p] = NextAdjuster(@)]
       ELSE UNCHANGED <<requestEachTime, adjuster>>
    /\ pc' = [pc EXCEPT ![r] = "squeeze"]
    /\ requests' = [requests EXCEPT ![r] = {}]
    /\ numOfRequest' = [numOfRequest EXCEPT ![r] = 0]
    /\ totalrequests' = [totalrequests EXCEPT ![r] = 0]
    /\ UNCHANGED <<dispVars, mainVars, distances, sequence, working, snapshot,
                   limit, toRequest, findVars>>

BugChecksBeforeVisit == {"wait", "visit"}
BugNoDefer == "idle"

\* The points of run() that look at the context, and where a return leads to:
\* the deferred function.
CtxChecked == {"wait"}
Deferred == "clear"

\* workctx is cancelled while the worker waits for a block.
CtxExit(r) ==
    /\ pc[r] \in CtxChecked
    /\ ctxDone \/ mpc = "done"
    /\ pc' = [pc EXCEPT ![r] = Deferred]
    /\ requests' = [requests EXCEPT ![r] = {}]
    /\ numOfRequest' = [numOfRequest EXCEPT ![r] = 0]
    /\ totalrequests' = [totalrequests EXCEPT ![r] = 0]
    /\ UNCHANGED <<dispVars, mainVars, peerVars, snapshot, limit, toRequest,
                   findVars>>

\* p.finish <- p.id meets <-finish: the unbuffered send needs Dispatch3 in its
\* select, which then looks at the flags of all workers.
Finish(r) ==
    /\ pc[r] = "finish"
    /\ mpc = "select"
    /\ pc' = [pc EXCEPT ![r] = Deferred]
    /\ snapshot' = [snapshot EXCEPT ![r] = {}]
    /\ limit' = [limit EXCEPT ![r] = 0]
    /\ mpc' = "scan"
    /\ scan' = worker
    /\ UNCHANGED <<dispVars, newpeer, ctxDone, peerVars, toRequest, requests,
                   numOfRequest, totalrequests, findVars>>

\* The deferred function of run(): working = false.
RunExit(r) ==
    /\ pc[r] = "clear"
    /\ working' = [working EXCEPT ![Peer(r)] = FALSE]
    /\ pc' = [pc EXCEPT ![r] = "idle"]
    /\ UNCHANGED <<dispVars, mainVars, distances, sequence, requestEachTime,
                   adjuster, roundVars, findVars>>

-----------------------------------------------------------------------------
MainNext ==
    \/ Start
    \/ \E p \in Peers : \/ RecvKnownProvider(p)
                        \/ RecvNewProvider(p)
                        \/ Register(p)
                        \/ ScanWorker(p)
    \/ AllEnds
    \/ CancelCtx
    \/ CtxReturn

\* Steps of a goroutine that need neither a peer's answer nor Dispatch3.
RunLocal(r) ==
    \/ RunStart(r)
    \/ SqueezeEmpty(r)
    \/ SqueezePending(r)
    \/ BlkPending(r)
    \/ Fill(r)
    \/ Visit(r)
    \/ FindLoad(r)
    \/ FindStore(r)
    \/ FindAppend(r)
    \/ Inform(r)
    \/ NextRound(r)
    \/ CtxExit(r)
    \/ RunExit(r)

RunNext(r) ==
    \/ RunLocal(r)
    \/ \E c \in Cids : Receive(r, c)
    \/ RoundTimeout(r)
    \/ Finish(r)

Next == MainNext \/ \E r \in Runs : RunNext(r)

Spec == Init /\ [][Next]_vars

-----------------------------------------------------------------------------
(***************************************************************************)
(* Fairness.  The Go scheduler runs every goroutine that can run.  select  *)
(* picks at random among its ready cases, so a finish or a provider that   *)
(* is offered again and again is taken in the end.  A peer that has a      *)
(* block delivers it in the end: Adjust5 doubles the time-out after the    *)
(* third round in a row without a block, without a bound.                  *)
(***************************************************************************)
Fairness ==
    /\ WF_vars(Start)
    /\ WF_vars(AllEnds)
    /\ \A p \in Peers : /\ SF_vars(RecvKnownProvider(p) \/ RecvNewProvider(p))
                        /\ WF_vars(Register(p))
                        /\ WF_vars(ScanWorker(p))
    /\ \A r \in Runs : /\ WF_vars(RunLocal(r))
                       /\ WF_vars(RoundTimeout(r))
                       /\ SF_vars(Finish(r))
                       /\ \A c \in Cids : SF_vars(Receive(r, c))

FairSpec == Spec /\ Fairness

-----------------------------------------------------------------------------
LinksOf(s) == {s[i] : i \in DOMAIN s}

PCs ==
       {"idle", "start", "squeeze", "squeeze2", "pend", "wait", "fill", "visit",
        "find", "store", "append", "inform", "adjust", "finish", "clear"}

Finding == {"find", "store", "append", "inform"}

DispTypes ==
    /\ queryState \in [Cids -> {Absent, Empty, Pending, Filled}]
    /\ cids \in Seq(Cids)
    /\ worker \in SUBSET Peers
    /\ visits \in [Cids -> 0..VisitCap]

MainTypes ==
    /\ mpc \in {"start", "select", "register", "scan"} \cup Returned
    /\ newpeer \in SUBSET Peers
    /\ scan \in SUBSET Peers
    /\ ctxDone \in BOOLEAN

PeerTypes ==
    /\ distances \in [Peers -> SUBSET Cids]
    /\ sequence \in [Peers -> SUBSET Cids]
    /\ requestEachTime \in [Peers -> 0..MaxBatch]
    /\ adjuster \in [Peers -> {"init", "nolast", "last"}]
    /\ working \in [Peers -> BOOLEAN]

RoundTypes ==
    /\ snapshot \in [Runs -> SUBSET Cids]
    /\ limit \in [Runs -> 0..MaxBatch]
    /\ toRequest \in [Runs -> SUBSET Cids]
    /\ requests \in [Runs -> SUBSET Cids]
    /\ numOfRequest \in [Runs -> Int]
    /\ totalrequests \in [Runs -> Int]

FindTypes ==
    /\ blk \in [Runs -> SUBSET Cids]
    /\ child \in [Runs -> Nat \ {0}]
    /\ oldcids \in [Runs -> Seq(Cids)]

\* A goroutine has at most one block in hand.
OneBlock == \A r \in Runs : \A x, y \in blk[r] : x = y

\* Outside blkFind child is 1, inside it is an index of the links of the block.
ChildInRange ==
    \A r \in Runs : IF pc[r] \in Finding
                    THEN \A b \in blk[r] : child[r] \in DOMAIN Childs[b]
                    ELSE child[r] = 1

\* Every variable has the type its declaration says, and blkFind never leaves
\* the list of links it walks.
TypeOK ==
    /\ DispTypes
    /\ MainTypes
    /\ PeerTypes
    /\ pc \in [Runs -> PCs]
    /\ RoundTypes
    /\ FindTypes
    /\ OneBlock
    /\ ChildInRange

Tracked == {c \in Cids : queryState[c] # Absent}
Visited == {c \in Cids : visits[c] > 0}
InHand  == {c \in Cids : \E r \in Runs : pc[r] = "visit" /\ c \in blk[r]}

\* A worker never asks for a block the table does not know, so squeeze never
\* takes its "peerToDispatch ask for non-exists cid" return, which would end
\* the worker.  blkFind stores a block before it informs anybody.
SequenceTracked ==
    /\ \A p \in Peers : sequence[p] \subseteq Tracked
    /\ \A r \in Runs : snapshot[r] \cup toRequest[r] \cup requests[r] \subseteq Tracked

\* What SequenceTracked rests on: d.cids and the copies append works on hold
\* tracked blocks, the block in a goroutine's hand is tracked, and blkFind has
\* stored the links before the one it is at.
NotStarted ==
    mpc = "start" => Tracked = {} /\ \A r \in Runs : pc[r] = "idle"

FoundLinks(r, b) ==
    {Childs[b][j] : j \in {i \in DOMAIN Childs[b] :
        \/ i < child[r]
        \/ i = child[r] /\ pc[r] \in {"append", "inform"}}}

LinksTracked ==
    /\ LinksOf(cids) \subseteq Tracked
    /\ \A r \in Runs :
         /\ LinksOf(oldcids[r]) \cup blk[r] \subseteq Tracked
         /\ pc[r] \in Finding =>
               \A b \in blk[r] : FoundLinks(r, b) \subseteq Tracked
         /\ pc[r] = "inform" =>
               \A b \in blk[r] : LinksOf(Childs[b]) \subseteq Tracked

TableInv == NotStarted /\ LinksTracked /\ SequenceTracked

\* A block marked Filled was visited or is in the hand of a goroutine that is
\* about to visit it: marking it early (the Store comes before visit) loses no
\* block, whatever happens to the worker or to the context afterwards.
FilledIsVisited ==
    \A c \in Cids : queryState[c] = Filled => c \in Visited \cup InHand

\* A block enters the table as a link of the root or of a visited block.
ParentFirst ==
    \A c \in Tracked : \/ c \in LinksOf(RootChilds)
                       \/ \E b \in Visited : c \in LinksOf(Childs[b])

\* What ParentFirst rests on: blkFind runs for a block that was visited.
FindersVisited == \A r \in Runs : pc[r] \in Finding => blk[r] \subseteq Visited

VisitInv == FilledIsVisited /\ ParentFirst /\ FindersVisited

\* numOfRequest never counts fewer blocks than are still asked for, so a round
\* is not closed over a block that may still come; and Adjust5 divides by a
\* positive number of requests, of which no more than all were answered.
RoundAccounting ==
    \A r \in Runs :
      /\ pc[r] \notin {"squeeze2", "pend"} =>
            Cardinality(requests[r]) <= numOfRequest[r]
      /\ pc[r] \in {"wait", "adjust"} =>
            totalrequests[r] > 0 /\ numOfRequest[r] <= totalrequests[r]

\* With one goroutine per peer the flag working says whether it runs.
WorkingFlagTruthful ==
    \A p \in Peers :
        working[p] <=> \E r \in Runs : Peer(r) = p /\ pc[r] \notin {"idle", "start"}

\* While Dispatch3 is not cancelled, a block that was found and not yet visited
\* is on the way of a goroutine that will not end before it is visited: one
\* that has it in its sequence, or that is inside blkFind with it.  Before any
\* worker has started, every worker has it.
Busy(r) == pc[r] \notin {"idle", "start", "finish", "clear"}

SomebodyResponsible ==
    ~ctxDone => \A c \in Tracked \ Visited :
        \/ \E r \in Runs : /\ Busy(r)
                           /\ \/ c \in sequence[Peer(r)]
                              \/ \E b \in blk[r] : c \in LinksOf(Childs[b])
        \/ /\ \A p \in worker \cup newpeer : c \in sequence[p]
           /\ \A r \in Runs : pc[r] \in {"idle", "start"}

\* Unless its context was cancelled, Dispatch3 returns nil because its workers
\* ended only if every block was visited: the file is complete.
CompleteOnNil == mpc = "done" /\ ~ctxDone => Visited = Cids

\* Dispatch3 implements BlockFetch.
Fetch == INSTANCE BlockFetch WITH
    visited <- Visited,
    status  <- IF mpc \notin Returned THEN "running"
               ELSE IF ctxDone THEN "cancelled" ELSE "done"

FetchSpec == Fetch!Spec

\* Every block of the DAG is visited in the end when every peer has them all.
EveryBlockVisited == <>(Visited = Cids)

-----------------------------------------------------------------------------
(* What comments of the code say and the code does not do. *)

\* blkFind "expends dispatcher queryState according to given cids": once a
\* block was visited and no blkFind is going on, its links are in the table.
BlkFindExpands ==
    (\A r \in Runs : pc[r] \notin Finding \cup {"visit"}) =>
        \A b \in Visited : LinksOf(Childs[b]) \subseteq Tracked

\* "no other worker take this job": a block is visited at most once.
VisitedOnce == \A c \in Cids : visits[c] <= 1

=============================================================================
