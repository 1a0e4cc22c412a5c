-------------------------- MODULE DispatcherProofs --------------------------
(* Types and safety of Dispatcher for any peers, any DAG and any number of  *)
(* goroutines per peer: workers ask only for known blocks, a Filled block   *)
(* is visited, blocks are found from the root downwards, a round is not     *)
(* closed over a block that may still come, and its efficiency is well      *)
(* defined.  From "Completeness" on: a fetch that ends without being        *)
(* cancelled is complete, for any peers and any DAG without shared blocks,  *)
(* with one goroutine per peer and a batch that never falls to 0.           *)
EXTENDS Dispatcher, FiniteSetTheorems, WellFoundedInduction, TLAPS

USE DEF Absent, Empty, Pending, Filled

-----------------------------------------------------------------------------
(* The operators *)

\* A goroutine belongs to a peer.
LEMMA PeerType == \A r \in Runs : Peer(r) \in Peers
  BY DEF Runs, Peer

\* What squeeze picks comes from the sequence it is given.
LEMMA PassType ==
  ASSUME NEW p, NEW Q \in SUBSET Cids, NEW s, NEW n
  PROVE  /\ Pass(p, Q, s, n) \in SUBSET Q
         /\ IsFiniteSet(Pass(p, Q, s, n))
         /\ Cardinality(Pass(p, Q, s, n)) \in Nat
<1>1. Pass(p, Q, s, n) \subseteq Q
  BY DEF Pass, Nearest
<1>2. IsFiniteSet(Pass(p, Q, s, n))
  BY <1>1, FS_Subset, DistanceAssumption
<1>3. QED
  BY <1>1, <1>2, FS_CardinalityType

\* absorb2 keeps to blocks it had or was given.
LEMMA AbsorbType ==
  ASSUME NEW D \in SUBSET Cids, NEW Q \in SUBSET Cids, NEW s \in Seq(Cids)
  PROVE  /\ AbsorbDistances(D, s) \in SUBSET Cids
         /\ AbsorbSequence(D, Q, s) \in SUBSET Cids
         /\ AbsorbSequence(D, Q, s) \subseteq Q \cup LinksOf(s)
  BY DEF AbsorbDistances, AbsorbSequence, FreshPrefix, LinksOf

\* Batch sizes stay between 0 and MaxBatch.
LEMMA BatchType ==
  /\ InitRequestBlkNumber \in 0..MaxBatch
  /\ \A a : \A L \in 0..MaxBatch : AdjustOutcomes(a, L) \subseteq 0..MaxBatch
<1>1. InitRequestBlkNumber \in 0..MaxBatch
  BY MaxBatchAssumption DEF InitRequestBlkNumber
<1>2. ASSUME NEW a, NEW L \in 0..MaxBatch
      PROVE  AdjustOutcomes(a, L) \subseteq 0..MaxBatch
  BY MaxBatchAssumption DEF AdjustOutcomes
<1>3. QED
  BY <1>1, <1>2

-----------------------------------------------------------------------------
(* Type correctness *)

\* The initial state has the declared types.
LEMMA TypeInit == Init => TypeOK
<1> SUFFICES ASSUME Init PROVE TypeOK
  OBVIOUS
<1> USE DEF Init
<1>1. DispTypes
  BY ConstantsAssumption DEF DispTypes
<1>2. MainTypes
  BY DEF MainTypes
<1>3. PeerTypes
  BY MaxBatchAssumption, BatchType DEF PeerTypes
<1>4. pc \in [Runs -> PCs]
  BY DEF PCs
<1>5. RoundTypes
  BY MaxBatchAssumption DEF RoundTypes
<1>6. FindTypes /\ OneBlock /\ ChildInRange
  BY DEF FindTypes, OneBlock, ChildInRange, Finding
<1>7. QED
  BY <1>1, <1>2, <1>3, <1>4, <1>5, <1>6 DEF TypeOK

\* Every step keeps the declared types.
LEMMA TypeStep == TypeOK /\ [Next]_vars => TypeOK'
<1> SUFFICES ASSUME TypeOK, [Next]_vars PROVE TypeOK'
  OBVIOUS
<1> USE DEF TypeOK, dispVars, mainVars, peerVars, roundVars, findVars
<1>1. CASE Start
  <2>1. DispTypes'
    <3>1. queryState' \in [Cids -> {Absent, Empty, Pending, Filled}]
      BY <1>1 DEF Start
    <3>2. cids' \in Seq(Cids)
      BY <1>1, ConstantsAssumption DEF Start
    <3>3. QED
      BY <1>1, <3>1, <3>2 DEF Start, DispTypes
  <2>2. MainTypes'
    BY <1>1 DEF Start, MainTypes, Returned
  <2>3. QED
    BY <1>1, <2>1, <2>2
      DEF Start, PeerTypes, RoundTypes, FindTypes, ChildInRange, runVars, OneBlock
<1>2. CASE AllEnds
  <2>1. MainTypes'
    BY <1>2 DEF AllEnds, MainTypes, Returned
  <2>2. QED
    BY <1>2, <2>1
      DEF AllEnds, DispTypes, PeerTypes, RoundTypes, FindTypes, ChildInRange, runVars, OneBlock
<1>3. CASE CancelCtx
  <2>1. MainTypes'
    BY <1>3 DEF CancelCtx, MainTypes, Returned
  <2>2. QED
    BY <1>3, <2>1
      DEF CancelCtx, DispTypes, PeerTypes, RoundTypes, FindTypes, ChildInRange, runVars, OneBlock
<1>4. CASE CtxReturn
  <2>1. MainTypes'
    BY <1>4 DEF CtxReturn, MainTypes, Returned
  <2>2. QED
    BY <1>4, <2>1
      DEF CtxReturn, DispTypes, PeerTypes, RoundTypes, FindTypes, ChildInRange, runVars, OneBlock
<1>5. ASSUME NEW p \in Peers, RecvKnownProvider(p) PROVE TypeOK'
  <2>1. pc' \in [Runs -> PCs]
    BY <1>5 DEF RecvKnownProvider, Spawn, Runs, PCs
  <2>2. ChildInRange'
    BY <1>5 DEF RecvKnownProvider, ChildInRange, Spawn, Runs, Finding
  <2>3. QED
    BY <1>5, <2>1, <2>2
      DEF RecvKnownProvider, DispTypes, MainTypes, PeerTypes, RoundTypes, FindTypes, OneBlock
<1>6. ASSUME NEW p \in Peers, RecvNewProvider(p) PROVE TypeOK'
  <2>1. MainTypes'
    BY <1>6 DEF RecvNewProvider, MainTypes
  <2>2. PeerTypes'
    <3>1. /\ AbsorbDistances({}, cids) \in SUBSET Cids
          /\ AbsorbSequence({}, {}, cids) \in SUBSET Cids
      BY AbsorbType DEF DispTypes
    <3>2. distances' \in [Peers -> SUBSET Cids]
      BY <1>6, <3>1 DEF RecvNewProvider, PeerTypes
    <3>3. sequence' \in [Peers -> SUBSET Cids]
      BY <1>6, <3>1 DEF RecvNewProvider, PeerTypes
    <3>4. requestEachTime' \in [Peers -> 0..MaxBatch]
      BY <1>6, BatchType DEF RecvNewProvider, PeerTypes
    <3>5. QED
      BY <1>6, <3>2, <3>3, <3>4 DEF RecvNewProvider, PeerTypes
  <2>3. QED
    BY <1>6, <2>1, <2>2
      DEF RecvNewProvider, DispTypes, RoundTypes, FindTypes, ChildInRange, runVars, OneBlock
<1>7. ASSUME NEW p \in Peers, Register(p) PROVE TypeOK'
  <2>1. DispTypes'
    BY <1>7 DEF Register, DispTypes
  <2>2. MainTypes'
    BY <1>7 DEF Register, MainTypes
  <2>3. pc' \in [Runs -> PCs]
    BY <1>7 DEF Register, Spawn, Runs, PCs
  <2>4. ChildInRange'
    BY <1>7 DEF Register, ChildInRange, Spawn, Runs, Finding
  <2>5. QED
    BY <1>7, <2>1, <2>2, <2>3, <2>4
      DEF Register, PeerTypes, RoundTypes, FindTypes, OneBlock
<1>8. ASSUME NEW p \in Peers, ScanWorker(p) PROVE TypeOK'
  <2>1. MainTypes'
    BY <1>8 DEF ScanWorker, MainTypes
  <2>2. QED
    BY <1>8, <2>1
      DEF ScanWorker, DispTypes, PeerTypes, RoundTypes, FindTypes, ChildInRange, runVars, OneBlock
<1>9. ASSUME NEW r \in Runs, RunStart(r) PROVE TypeOK'
  <2>1. PeerTypes'
    BY <1>9, PeerType DEF RunStart, PeerTypes
  <2>2. pc' \in [Runs -> PCs]
    BY <1>9 DEF RunStart, PCs
  <2>3. ChildInRange'
    BY <1>9 DEF RunStart, ChildInRange, Finding
  <2>4. QED
    BY <1>9, <2>1, <2>2, <2>3
      DEF RunStart, DispTypes, MainTypes, RoundTypes, FindTypes, OneBlock
<1>10. ASSUME NEW r \in Runs, SqueezeEmpty(r) PROVE TypeOK'
  <2>1. pc' \in [Runs -> PCs]
    BY <1>10 DEF SqueezeEmpty, PCs
  <2>2. RoundTypes'
    <3>  DEFINE L == requestEachTime[Peer(r)]
               picked == Pass(Peer(r), sequence[Peer(r)], Empty, IF L = 0 THEN 1 ELSE L)
    <3>1. picked \in SUBSET Cids /\ Cardinality(picked) \in Nat
      BY PeerType, PassType DEF PeerTypes
    <3>2. snapshot' \in [Runs -> SUBSET Cids]
      BY <1>10, PeerType DEF SqueezeEmpty, RoundTypes, PeerTypes
    <3>3. limit' \in [Runs -> 0..MaxBatch]
      BY <1>10, PeerType DEF SqueezeEmpty, RoundTypes, PeerTypes
    <3>4. toRequest' \in [Runs -> SUBSET Cids]
      BY <1>10, <3>1 DEF SqueezeEmpty, RoundTypes
    <3>5. numOfRequest' \in [Runs -> Int]
      BY <1>10, <3>1 DEF SqueezeEmpty, RoundTypes
    <3>6. QED
      BY <1>10, <3>2, <3>3, <3>4, <3>5 DEF SqueezeEmpty, RoundTypes
  <2>3. ChildInRange'
    BY <1>10 DEF SqueezeEmpty, ChildInRange, Finding
  <2>4. QED
    BY <1>10, <2>1, <2>2, <2>3
      DEF SqueezeEmpty, DispTypes, MainTypes, PeerTypes, FindTypes, OneBlock
<1>11. ASSUME NEW r \in Runs, SqueezePending(r) PROVE TypeOK'
  <2>1. pc' \in [Runs -> PCs]
    BY <1>11 DEF SqueezePending, PCs
  <2>2. RoundTypes'
    BY <1>11, PeerType, PassType DEF SqueezePending, RoundTypes, Fetched
  <2>3. ChildInRange'
    BY <1>11 DEF SqueezePending, ChildInRange, Finding
  <2>4. QED
    BY <1>11, <2>1, <2>2, <2>3
      DEF SqueezePending, DispTypes, MainTypes, PeerTypes, FindTypes, OneBlock
<1>12. ASSUME NEW r \in Runs, BlkPending(r) PROVE TypeOK'
  <2>1. DispTypes'
    BY <1>12 DEF BlkPending, DispTypes
  <2>2. pc' \in [Runs -> PCs]
    BY <1>12 DEF BlkPending, PCs
  <2>3. RoundTypes'
    <3>1. snapshot' \in [Runs -> SUBSET Cids]
      BY <1>12 DEF BlkPending, RoundTypes
    <3>2. limit' \in [Runs -> 0..MaxBatch]
      BY <1>12, MaxBatchAssumption DEF BlkPending, RoundTypes
    <3>3. toRequest' \in [Runs -> SUBSET Cids]
      BY <1>12 DEF BlkPending, RoundTypes
    <3>4. requests' \in [Runs -> SUBSET Cids]
      BY <1>12 DEF BlkPending, RoundTypes
    <3>5. totalrequests' \in [Runs -> Int]
      BY <1>12 DEF BlkPending, RoundTypes
    <3>6. QED
      BY <1>12, <3>1, <3>2, <3>3, <3>4, <3>5 DEF BlkPending, RoundTypes
  <2>4. ChildInRange'
    BY <1>12 DEF BlkPending, ChildInRange, Finding
  <2>5. QED
    BY <1>12, <2>1, <2>2, <2>3, <2>4
      DEF BlkPending, MainTypes, PeerTypes, FindTypes, OneBlock
<1>13. ASSUME NEW r \in Runs, NEW c \in Cids, Receive(r, c) PROVE TypeOK'
  <2>1. pc' \in [Runs -> PCs]
    BY <1>13 DEF Receive, PCs
  <2>2. RoundTypes'
    BY <1>13 DEF Receive, RoundTypes
  <2>3. FindTypes'
    <3>1. blk' \in [Runs -> SUBSET Cids]
      BY <1>13 DEF Receive, FindTypes
    <3>2. QED
      BY <1>13, <3>1 DEF Receive, FindTypes
  <2>4. ChildInRange'
    BY <1>13 DEF Receive, ChildInRange, Finding, FindTypes
  <2>5. OneBlock'
    <3>1. blk' = [blk EXCEPT ![r] = {c}] \/ blk' = blk
      BY <1>13 DEF Receive
    <3>2. \A s \in Runs : blk'[s] = {c} \/ blk'[s] = blk[s]
      BY <3>1 DEF FindTypes
    <3>3. QED
      BY <3>2 DEF OneBlock
  <2>6. QED
    BY <1>13, <2>1, <2>2, <2>3, <2>4, <2>5
      DEF Receive, DispTypes, MainTypes, PeerTypes, OneBlock
<1>14. ASSUME NEW r \in Runs, Fill(r) PROVE TypeOK'
  <2>1. DispTypes'
    BY <1>14 DEF Fill, DispTypes
  <2>2. pc' \in [Runs -> PCs]
    BY <1>14 DEF Fill, PCs
  <2>3. ChildInRange'
    BY <1>14 DEF Fill, ChildInRange, Finding
  <2>4. QED
    BY <1>14, <2>1, <2>2, <2>3
      DEF Fill, MainTypes, PeerTypes, RoundTypes, FindTypes, OneBlock
<1>15. ASSUME NEW r \in Runs, Visit(r) PROVE TypeOK'
  <2>1. PICK b \in blk[r] : Visit(r)!(b)
    BY <1>15 DEF Visit
  <2>2. DispTypes'
    BY <2>1, ConstantsAssumption DEF DispTypes, FindTypes
  <2>3. pc' \in [Runs -> PCs]
    BY <2>1 DEF AfterVisit, Resume, PCs
  <2>4. FindTypes'
    <3>1. CASE Childs[b] = <<>>
      <4>1. child' = [child EXCEPT ![r] = 1] /\ blk' = [blk EXCEPT ![r] = {}]
        BY <2>1, <3>1 DEF LeaveBlk
      <4>2. oldcids' = oldcids
        BY <2>1
      <4>3. QED
        BY <4>1, <4>2 DEF FindTypes
    <3>2. CASE Childs[b] # <<>>
      BY <2>1, <3>2 DEF FindTypes
    <3>3. QED
      BY <3>1, <3>2
  <2>5. ChildInRange'
    <3>1. CASE Childs[b] = <<>>
      <4>1. child' = [child EXCEPT ![r] = 1] /\ blk' = [blk EXCEPT ![r] = {}]
        BY <2>1, <3>1 DEF LeaveBlk
      <4>2. pc' = [pc EXCEPT ![r] = Resume(r)]
        BY <2>1, <3>1 DEF AfterVisit
      <4>3. QED
        BY <4>1, <4>2 DEF ChildInRange, FindTypes, Resume, Finding
    <3>2. CASE Childs[b] # <<>>
      <4>1. child' = child /\ blk' = blk /\ pc' = [pc EXCEPT ![r] = "find"]
        BY <2>1, <3>2 DEF AfterVisit
      <4>2. child[r] = 1
        BY <2>1 DEF ChildInRange, Finding
      <4>3. \A x \in blk[r] : 1 \in DOMAIN Childs[x]
        BY <2>1, <3>2, ConstantsAssumption DEF FindTypes, OneBlock
      <4>4. QED
        BY <4>1, <4>2, <4>3 DEF ChildInRange, FindTypes, Finding
    <3>3. QED
      BY <3>1, <3>2
  <2>6. OneBlock'
    BY <2>1 DEF OneBlock, FindTypes, LeaveBlk
  <2>7. QED
    BY <2>1, <2>2, <2>3, <2>4, <2>5, <2>6 DEF MainTypes, PeerTypes, RoundTypes, OneBlock
<1>16. ASSUME NEW r \in Runs, FindLoad(r) PROVE TypeOK'
  <2>1. PICK b \in blk[r] : FindLoad(r)!(b)
    BY <1>16 DEF FindLoad
  <2>2. CASE queryState[Childs[b][child[r]]] # Absent
    <3>1. /\ pc' = [pc EXCEPT ![r] = Resume(r)]
          /\ blk' = [blk EXCEPT ![r] = {}]
          /\ child' = [child EXCEPT ![r] = 1]
      BY <2>1, <2>2 DEF BackToLoop, LeaveBlk
    <3>2. pc' \in [Runs -> PCs] /\ FindTypes' /\ OneBlock'
      BY <2>1, <3>1 DEF Resume, PCs, FindTypes, OneBlock
    <3>3. ChildInRange'
      BY <3>1 DEF ChildInRange, Resume, Finding, FindTypes
    <3>4. QED
      BY <2>1, <3>2, <3>3 DEF DispTypes, MainTypes, PeerTypes, RoundTypes
  <2>3. CASE queryState[Childs[b][child[r]]] = Absent
    <3>1. /\ pc' = [pc EXCEPT ![r] = "store"]
          /\ UNCHANGED <<blk, child>>
      BY <2>1, <2>3
    <3>2. pc' \in [Runs -> PCs] /\ FindTypes' /\ OneBlock'
      BY <2>1, <3>1 DEF PCs, FindTypes, OneBlock
    <3>3. ChildInRange'
      BY <2>1, <3>1 DEF ChildInRange, Finding
    <3>4. QED
      BY <2>1, <3>2, <3>3 DEF DispTypes, MainTypes, PeerTypes, RoundTypes
  <2>4. QED
    BY <2>2, <2>3
<1>17. ASSUME NEW r \in Runs, FindStore(r) PROVE TypeOK'
  <2>1. DispTypes'
    <3>1. Empty \in {Absent, Empty, Pending, Filled} /\ UNCHANGED <<cids, worker, visits>>
      BY <1>17 DEF FindStore
    <3>2. PICK x : queryState' = [queryState EXCEPT ![x] = Empty]
      BY <1>17 DEF FindStore
    <3>3. queryState' \in [Cids -> {Absent, Empty, Pending, Filled}]
      BY <3>1, <3>2 DEF DispTypes
    <3>4. QED
      BY <3>1, <3>3 DEF DispTypes
  <2>2. pc' \in [Runs -> PCs]
    BY <1>17 DEF FindStore, PCs
  <2>3. FindTypes'
    <3>1. oldcids' \in [Runs -> Seq(Cids)]
      BY <1>17 DEF FindStore, FindTypes, DispTypes
    <3>2. QED
      BY <1>17, <3>1 DEF FindStore, FindTypes
  <2>4. ChildInRange'
    BY <1>17 DEF FindStore, ChildInRange, Finding, FindTypes
  <2>5. QED
    BY <1>17, <2>1, <2>2, <2>3, <2>4
      DEF FindStore, MainTypes, PeerTypes, RoundTypes, OneBlock
<1>18. ASSUME NEW r \in Runs, FindAppend(r) PROVE TypeOK'
  <2>1. DispTypes'
    <3>1. cids' \in Seq(Cids)
      BY <1>18, ConstantsAssumption
      DEF FindAppend, DispTypes, ChildInRange, Finding, FindTypes
    <3>2. QED
      BY <1>18, <3>1 DEF FindAppend, DispTypes
  <2>2. pc' \in [Runs -> PCs]
    BY <1>18 DEF FindAppend, PCs
  <2>3. FindTypes'
    <3>1. child' \in [Runs -> Nat \ {0}]
      BY <1>18 DEF FindAppend, FindTypes
    <3>2. oldcids' \in [Runs -> Seq(Cids)]
      BY <1>18 DEF FindAppend, FindTypes
    <3>3. QED
      BY <1>18, <3>1, <3>2 DEF FindAppend, FindTypes
  <2>4. ChildInRange'
    <3>1. PICK b \in blk[r] : FindAppend(r)!(b)
      BY <1>18 DEF FindAppend
    <3>2. blk[r] = {b} /\ Childs[b] \in Seq(Cids) /\ child[r] \in DOMAIN Childs[b]
      BY <3>1, ConstantsAssumption DEF FindTypes, OneBlock, ChildInRange, Finding
    <3>3. CASE LastChild(r, b)
      BY <3>1, <3>2, <3>3 DEF ChildInRange, Finding, FindTypes
    <3>4. CASE ~LastChild(r, b)
      <4>1. child[r] + 1 \in DOMAIN Childs[b]
        BY <3>2, <3>4 DEF LastChild, FindTypes
      <4>2. QED
        BY <3>1, <3>2, <3>4, <4>1 DEF ChildInRange, Finding, FindTypes
    <3>5. QED
      BY <3>3, <3>4
  <2>5. QED
    BY <1>18, <2>1, <2>2, <2>3, <2>4
      DEF FindAppend, MainTypes, PeerTypes, RoundTypes, OneBlock
<1>19. ASSUME NEW r \in Runs, Inform(r) PROVE TypeOK'
  <2>1. PeerTypes'
    <3>1. PICK b \in blk[r] : Inform(r)!(b)
      BY <1>19 DEF Inform
    <3>2. \A p \in Peers : /\ AbsorbDistances(distances[p], Childs[b]) \in SUBSET Cids
                           /\ AbsorbSequence(distances[p], sequence[p], Childs[b]) \in SUBSET Cids
      <4>1. Childs[b] \in Seq(Cids)
        BY ConstantsAssumption DEF FindTypes
      <4>2. \A p \in Peers : distances[p] \in SUBSET Cids /\ sequence[p] \in SUBSET Cids
        BY DEF PeerTypes
      <4>3. QED
        BY <4>1, <4>2, AbsorbType
    <3>3. distances' \in [Peers -> SUBSET Cids]
      BY <1>19, <3>1, <3>2 DEF Inform, PeerTypes
    <3>4. sequence' \in [Peers -> SUBSET Cids]
      BY <1>19, <3>1, <3>2 DEF Inform, PeerTypes
    <3>5. QED
      BY <1>19, <3>3, <3>4 DEF Inform, PeerTypes
  <2>2. pc' \in [Runs -> PCs]
    BY <1>19 DEF Inform, BackToLoop, Resume, PCs
  <2>3. FindTypes'
    BY <1>19 DEF Inform, FindTypes, BackToLoop, LeaveBlk
  <2>4. ChildInRange'
    BY <1>19
      DEF Inform, ChildInRange, BackToLoop, LeaveBlk, Resume, Finding, FindTypes
  <2>5. OneBlock'
    BY <1>19 DEF Inform, BackToLoop, LeaveBlk, OneBlock, FindTypes
  <2>6. QED
    BY <1>19, <2>1, <2>2, <2>3, <2>4, <2>5
      DEF Inform, DispTypes, MainTypes, RoundTypes, OneBlock
<1>20. ASSUME NEW r \in Runs, RoundTimeout(r) PROVE TypeOK'
  <2>1. pc' \in [Runs -> PCs]
    BY <1>20 DEF RoundTimeout, PCs
  <2>2. ChildInRange'
    BY <1>20 DEF RoundTimeout, ChildInRange, Finding
  <2>3. QED
    BY <1>20, <2>1, <2>2
      DEF RoundTimeout, DispTypes, MainTypes, PeerTypes, RoundTypes, FindTypes, OneBlock
<1>21. ASSUME NEW r \in Runs, NextRound(r) PROVE TypeOK'
  <2>1. PeerTypes'
    BY <1>21, PeerType, BatchType DEF NextRound, PeerTypes, NextAdjuster
  <2>2. pc' \in [Runs -> PCs]
    BY <1>21 DEF NextRound, PCs
  <2>3. RoundTypes'
    BY <1>21 DEF NextRound, RoundTypes
  <2>4. ChildInRange'
    BY <1>21 DEF NextRound, ChildInRange, Finding
  <2>5. QED
    BY <1>21, <2>1, <2>2, <2>3, <2>4
      DEF NextRound, DispTypes, MainTypes, FindTypes, OneBlock
<1>22. ASSUME NEW r \in Runs, CtxExit(r) PROVE TypeOK'
  <2>1. pc' \in [Runs -> PCs]
    BY <1>22 DEF CtxExit, Deferred, PCs
  <2>2. RoundTypes'
    BY <1>22 DEF CtxExit, RoundTypes
  <2>3. ChildInRange'
    BY <1>22 DEF CtxExit, ChildInRange, CtxChecked, Deferred, Finding
  <2>4. QED
    BY <1>22, <2>1, <2>2, <2>3
      DEF CtxExit, DispTypes, MainTypes, PeerTypes, FindTypes, OneBlock
<1>23. ASSUME NEW r \in Runs, Finish(r) PROVE TypeOK'
  <2>1. MainTypes'
    BY <1>23 DEF Finish, MainTypes, DispTypes
  <2>2. pc' \in [Runs -> PCs]
    BY <1>23 DEF Finish, Deferred, PCs
  <2>3. RoundTypes'
    <3>1. snapshot' \in [Runs -> SUBSET Cids]
      BY <1>23 DEF Finish, RoundTypes
    <3>2. limit' \in [Runs -> 0..MaxBatch]
      BY <1>23, MaxBatchAssumption DEF Finish, RoundTypes
    <3>3. QED
      BY <1>23, <3>1, <3>2 DEF Finish, RoundTypes
  <2>4. ChildInRange'
    BY <1>23 DEF Finish, ChildInRange, Deferred, Finding
  <2>5. QED
    BY <1>23, <2>1, <2>2, <2>3, <2>4
      DEF Finish, DispTypes, PeerTypes, FindTypes, OneBlock
<1>24. ASSUME NEW r \in Runs, RunExit(r) PROVE TypeOK'
  <2>1. PeerTypes'
    BY <1>24, PeerType DEF RunExit, PeerTypes
  <2>2. pc' \in [Runs -> PCs]
    BY <1>24 DEF RunExit, PCs
  <2>3. ChildInRange'
    BY <1>24 DEF RunExit, ChildInRange, Finding
  <2>4. QED
    BY <1>24, <2>1, <2>2, <2>3
      DEF RunExit, DispTypes, MainTypes, RoundTypes, FindTypes, OneBlock
<1>25. CASE UNCHANGED vars
  BY <1>25 DEF vars, runVars, DispTypes, MainTypes, PeerTypes, RoundTypes,
     FindTypes, OneBlock, ChildInRange
<1>26. QED
  BY <1>1, <1>2, <1>3, <1>4, <1>5, <1>6, <1>7, <1>8, <1>9,
     <1>10, <1>11, <1>12, <1>13, <1>14, <1>15, <1>16, <1>17, <1>18,
     <1>19, <1>20, <1>21, <1>22, <1>23, <1>24, <1>25
  DEF Next, MainNext, RunNext, RunLocal

\* Type correctness of every reachable state.
THEOREM TypeCorrect == Spec => []TypeOK
  BY TypeInit, TypeStep, PTL DEF Spec

-----------------------------------------------------------------------------
(* Facts used by every step *)

\* The actions of Dispatch3's own goroutine after its start and before its end.
MainLoop == \/ \E p \in Peers : \/ RecvKnownProvider(p)
                                \/ RecvNewProvider(p)
                                \/ Register(p)
                                \/ ScanWorker(p)
            \/ AllEnds
            \/ CancelCtx
            \/ CtxReturn

\* Only Start, blkPending, Fill and blkFind write the table.
LEMMA TableWrites ==
  ASSUME [Next]_vars
  PROVE  \/ queryState' = queryState
         \/ Start
         \/ \E r \in Runs : BlkPending(r) \/ Fill(r) \/ FindStore(r)
<1> USE DEF dispVars
<1>1. CASE MainLoop
  BY <1>1 DEF MainLoop, RecvKnownProvider, RecvNewProvider, Register, ScanWorker,
     AllEnds, CancelCtx, CtxReturn
<1>2. CASE \E r \in Runs : RunNext(r)
  BY <1>2 DEF RunNext, RunLocal, RunStart, SqueezeEmpty, SqueezePending, Visit,
     FindLoad, FindAppend, Inform, NextRound, CtxExit, RunExit, Receive,
     RoundTimeout, Finish
<1>3. CASE UNCHANGED vars
  BY <1>3 DEF vars
<1>4. QED
  BY <1>1, <1>2, <1>3 DEF Next, MainNext, MainLoop

\* No step takes a block out of the table.
LEMMA TrackedGrows ==
  ASSUME TypeOK, NotStarted, [Next]_vars
  PROVE  Tracked \subseteq Tracked'
<1>1. CASE queryState' = queryState
  BY <1>1 DEF Tracked
<1>2. CASE Start
  BY <1>2 DEF Start, NotStarted
<1>3. ASSUME NEW r \in Runs, BlkPending(r) PROVE Tracked \subseteq Tracked'
  <2>1. PICK c \in toRequest[r] : queryState' = [queryState EXCEPT ![c] = Pending]
    BY <1>3 DEF BlkPending
  <2>2. \A x \in Cids : queryState'[x] = queryState[x] \/ queryState'[x] = Pending
    BY <2>1 DEF TypeOK, DispTypes
  <2>3. QED
    BY <2>2 DEF Tracked
<1>4. ASSUME NEW r \in Runs, Fill(r) PROVE Tracked \subseteq Tracked'
  <2>1. \A x \in Cids : queryState'[x] = queryState[x] \/ queryState'[x] = Filled
    BY <1>4 DEF Fill
  <2>2. QED
    BY <2>1 DEF Tracked
<1>5. ASSUME NEW r \in Runs, FindStore(r) PROVE Tracked \subseteq Tracked'
  <2>1. PICK b \in blk[r] : FindStore(r)!(b)
    BY <1>5 DEF FindStore
  <2>2. \A x \in Cids : queryState'[x] = queryState[x] \/ queryState'[x] = Empty
    BY <2>1 DEF TypeOK, DispTypes
  <2>3. QED
    BY <2>2 DEF Tracked
<1>6. QED
  BY <1>1, <1>2, <1>3, <1>4, <1>5, TableWrites

\* Only Visit changes the counts of visits, and it never lowers them.
LEMMA VisitedGrows ==
  ASSUME TypeOK, [Next]_vars
  PROVE  Visited \subseteq Visited'
<1> USE DEF dispVars
<1>1. CASE Start \/ MainLoop
  BY <1>1 DEF MainLoop, Start, RecvKnownProvider, RecvNewProvider, Register,
     ScanWorker, AllEnds, CancelCtx, CtxReturn, Visited
<1>2. ASSUME NEW r \in Runs, Visit(r) PROVE Visited \subseteq Visited'
  BY <1>2, ConstantsAssumption DEF Visit, Visited, TypeOK, DispTypes
<1>3. ASSUME NEW r \in Runs, RunNext(r), ~Visit(r) PROVE visits' = visits
  BY <1>3 DEF RunNext, RunLocal, RunStart, SqueezeEmpty, SqueezePending,
     BlkPending, Fill, FindLoad, FindStore, FindAppend, Inform, NextRound,
     CtxExit, RunExit, Receive, RoundTimeout, Finish
<1>4. CASE UNCHANGED vars
  BY <1>4 DEF vars, Visited
<1>5. QED
  BY <1>1, <1>2, <1>3, <1>4 DEF Next, MainNext, MainLoop, Visited

\* A goroutine runs only after Dispatch3 has started.
LEMMA NotStartedStep ==
  ASSUME TypeOK, NotStarted, [Next]_vars
  PROVE  NotStarted'
<1> USE DEF dispVars, mainVars, NotStarted
<1>1. CASE Start
  BY <1>1 DEF Start
<1>2. CASE MainLoop
  BY <1>2 DEF MainLoop, RecvKnownProvider, RecvNewProvider, Register, ScanWorker,
     AllEnds, CancelCtx, CtxReturn, runVars, Tracked
<1>3. ASSUME NEW r \in Runs, RunNext(r) PROVE NotStarted'
  <2>1. pc[r] # "idle" /\ (mpc' = mpc \/ mpc' = "scan")
    BY <1>3 DEF RunNext, RunLocal, RunStart, SqueezeEmpty, SqueezePending,
       BlkPending, Fill, Visit, FindLoad, FindStore, FindAppend, Inform,
       NextRound, CtxExit, CtxChecked, RunExit, Receive, RoundTimeout, Finish
  <2>2. QED
    BY <2>1
<1>4. CASE UNCHANGED vars
  BY <1>4 DEF vars, runVars, Tracked
<1>5. QED
  BY <1>1, <1>2, <1>3, <1>4 DEF Next, MainNext, MainLoop

-----------------------------------------------------------------------------
(* Workers ask only for blocks of the table *)

\* Initially there is nothing to ask for.
LEMMA TableInit == Init => TableInv
  BY DEF Init, TableInv, NotStarted, LinksTracked, SequenceTracked, Tracked,
     LinksOf, Finding, Runs

\* A step that leaves d.cids and the goroutines' places in blkFind alone keeps
\* what is known of them: the table only grows.
LEMMA LinksStutter ==
  ASSUME TypeOK, TableInv, [Next]_vars, UNCHANGED <<cids, findVars>>,
         \A r \in Runs : pc'[r] = pc[r] \/ pc'[r] \notin Finding
  PROVE  LinksTracked'
<1>1. Tracked \subseteq Tracked'
  BY TrackedGrows DEF TableInv
<1>2. LinksOf(cids') \subseteq Tracked'
  BY <1>1 DEF TableInv, LinksTracked
<1>3. ASSUME NEW r \in Runs
      PROVE  /\ (LinksOf(oldcids[r]) \cup blk[r] \subseteq Tracked)'
             /\ (pc[r] \in Finding =>
                   \A b \in blk[r] : FoundLinks(r, b) \subseteq Tracked)'
             /\ (pc[r] = "inform" =>
                   \A b \in blk[r] : LinksOf(Childs[b]) \subseteq Tracked)'
  BY <1>1, <1>3 DEF TableInv, LinksTracked, findVars, FoundLinks, Finding
<1>4. QED
  BY <1>2, <1>3 DEF LinksTracked

\* The same when one goroutine has left blkFind or taken a tracked block.
LEMMA LinksOther ==
  ASSUME TypeOK, TableInv, [Next]_vars, UNCHANGED <<cids, oldcids>>,
         NEW r \in Runs, pc'[r] \notin Finding, blk'[r] \subseteq Tracked,
         \A s \in Runs \ {r} :
            pc'[s] = pc[s] /\ blk'[s] = blk[s] /\ child'[s] = child[s]
  PROVE  LinksTracked'
<1>1. Tracked \subseteq Tracked'
  BY TrackedGrows DEF TableInv
<1>2. LinksOf(cids') \subseteq Tracked'
  BY <1>1 DEF TableInv, LinksTracked
<1>3. ASSUME NEW s \in Runs
      PROVE  /\ (LinksOf(oldcids[s]) \cup blk[s] \subseteq Tracked)'
             /\ (pc[s] \in Finding =>
                   \A b \in blk[s] : FoundLinks(s, b) \subseteq Tracked)'
             /\ (pc[s] = "inform" =>
                   \A b \in blk[s] : LinksOf(Childs[b]) \subseteq Tracked)'
  <2>1. CASE s = r
    BY <1>1, <2>1 DEF TableInv, LinksTracked, Finding
  <2>2. CASE s # r
    BY <1>1, <1>3, <2>2 DEF TableInv, LinksTracked, FoundLinks, Finding
  <2>3. QED
    BY <2>1, <2>2
<1>4. QED
  BY <1>2, <1>3 DEF LinksTracked

\* A step that gives no goroutine and no worker a new block to ask for.
LEMMA SequenceStutter ==
  ASSUME TypeOK, TableInv, [Next]_vars, UNCHANGED <<sequence, roundVars>>
  PROVE  SequenceTracked'
<1>1. Tracked \subseteq Tracked'
  BY TrackedGrows DEF TableInv
<1>2. QED
  BY <1>1 DEF TableInv, SequenceTracked, roundVars

\* The same when one goroutine asks for blocks its worker knows.
LEMMA SequenceOther ==
  ASSUME TypeOK, TableInv, [Next]_vars, UNCHANGED sequence,
         NEW r \in Runs,
         snapshot'[r] \cup toRequest'[r] \cup requests'[r] \subseteq Tracked,
         \A s \in Runs \ {r} : /\ snapshot'[s] = snapshot[s]
                               /\ toRequest'[s] = toRequest[s]
                               /\ requests'[s] = requests[s]
  PROVE  SequenceTracked'
<1>1. Tracked \subseteq Tracked'
  BY TrackedGrows DEF TableInv
<1>2. QED
  BY <1>1 DEF TableInv, SequenceTracked

\* Every step keeps the table invariant.
LEMMA TableStep ==
  ASSUME TypeOK, TableInv, [Next]_vars
  PROVE  TableInv'
<1>1. NotStarted'
  BY NotStartedStep DEF TableInv
<1>2. LinksTracked' /\ SequenceTracked'
  <2> USE DEF TypeOK, dispVars, mainVars, peerVars
  <2>1. CASE Start
    <3>1. UNCHANGED <<sequence, roundVars, findVars, pc>>
      BY <2>1 DEF Start, runVars, roundVars, findVars
    <3>2. SequenceTracked'
      BY <3>1, SequenceStutter
    <3>3. LinksOf(cids') \subseteq Tracked'
      BY <2>1, ConstantsAssumption DEF Start, LinksOf, Tracked
    <3>4. \A r \in Runs : pc'[r] \notin Finding /\ LinksOf(oldcids'[r]) \cup blk'[r] = {}
      BY <2>1, <3>1 DEF Start, TableInv, NotStarted, LinksTracked, Finding, findVars
    <3>5. QED
      BY <3>2, <3>3, <3>4 DEF LinksTracked, Finding
  <2>2. CASE MainLoop
    <3>1. UNCHANGED <<cids, roundVars, findVars>>
      BY <2>2 DEF MainLoop, RecvKnownProvider, RecvNewProvider, Register,
         ScanWorker, AllEnds, CancelCtx, CtxReturn, runVars, roundVars, findVars
    <3>2. \A r \in Runs : pc'[r] = pc[r] \/ pc'[r] \notin Finding
      BY <2>2 DEF MainLoop, RecvKnownProvider, RecvNewProvider, Register, Spawn,
         ScanWorker, AllEnds, CancelCtx, CtxReturn, runVars, Finding, Runs
    <3>3. LinksTracked'
      BY <3>1, <3>2, LinksStutter
    <3>4. ASSUME NEW p \in Peers, RecvNewProvider(p) PROVE SequenceTracked'
      <4>1. AbsorbSequence({}, {}, cids) \subseteq Tracked
        <5>1. AbsorbSequence({}, {}, cids) \subseteq {} \cup LinksOf(cids)
          BY AbsorbType DEF DispTypes
        <5>2. QED
          BY <5>1 DEF TableInv, LinksTracked
      <4>2. Tracked' = Tracked
        BY <3>4 DEF RecvNewProvider, Tracked
      <4>3. QED
        BY <3>1, <3>4, <4>1, <4>2
        DEF RecvNewProvider, TableInv, SequenceTracked, PeerTypes, roundVars
    <3>5. CASE \A p \in Peers : ~RecvNewProvider(p)
      <4>1. UNCHANGED sequence
        BY <2>2, <3>5 DEF MainLoop, RecvKnownProvider, Register, ScanWorker,
           AllEnds, CancelCtx, CtxReturn
      <4>2. QED
        BY <3>1, <3>3, <4>1, SequenceStutter
    <3>6. QED
      BY <3>3, <3>4, <3>5
  <2>3. ASSUME NEW r \in Runs, RunStart(r) PROVE LinksTracked' /\ SequenceTracked'
    <3>1. UNCHANGED <<cids, sequence, roundVars, findVars>>
      BY <2>3 DEF RunStart
    <3>2. \A s \in Runs : pc'[s] = pc[s] \/ pc'[s] \notin Finding
      BY <2>3 DEF RunStart, Finding
    <3>3. QED
      BY <3>1, <3>2, LinksStutter, SequenceStutter
  <2>4. ASSUME NEW r \in Runs, Fill(r) PROVE LinksTracked' /\ SequenceTracked'
    <3>1. UNCHANGED <<cids, sequence, roundVars, findVars>>
      BY <2>4 DEF Fill
    <3>2. \A s \in Runs : pc'[s] = pc[s] \/ pc'[s] \notin Finding
      BY <2>4 DEF Fill, Finding
    <3>3. QED
      BY <3>1, <3>2, LinksStutter, SequenceStutter
  <2>5. ASSUME NEW r \in Runs, RunExit(r) PROVE LinksTracked' /\ SequenceTracked'
    <3>1. UNCHANGED <<cids, sequence, roundVars, findVars>>
      BY <2>5 DEF RunExit
    <3>2. \A s \in Runs : pc'[s] = pc[s] \/ pc'[s] \notin Finding
      BY <2>5 DEF RunExit, Finding
    <3>3. QED
      BY <3>1, <3>2, LinksStutter, SequenceStutter
  <2>6. ASSUME NEW r \in Runs, RoundTimeout(r) PROVE LinksTracked' /\ SequenceTracked'
    <3>1. UNCHANGED <<cids, sequence, roundVars, findVars>>
      BY <2>6 DEF RoundTimeout
    <3>2. \A s \in Runs : pc'[s] = pc[s] \/ pc'[s] \notin Finding
      BY <2>6 DEF RoundTimeout, Finding
    <3>3. QED
      BY <3>1, <3>2, LinksStutter, SequenceStutter
  <2>7. ASSUME NEW r \in Runs, SqueezeEmpty(r) PROVE LinksTracked' /\ SequenceTracked'
    <3>1. UNCHANGED <<cids, sequence, findVars>>
      BY <2>7 DEF SqueezeEmpty
    <3>2. \A s \in Runs : pc'[s] = pc[s] \/ pc'[s] \notin Finding
      BY <2>7 DEF SqueezeEmpty, Finding
    <3>3. snapshot'[r] \cup toRequest'[r] \cup requests'[r] \subseteq Tracked
      BY <2>7, PassType, PeerType DEF SqueezeEmpty, TableInv, SequenceTracked, PeerTypes, RoundTypes
    <3>4. \A s \in Runs \ {r} : /\ snapshot'[s] = snapshot[s]
                                /\ toRequest'[s] = toRequest[s]
                                /\ requests'[s] = requests[s]
      BY <2>7 DEF SqueezeEmpty, RoundTypes
    <3>5. QED
      BY <3>1, <3>2, <3>3, <3>4, LinksStutter, SequenceOther
  <2>8. ASSUME NEW r \in Runs, SqueezePending(r) PROVE LinksTracked' /\ SequenceTracked'
    <3>1. UNCHANGED <<cids, sequence, findVars>>
      BY <2>8 DEF SqueezePending
    <3>2. \A s \in Runs : pc'[s] = pc[s] \/ pc'[s] \notin Finding
      BY <2>8 DEF SqueezePending, Finding
    <3>3. snapshot'[r] \cup toRequest'[r] \cup requests'[r] \subseteq Tracked
      BY <2>8, PassType, PeerType DEF SqueezePending, TableInv, SequenceTracked, RoundTypes
    <3>4. \A s \in Runs \ {r} : /\ snapshot'[s] = snapshot[s]
                                /\ toRequest'[s] = toRequest[s]
                                /\ requests'[s] = requests[s]
      BY <2>8 DEF SqueezePending, RoundTypes
    <3>5. QED
      BY <3>1, <3>2, <3>3, <3>4, LinksStutter, SequenceOther
  <2>9. ASSUME NEW r \in Runs, BlkPending(r) PROVE LinksTracked' /\ SequenceTracked'
    <3>1. UNCHANGED <<cids, sequence, findVars>>
      BY <2>9 DEF BlkPending
    <3>2. \A s \in Runs : pc'[s] = pc[s] \/ pc'[s] \notin Finding
      BY <2>9 DEF BlkPending, Finding
    <3>3. snapshot'[r] \cup toRequest'[r] \cup requests'[r] \subseteq Tracked
      BY <2>9 DEF BlkPending, TableInv, SequenceTracked, RoundTypes
    <3>4. \A s \in Runs \ {r} : /\ snapshot'[s] = snapshot[s]
                                /\ toRequest'[s] = toRequest[s]
                                /\ requests'[s] = requests[s]
      BY <2>9 DEF BlkPending, RoundTypes
    <3>5. QED
      BY <3>1, <3>2, <3>3, <3>4, LinksStutter, SequenceOther
  <2>10. ASSUME NEW r \in Runs, NextRound(r) PROVE LinksTracked' /\ SequenceTracked'
    <3>1. UNCHANGED <<cids, sequence, findVars>>
      BY <2>10 DEF NextRound
    <3>2. \A s \in Runs : pc'[s] = pc[s] \/ pc'[s] \notin Finding
      BY <2>10 DEF NextRound, Finding
    <3>3. snapshot'[r] \cup toRequest'[r] \cup requests'[r] \subseteq Tracked
      BY <2>10 DEF NextRound, TableInv, SequenceTracked, RoundTypes
    <3>4. \A s \in Runs \ {r} : /\ snapshot'[s] = snapshot[s]
                                /\ toRequest'[s] = toRequest[s]
                                /\ requests'[s] = requests[s]
      BY <2>10 DEF NextRound, RoundTypes
    <3>5. QED
      BY <3>1, <3>2, <3>3, <3>4, LinksStutter, SequenceOther
  <2>11. ASSUME NEW r \in Runs, CtxExit(r) PROVE LinksTracked' /\ SequenceTracked'
    <3>1. UNCHANGED <<cids, sequence, findVars>>
      BY <2>11 DEF CtxExit
    <3>2. \A s \in Runs : pc'[s] = pc[s] \/ pc'[s] \notin Finding
      BY <2>11 DEF CtxExit, Finding, Deferred
    <3>3. snapshot'[r] \cup toRequest'[r] \cup requests'[r] \subseteq Tracked
      BY <2>11 DEF CtxExit, TableInv, SequenceTracked, RoundTypes
    <3>4. \A s \in Runs \ {r} : /\ snapshot'[s] = snapshot[s]
                                /\ toRequest'[s] = toRequest[s]
                                /\ requests'[s] = requests[s]
      BY <2>11 DEF CtxExit, RoundTypes
    <3>5. QED
      BY <3>1, <3>2, <3>3, <3>4, LinksStutter, SequenceOther
  <2>12. ASSUME NEW r \in Runs, Finish(r) PROVE LinksTracked' /\ SequenceTracked'
    <3>1. UNCHANGED <<cids, sequence, findVars>>
      BY <2>12 DEF Finish
    <3>2. \A s \in Runs : pc'[s] = pc[s] \/ pc'[s] \notin Finding
      BY <2>12 DEF Finish, Finding, Deferred
    <3>3. snapshot'[r] \cup toRequest'[r] \cup requests'[r] \subseteq Tracked
      BY <2>12 DEF Finish, TableInv, SequenceTracked, RoundTypes
    <3>4. \A s \in Runs \ {r} : /\ snapshot'[s] = snapshot[s]
                                /\ toRequest'[s] = toRequest[s]
                                /\ requests'[s] = requests[s]
      BY <2>12 DEF Finish, RoundTypes
    <3>5. QED
      BY <3>1, <3>2, <3>3, <3>4, LinksStutter, SequenceOther
  <2>13. ASSUME NEW r \in Runs, NEW c \in Cids, Receive(r, c)
        PROVE  LinksTracked' /\ SequenceTracked'
    <3>1. UNCHANGED <<cids, oldcids, sequence>>
      BY <2>13 DEF Receive
    <3>2. pc'[r] \notin Finding /\ blk'[r] \subseteq Tracked
      BY <2>13 DEF Receive, Finding, TableInv, LinksTracked, SequenceTracked, FindTypes
    <3>3. \A s \in Runs \ {r} :
             pc'[s] = pc[s] /\ blk'[s] = blk[s] /\ child'[s] = child[s]
      BY <2>13 DEF Receive, FindTypes
    <3>4. snapshot'[r] \cup toRequest'[r] \cup requests'[r] \subseteq Tracked
      BY <2>13 DEF Receive, TableInv, SequenceTracked, RoundTypes
    <3>5. \A s \in Runs \ {r} : /\ snapshot'[s] = snapshot[s]
                                /\ toRequest'[s] = toRequest[s]
                                /\ requests'[s] = requests[s]
      BY <2>13 DEF Receive, RoundTypes
    <3>6. QED
      BY <3>1, <3>2, <3>3, <3>4, <3>5, LinksOther, SequenceOther
  <2>14. ASSUME NEW r \in Runs, Visit(r) PROVE LinksTracked' /\ SequenceTracked'
    <3>1. UNCHANGED <<cids, oldcids, queryState, sequence, roundVars>>
      BY <2>14 DEF Visit
    <3>2. PICK b \in blk[r] : Visit(r)!(b)
      BY <2>14 DEF Visit
    <3>3. CASE Childs[b] = <<>>
      <4>1. pc'[r] \notin Finding /\ blk'[r] \subseteq Tracked
        BY <3>2, <3>3 DEF AfterVisit, Resume, LeaveBlk, Finding, FindTypes
      <4>2. \A s \in Runs \ {r} :
               pc'[s] = pc[s] /\ blk'[s] = blk[s] /\ child'[s] = child[s]
        BY <3>2, <3>3 DEF LeaveBlk, FindTypes
      <4>3. QED
        BY <3>1, <4>1, <4>2, LinksOther, SequenceStutter
    <3>4. CASE Childs[b] # <<>>
      <4>1. UNCHANGED <<blk, child>> /\ pc' = [pc EXCEPT ![r] = "find"]
        BY <3>2, <3>4 DEF AfterVisit
      <4>2. Tracked' = Tracked
        BY <3>1 DEF Tracked
      <4>3. child[r] = 1
        BY <3>2 DEF ChildInRange, Finding
      <4>4. \A x \in blk[r] : FoundLinks(r, x)' = {}
        <5>1. ASSUME NEW x \in blk[r] PROVE Childs[x] \in Seq(Cids)
          BY <5>1, ConstantsAssumption DEF FindTypes
        <5>2. QED
          BY <4>1, <4>3, <5>1 DEF FoundLinks
      <4>5. ASSUME NEW s \in Runs
            PROVE  /\ (LinksOf(oldcids[s]) \cup blk[s] \subseteq Tracked)'
                   /\ (pc[s] \in Finding =>
                         \A x \in blk[s] : FoundLinks(s, x) \subseteq Tracked)'
                   /\ (pc[s] = "inform" =>
                         \A x \in blk[s] : LinksOf(Childs[x]) \subseteq Tracked)'
        <5>1. CASE s = r
          BY <3>1, <4>1, <4>2, <4>4, <5>1 DEF TableInv, LinksTracked
        <5>2. CASE s # r
          BY <3>1, <4>1, <4>2, <4>5, <5>2 DEF TableInv, LinksTracked, FoundLinks
        <5>3. QED
          BY <5>1, <5>2
      <4>6. LinksTracked'
        BY <3>1, <4>2, <4>5 DEF TableInv, LinksTracked
      <4>7. QED
        BY <3>1, <4>6, SequenceStutter
    <3>5. QED
      BY <3>3, <3>4
  <2>15. ASSUME NEW r \in Runs, FindLoad(r) PROVE LinksTracked' /\ SequenceTracked'
    <3>1. UNCHANGED <<cids, oldcids, queryState, sequence, roundVars>>
      BY <2>15 DEF FindLoad
    <3>2. PICK b \in blk[r] : FindLoad(r)!(b)
      BY <2>15 DEF FindLoad
    <3>3. CASE pc' = [pc EXCEPT ![r] = "store"] /\ UNCHANGED <<blk, child>>
      <4>1. Tracked' = Tracked
        BY <3>1 DEF Tracked
      <4>2. ASSUME NEW s \in Runs
            PROVE  /\ (LinksOf(oldcids[s]) \cup blk[s] \subseteq Tracked)'
                   /\ (pc[s] \in Finding =>
                         \A x \in blk[s] : FoundLinks(s, x) \subseteq Tracked)'
                   /\ (pc[s] = "inform" =>
                         \A x \in blk[s] : LinksOf(Childs[x]) \subseteq Tracked)'
        <5>1. CASE s = r
          BY <3>1, <3>2, <3>3, <4>1, <5>1
          DEF TableInv, LinksTracked, FoundLinks, Finding
        <5>2. CASE s # r
          BY <3>1, <3>3, <4>1, <4>2, <5>2 DEF TableInv, LinksTracked, FoundLinks
        <5>3. QED
          BY <5>1, <5>2
      <4>3. LinksTracked'
        BY <3>1, <4>1, <4>2 DEF TableInv, LinksTracked
      <4>4. QED
        BY <3>1, <4>3, SequenceStutter
    <3>4. CASE BackToLoop(r)
      <4>1. pc'[r] \notin Finding /\ blk'[r] \subseteq Tracked
        BY <3>4 DEF BackToLoop, Resume, LeaveBlk, Finding, FindTypes
      <4>2. \A s \in Runs \ {r} :
               pc'[s] = pc[s] /\ blk'[s] = blk[s] /\ child'[s] = child[s]
        BY <3>4 DEF BackToLoop, LeaveBlk, FindTypes
      <4>3. QED
        BY <3>1, <4>1, <4>2, LinksOther, SequenceStutter
    <3>5. QED
      BY <3>2, <3>3, <3>4
  <2>16. ASSUME NEW r \in Runs, FindStore(r) PROVE LinksTracked' /\ SequenceTracked'
    <3>1. UNCHANGED <<cids, blk, child, sequence, roundVars>>
      BY <2>16 DEF FindStore
    <3>2. PICK b \in blk[r] : FindStore(r)!(b)
      BY <2>16 DEF FindStore
    <3>3. Tracked \subseteq Tracked'
      BY TrackedGrows DEF TableInv
    <3>4. blk[r] = {b} /\ Childs[b] \in Seq(Cids) /\ child[r] \in DOMAIN Childs[b]
      BY <3>2, ConstantsAssumption DEF FindTypes, OneBlock, ChildInRange, Finding
    <3>5. Childs[b][child[r]] \in Tracked'
      BY <3>2, <3>4 DEF Tracked, DispTypes
    <3>6. FoundLinks(r, b)' \subseteq FoundLinks(r, b) \cup {Childs[b][child[r]]}
      BY <3>1, <3>4 DEF FoundLinks, FindTypes
    <3>7. FoundLinks(r, b) \subseteq Tracked
      BY <3>2 DEF TableInv, LinksTracked, Finding
    <3>8. ASSUME NEW s \in Runs
          PROVE /\ (LinksOf(oldcids[s]) \cup blk[s] \subseteq Tracked)'
                /\ (pc[s] \in Finding =>
                         \A x \in blk[s] : FoundLinks(s, x) \subseteq Tracked)'
                /\ (pc[s] = "inform" =>
                         \A x \in blk[s] : LinksOf(Childs[x]) \subseteq Tracked)'
      <4>1. CASE s = r
        BY <3>1, <3>2, <3>3, <3>4, <3>5, <3>6, <3>7, <4>1
        DEF TableInv, LinksTracked, FindTypes
      <4>2. CASE s # r
        <5>1. /\ pc'[s] = pc[s] /\ blk'[s] = blk[s] /\ child'[s] = child[s]
              /\ oldcids'[s] = oldcids[s]
          BY <3>1, <3>2, <4>2 DEF FindTypes
        <5>2. QED
          BY <3>3, <3>8, <5>1 DEF TableInv, LinksTracked, FoundLinks
      <4>3. QED
        BY <4>1, <4>2
    <3>9. LinksTracked'
      BY <3>1, <3>3, <3>8 DEF TableInv, LinksTracked
    <3>10. QED
      BY <3>1, <3>9, SequenceStutter
  <2>17. ASSUME NEW r \in Runs, FindAppend(r) PROVE LinksTracked' /\ SequenceTracked'
    <3>1. UNCHANGED <<queryState, blk, sequence, roundVars>>
      BY <2>17 DEF FindAppend
    <3>2. PICK b \in blk[r] : FindAppend(r)!(b)
      BY <2>17 DEF FindAppend
    <3>3. Tracked' = Tracked
      BY <3>1 DEF Tracked
    <3>4. blk[r] = {b} /\ Childs[b] \in Seq(Cids) /\ child[r] \in DOMAIN Childs[b]
      BY <3>2, ConstantsAssumption DEF FindTypes, OneBlock, ChildInRange, Finding
    <3>5. \A i \in 1..child[r] : Childs[b][i] \in Tracked
      <4>1. FoundLinks(r, b) \subseteq Tracked
        BY <3>2 DEF TableInv, LinksTracked, Finding
      <4>2. \A i \in 1..child[r] : i \in DOMAIN Childs[b] /\ (i < child[r] \/ i = child[r])
        BY <3>4
      <4>3. QED
        BY <3>2, <4>1, <4>2 DEF FoundLinks
    <3>6. LinksOf(cids') \subseteq Tracked'
      <4>1. PICK x \in {Childs[b][child[r]]} \cup
                       {cids[i] : i \in DOMAIN cids \cap {Len(oldcids[r]) + 1}} :
               cids' = Append(oldcids[r], x)
        BY <3>2
      <4>2. x \in Tracked
        <5>1. \A i \in DOMAIN cids : cids[i] \in Tracked
          BY DEF TableInv, LinksTracked, LinksOf
        <5>2. child[r] \in 1..child[r]
          BY <3>4
        <5>3. QED
          BY <3>5, <4>1, <5>1, <5>2
      <4>3. LinksOf(oldcids[r]) \subseteq Tracked /\ oldcids[r] \in Seq(Cids)
        BY DEF TableInv, LinksTracked, FindTypes
      <4>4. QED
        BY <3>3, <4>1, <4>2, <4>3 DEF LinksOf
    <3>7. ASSUME NEW s \in Runs
          PROVE /\ (LinksOf(oldcids[s]) \cup blk[s] \subseteq Tracked)'
                /\ (pc[s] \in Finding =>
                         \A x \in blk[s] : FoundLinks(s, x) \subseteq Tracked)'
                /\ (pc[s] = "inform" =>
                         \A x \in blk[s] : LinksOf(Childs[x]) \subseteq Tracked)'
      <4>1. CASE s = r
        <5>1. oldcids'[s] = <<>> /\ blk'[s] = {b}
          BY <3>1, <3>2, <3>4, <4>1 DEF FindTypes
        <5>2. CASE LastChild(r, b)
          <6>1. pc'[s] = "inform" /\ child'[s] = child[s]
            BY <3>2, <4>1, <5>2
          <6>2. DOMAIN Childs[b] = 1..child[r]
            BY <3>4, <5>2 DEF LastChild
          <6>3. QED
            BY <3>1, <3>3, <3>4, <3>5, <4>1, <5>1, <6>1, <6>2
            DEF FoundLinks, LinksOf, TableInv, LinksTracked
        <5>3. CASE ~LastChild(r, b)
          <6>1. pc'[s] = "find" /\ child'[s] = child[s] + 1
            BY <3>2, <4>1, <5>3 DEF FindTypes
          <6>2. \A i \in DOMAIN Childs[b] : i < child[r] + 1 => i \in 1..child[r]
            BY <3>4
          <6>3. QED
            BY <3>1, <3>3, <3>4, <3>5, <4>1, <5>1, <6>1, <6>2
            DEF FoundLinks, LinksOf, TableInv, LinksTracked
        <5>4. QED
          BY <5>2, <5>3
      <4>2. CASE s # r
        <5>1. /\ pc'[s] = pc[s] /\ blk'[s] = blk[s] /\ child'[s] = child[s]
              /\ oldcids'[s] = oldcids[s]
          BY <3>1, <3>2, <4>2 DEF FindTypes
        <5>2. QED
          BY <3>3, <3>7, <5>1 DEF TableInv, LinksTracked, FoundLinks
      <4>3. QED
        BY <4>1, <4>2
    <3>8. LinksTracked'
      BY <3>6, <3>7 DEF LinksTracked
    <3>9. QED
      BY <3>1, <3>8, SequenceStutter
  <2>18. ASSUME NEW r \in Runs, Inform(r) PROVE LinksTracked' /\ SequenceTracked'
    <3>1. UNCHANGED <<cids, oldcids, queryState, roundVars>>
      BY <2>18 DEF Inform
    <3>2. PICK b \in blk[r] : Inform(r)!(b)
      BY <2>18 DEF Inform
    <3>3. LinksTracked'
      <4>1. pc'[r] \notin Finding /\ blk'[r] \subseteq Tracked
        BY <3>2 DEF BackToLoop, Resume, LeaveBlk, Finding, FindTypes
      <4>2. \A s \in Runs \ {r} :
               pc'[s] = pc[s] /\ blk'[s] = blk[s] /\ child'[s] = child[s]
        BY <3>2 DEF BackToLoop, LeaveBlk, FindTypes
      <4>3. QED
        BY <3>1, <4>1, <4>2, LinksOther
    <3>4. LinksOf(Childs[b]) \subseteq Tracked /\ Childs[b] \in Seq(Cids)
      BY <3>2, ConstantsAssumption DEF TableInv, LinksTracked, FindTypes
    <3>5. ASSUME NEW p \in Peers PROVE sequence'[p] \subseteq Tracked
      <4>1. sequence[p] \subseteq Tracked
        BY DEF TableInv, SequenceTracked
      <4>2. AbsorbSequence(distances[p], sequence[p], Childs[b])
               \subseteq sequence[p] \cup LinksOf(Childs[b])
        <5>1. distances[p] \in SUBSET Cids /\ sequence[p] \in SUBSET Cids
          BY DEF PeerTypes
        <5>2. QED
          BY <3>4, <5>1, AbsorbType
      <4>3. QED
        BY <3>2, <3>4, <4>1, <4>2
    <3>6. Tracked' = Tracked
      BY <3>1 DEF Tracked
    <3>7. SequenceTracked'
      BY <3>1, <3>5, <3>6 DEF TableInv, SequenceTracked, roundVars
    <3>8. QED
      BY <3>3, <3>7
  <2>19. CASE UNCHANGED vars
    <3>1. UNCHANGED <<cids, sequence, roundVars, findVars, pc>>
      BY <2>19 DEF vars, runVars, roundVars, findVars
    <3>2. QED
      BY <3>1, LinksStutter, SequenceStutter
  <2>20. QED
    BY <2>1, <2>2, <2>3, <2>4, <2>5, <2>6, <2>7, <2>8, <2>9, <2>10, <2>11,
       <2>12, <2>13, <2>14, <2>15, <2>16, <2>17, <2>18, <2>19
    DEF Next, MainNext, MainLoop, RunNext, RunLocal
<1>3. QED
  BY <1>1, <1>2 DEF TableInv

\* The table invariant holds in every reachable state.
LEMMA TableCorrect == Spec => [](TypeOK /\ TableInv)
<1>1. TypeOK /\ TableInv /\ [Next]_vars => TypeOK' /\ TableInv'
  BY TypeStep, TableStep
<1>2. QED
  BY TypeInit, TableInit, <1>1, PTL DEF Spec

\* A worker never asks for a block that queryState does not know, so squeeze
\* never takes its "ask for non-exists cid" return.
THEOREM NeverAsksUnknown == Spec => []SequenceTracked
<1>1. TypeOK /\ TableInv => SequenceTracked
  BY DEF TableInv
<1>2. QED
  BY TableCorrect, <1>1, PTL

-----------------------------------------------------------------------------
(* Filled blocks are visited, and parents before their children *)

\* Initially no block is known.
LEMMA VisitInit == Init => VisitInv
  BY DEF Init, VisitInv, FilledIsVisited, ParentFirst, FindersVisited, Tracked,
     Finding, Runs

\* A step that writes neither the table nor takes a goroutine to its visit,
\* away from it, or into blkFind.
QuietStep ==
    /\ UNCHANGED queryState
    /\ \A s \in Runs :
         /\ pc'[s] \in Finding => pc[s] \in Finding /\ blk'[s] = blk[s]
         /\ pc[s] = "visit" => pc'[s] = "visit" /\ blk'[s] = blk[s]

\* Such a step keeps the invariant.
LEMMA QuietKeeps ==
  ASSUME TypeOK, VisitInv, [Next]_vars, QuietStep
  PROVE  VisitInv'
<1>1. Visited \subseteq Visited'
  BY VisitedGrows
<1>2. InHand \subseteq InHand'
  BY DEF QuietStep, InHand
<1>3. FilledIsVisited'
  BY <1>1, <1>2 DEF QuietStep, VisitInv, FilledIsVisited
<1>4. ParentFirst'
  BY <1>1 DEF QuietStep, VisitInv, ParentFirst, Tracked
<1>5. FindersVisited'
  BY <1>1 DEF QuietStep, VisitInv, FindersVisited
<1>6. QED
  BY <1>3, <1>4, <1>5 DEF VisitInv

\* Most steps are of that kind.
LEMMA MostStepsQuiet ==
  ASSUME TypeOK, [Next]_vars
  PROVE  \/ QuietStep
         \/ Start
         \/ \E r \in Runs : BlkPending(r) \/ Fill(r) \/ Visit(r) \/ FindStore(r)
<1> USE DEF TypeOK, FindTypes, dispVars, findVars
<1>1. CASE MainLoop
  <2>1. UNCHANGED <<queryState, blk>>
    BY <1>1 DEF MainLoop, RecvKnownProvider, RecvNewProvider, Register,
       ScanWorker, AllEnds, CancelCtx, CtxReturn, runVars
  <2>2. \A s \in Runs : pc'[s] = pc[s] \/ (pc[s] = "idle" /\ pc'[s] = "start")
    BY <1>1 DEF MainLoop, RecvKnownProvider, RecvNewProvider, Register, Spawn,
       ScanWorker, AllEnds, CancelCtx, CtxReturn, runVars, Runs
  <2>3. QED
    BY <2>1, <2>2 DEF QuietStep, Finding
<1>2. ASSUME NEW r \in Runs, RunStart(r) PROVE QuietStep
  BY <1>2 DEF RunStart, QuietStep, Finding
<1>3. ASSUME NEW r \in Runs, SqueezeEmpty(r) PROVE QuietStep
  BY <1>3 DEF SqueezeEmpty, QuietStep, Finding
<1>4. ASSUME NEW r \in Runs, SqueezePending(r) PROVE QuietStep
  BY <1>4 DEF SqueezePending, QuietStep, Finding
<1>5. ASSUME NEW r \in Runs, RoundTimeout(r) PROVE QuietStep
  BY <1>5 DEF RoundTimeout, QuietStep, Finding
<1>6. ASSUME NEW r \in Runs, NextRound(r) PROVE QuietStep
  BY <1>6 DEF NextRound, QuietStep, Finding
<1>7. ASSUME NEW r \in Runs, CtxExit(r) PROVE QuietStep
  BY <1>7 DEF CtxExit, QuietStep, Finding, CtxChecked, Deferred
<1>8. ASSUME NEW r \in Runs, Finish(r) PROVE QuietStep
  BY <1>8 DEF Finish, QuietStep, Finding, Deferred
<1>9. ASSUME NEW r \in Runs, RunExit(r) PROVE QuietStep
  BY <1>9 DEF RunExit, QuietStep, Finding
<1>10. ASSUME NEW r \in Runs, FindAppend(r) PROVE QuietStep
  BY <1>10 DEF FindAppend, QuietStep, Finding
<1>11. ASSUME NEW r \in Runs, FindLoad(r) PROVE QuietStep
  BY <1>11 DEF FindLoad, QuietStep, Finding, BackToLoop, LeaveBlk, Resume
<1>12. ASSUME NEW r \in Runs, Inform(r) PROVE QuietStep
  BY <1>12 DEF Inform, QuietStep, Finding, BackToLoop, LeaveBlk, Resume
<1>13. ASSUME NEW r \in Runs, NEW c \in Cids, Receive(r, c) PROVE QuietStep
  BY <1>13 DEF Receive, QuietStep, Finding
<1>14. CASE UNCHANGED vars
  BY <1>14 DEF vars, runVars, QuietStep
<1>15. QED
  BY <1>1, <1>2, <1>3, <1>4, <1>5, <1>6, <1>7, <1>8,
     <1>9, <1>10, <1>11, <1>12, <1>13, <1>14
  DEF Next, MainNext, MainLoop, RunNext, RunLocal

\* Every step keeps the invariant.
LEMMA VisitStep ==
  ASSUME TypeOK, TableInv, VisitInv, [Next]_vars
  PROVE  VisitInv'
<1> USE DEF TypeOK, DispTypes, FindTypes
<1>1. Visited \subseteq Visited'
  BY VisitedGrows
<1>2. CASE QuietStep
  BY <1>2, QuietKeeps
<1>3. CASE Start
  <2>1. UNCHANGED <<pc, blk, visits>>
    BY <1>3 DEF Start, runVars
  <2>2. FilledIsVisited'
    BY <1>3 DEF Start, FilledIsVisited
  <2>3. ParentFirst'
    BY <1>3, ConstantsAssumption DEF Start, ParentFirst, Tracked, LinksOf
  <2>4. FindersVisited'
    BY <2>1 DEF VisitInv, FindersVisited, Visited
  <2>5. QED
    BY <2>2, <2>3, <2>4 DEF VisitInv
<1>4. ASSUME NEW r \in Runs, BlkPending(r) PROVE VisitInv'
  <2>1. PICK c \in toRequest[r] : queryState' = [queryState EXCEPT ![c] = Pending]
    BY <1>4 DEF BlkPending
  <2>2. \A x \in Cids : queryState'[x] = queryState[x] \/ queryState'[x] = Pending
    BY <2>1
  <2>3. c \in Tracked
    BY <2>1 DEF TableInv, SequenceTracked
  <2>4. Tracked' \subseteq Tracked
    BY <2>1, <2>3 DEF Tracked
  <2>5. /\ UNCHANGED <<visits, blk>>
        /\ \A s \in Runs : pc'[s] = pc[s] \/ (pc[s] = "pend" /\ pc'[s] = "wait")
    BY <1>4 DEF BlkPending, findVars
  <2>6. Visited' = Visited /\ InHand \subseteq InHand'
    BY <2>5 DEF Visited, InHand
  <2>7. FilledIsVisited'
    BY <2>2, <2>6 DEF VisitInv, FilledIsVisited
  <2>8. ParentFirst'
    BY <2>4, <2>6 DEF VisitInv, ParentFirst
  <2>9. FindersVisited'
    BY <2>5, <2>6 DEF VisitInv, FindersVisited, Finding
  <2>10. QED
    BY <2>7, <2>8, <2>9 DEF VisitInv
<1>5. ASSUME NEW r \in Runs, Fill(r) PROVE VisitInv'
  <2>1. /\ UNCHANGED <<visits, blk>>
        /\ pc[r] = "fill" /\ pc' = [pc EXCEPT ![r] = "visit"]
        /\ \A x \in Cids : \/ queryState'[x] = queryState[x]
                           \/ x \in blk[r]
    BY <1>5 DEF Fill, findVars
  <2>2. Visited' = Visited /\ InHand \cup blk[r] \subseteq InHand'
    BY <2>1 DEF Visited, InHand
  <2>3. FilledIsVisited'
    BY <2>1, <2>2 DEF VisitInv, FilledIsVisited
  <2>4. blk[r] \subseteq Tracked
    BY DEF TableInv, LinksTracked
  <2>5. Tracked' \subseteq Tracked
    BY <2>1, <2>4 DEF Tracked
  <2>6. ParentFirst'
    BY <2>2, <2>5 DEF VisitInv, ParentFirst
  <2>7. FindersVisited'
    BY <2>1, <2>2 DEF VisitInv, FindersVisited, Finding
  <2>8. QED
    BY <2>3, <2>6, <2>7 DEF VisitInv
<1>6. ASSUME NEW r \in Runs, Visit(r) PROVE VisitInv'
  <2>1. PICK b \in blk[r] : Visit(r)!(b)
    BY <1>6 DEF Visit
  <2>2. blk[r] = {b} /\ UNCHANGED queryState
    BY <2>1 DEF OneBlock
  <2>3. b \in Visited'
    BY <2>1, ConstantsAssumption DEF Visited
  <2>4. \A s \in Runs \ {r} : pc'[s] = pc[s] /\ blk'[s] = blk[s]
    BY <2>1 DEF LeaveBlk
  <2>5. InHand \subseteq InHand' \cup {b}
    BY <2>2, <2>4 DEF InHand
  <2>6. FilledIsVisited'
    BY <1>1, <2>2, <2>3, <2>5 DEF VisitInv, FilledIsVisited
  <2>7. ParentFirst'
    BY <1>1, <2>2 DEF VisitInv, ParentFirst, Tracked
  <2>8. blk'[r] \subseteq {b}
    BY <2>1, <2>2 DEF LeaveBlk
  <2>9. FindersVisited'
    BY <1>1, <2>3, <2>4, <2>8 DEF VisitInv, FindersVisited
  <2>10. QED
    BY <2>6, <2>7, <2>9 DEF VisitInv
<1>7. ASSUME NEW r \in Runs, FindStore(r) PROVE VisitInv'
  <2>1. PICK b \in blk[r] : FindStore(r)!(b)
    BY <1>7 DEF FindStore
  <2>2. /\ UNCHANGED <<visits, blk>>
        /\ pc[r] = "store" /\ pc' = [pc EXCEPT ![r] = "append"]
    BY <2>1
  <2>3. Childs[b] \in Seq(Cids) /\ child[r] \in DOMAIN Childs[b] /\ b \in Visited
    BY <2>2, ConstantsAssumption
    DEF ChildInRange, Finding, VisitInv, FindersVisited
  <2>4. Visited' = Visited /\ InHand \subseteq InHand'
    BY <2>2 DEF Visited, InHand
  <2>5. FilledIsVisited'
    <3>1. \A x \in Cids : queryState'[x] = queryState[x] \/ queryState'[x] = Empty
      BY <2>1
    <3>2. QED
      BY <2>4, <3>1 DEF VisitInv, FilledIsVisited
  <2>6. ParentFirst'
    <3>1. Tracked' \subseteq Tracked \cup {Childs[b][child[r]]}
      BY <2>1 DEF Tracked
    <3>2. Childs[b][child[r]] \in LinksOf(Childs[b])
      BY <2>3 DEF LinksOf
    <3>3. QED
      BY <2>3, <2>4, <3>1, <3>2 DEF VisitInv, ParentFirst
  <2>7. FindersVisited'
    BY <2>2, <2>4 DEF VisitInv, FindersVisited, Finding
  <2>8. QED
    BY <2>5, <2>6, <2>7 DEF VisitInv
<1>8. QED
  BY <1>2, <1>3, <1>4, <1>5, <1>6, <1>7, MostStepsQuiet

\* The invariant of every reachable state.
LEMMA SafetyInvariant == Spec => [](TypeOK /\ TableInv /\ VisitInv)
<1>1. TypeOK /\ TableInv /\ VisitInv /\ [Next]_vars => VisitInv'
  BY VisitStep
<1>2. QED
  BY VisitInit, <1>1, TableCorrect, PTL DEF Spec

\* A block marked Filled was visited, or a goroutine is about to visit it:
\* marking blocks before visiting them loses none.
THEOREM FilledBlocksVisited == Spec => []FilledIsVisited
<1>1. TypeOK /\ TableInv /\ VisitInv => FilledIsVisited
  BY DEF VisitInv
<1>2. QED
  BY SafetyInvariant, <1>1, PTL

\* Blocks are found from the root downwards: an entry of the table is a link of
\* the root or of a block that was visited.
THEOREM FoundFromParents == Spec => []ParentFirst
<1>1. TypeOK /\ TableInv /\ VisitInv => ParentFirst
  BY DEF VisitInv
<1>2. QED
  BY SafetyInvariant, <1>1, PTL

-----------------------------------------------------------------------------
(* The rounds of a worker add up *)

Outside == {"idle", "start", "squeeze", "finish", "clear"}
InRound == {"wait", "fill", "visit", "find", "store", "append", "inform", "adjust"}

\* What holds of a goroutine at p, which will ask for the blocks of want, has asked for
\* those of reqs, and counts n of total.  While a batch is put together n counts the
\* blocks of want, some of them twice; reqs grows up to want.
Sound(p, want, reqs, n, total) ==
    /\ p \in Outside => reqs = {} /\ n >= 0
    /\ p = "squeeze2" => reqs = {} /\ Cardinality(want) <= n
    /\ p = "pend" => reqs \subseteq want /\ Cardinality(want) <= n /\ n > 0
    /\ p \in InRound => Cardinality(reqs) <= n /\ n <= total /\ total > 0

SoundAt(r) == Sound(pc[r], toRequest[r], requests[r], numOfRequest[r], totalrequests[r])

RoundInv == \A r \in Runs : SoundAt(r)

-----------------------------------------------------------------------------
(* Sets of blocks are finite *)

LEMMA BlockCount ==
  ASSUME NEW S \in SUBSET Cids
  PROVE  /\ IsFiniteSet(S) /\ Cardinality(S) \in Nat
         /\ Cardinality(S) = 0 <=> S = {}
         /\ \A c \in S : Cardinality(S \ {c}) = Cardinality(S) - 1
<1>1. IsFiniteSet(S)
  BY FS_Subset, DistanceAssumption
<1>2. \A c \in S : Cardinality(S \ {c}) = Cardinality(S) - 1
  BY <1>1, FS_RemoveElement
<1>3. QED
  BY <1>1, <1>2, FS_CardinalityType, FS_EmptySet

LEMMA UnionCount ==
  ASSUME NEW S \in SUBSET Cids, NEW T \in SUBSET Cids
  PROVE  Cardinality(S \cup T) <= Cardinality(S) + Cardinality(T)
<1>1. /\ IsFiniteSet(S) /\ IsFiniteSet(T)
      /\ Cardinality(S) \in Nat /\ Cardinality(T) \in Nat /\ Cardinality(S \cap T) \in Nat
  BY BlockCount
<1>2. Cardinality(S \cup T) = Cardinality(S) + Cardinality(T) - Cardinality(S \cap T)
  BY <1>1, FS_Union
<1>3. Cardinality(S \cup T) \in Nat
  BY BlockCount
<1>4. QED
  BY <1>1, <1>2, <1>3

-----------------------------------------------------------------------------
LEMMA RoundInit == Init => RoundInv
  BY FS_EmptySet DEF Init, RoundInv, SoundAt, Sound, Outside, InRound

countVars == <<pc, toRequest, requests, numOfRequest, totalrequests>>

\* Dispatch3 counts nothing, and starts goroutines that have no round yet.
LEMMA MainKeeps ==
  ASSUME TypeOK, RoundInv, MainNext
  PROVE  RoundInv'
<1>1. CASE UNCHANGED countVars
  BY <1>1 DEF countVars, RoundInv, SoundAt
<1>2. ASSUME NEW p \in Peers, Spawn(p),
             UNCHANGED <<toRequest, requests, numOfRequest, totalrequests>>
      PROVE  RoundInv'
  <2>1. CASE UNCHANGED pc
    BY <1>1, <1>2, <2>1 DEF countVars
  <2>2. ASSUME NEW i \in 1..MaxRuns, pc[<<p, i>>] = "idle",
               pc' = [pc EXCEPT ![<<p, i>>] = "start"]
        PROVE  RoundInv'
    <3>1. \A r \in Runs : pc'[r] = pc[r] \/ (pc[r] = "idle" /\ pc'[r] = "start")
      BY <2>2 DEF TypeOK
    <3>2. QED
      BY <1>2, <3>1 DEF RoundInv, SoundAt, Sound, Outside, InRound
  <2>3. QED
    BY <1>2, <2>1, <2>2 DEF Spawn
<1>3. CASE Start \/ AllEnds \/ CancelCtx \/ CtxReturn \/ \E p \in Peers : RecvNewProvider(p) \/ ScanWorker(p)
  BY <1>1, <1>3 DEF Start, AllEnds, CancelCtx, CtxReturn, RecvNewProvider, ScanWorker,
     runVars, countVars
<1>4. ASSUME NEW p \in Peers, RecvKnownProvider(p) \/ Register(p) PROVE RoundInv'
  BY <1>2, <1>4 DEF RecvKnownProvider, Register, roundVars
<1>5. QED
  BY <1>3, <1>4 DEF MainNext

\* A goroutine leaves the counts of the others alone.
LEMMA OthersKeep ==
  ASSUME TypeOK, NEW r \in Runs, NEW o \in Runs \ {r}, RunNext(r)
  PROVE  /\ pc'[o] = pc[o] /\ toRequest'[o] = toRequest[o] /\ requests'[o] = requests[o]
         /\ numOfRequest'[o] = numOfRequest[o] /\ totalrequests'[o] = totalrequests[o]
<1> USE DEF TypeOK, RoundTypes, roundVars
<1>1. CASE RunStart(r) \/ Fill(r) \/ Visit(r) \/ FindLoad(r) \/ FindStore(r)
  BY <1>1 DEF RunStart, Fill, Visit, FindLoad, FindStore, BackToLoop
<1>2. CASE FindAppend(r) \/ Inform(r) \/ RoundTimeout(r) \/ RunExit(r)
  BY <1>2 DEF FindAppend, Inform, RoundTimeout, RunExit, BackToLoop
<1>3. CASE SqueezeEmpty(r) \/ SqueezePending(r)
  BY <1>3 DEF SqueezeEmpty, SqueezePending
<1>4. CASE BlkPending(r)
  BY <1>4 DEF BlkPending
<1>5. CASE NextRound(r) \/ CtxExit(r) \/ Finish(r)
  BY <1>5 DEF NextRound, CtxExit, Finish
<1>6. ASSUME NEW c \in Cids, Receive(r, c)
      PROVE  /\ pc'[o] = pc[o] /\ toRequest'[o] = toRequest[o] /\ requests'[o] = requests[o]
             /\ numOfRequest'[o] = numOfRequest[o] /\ totalrequests'[o] = totalrequests[o]
  BY <1>6 DEF Receive
<1>7. QED
  BY <1>1, <1>2, <1>3, <1>4, <1>5, <1>6 DEF RunNext, RunLocal

-----------------------------------------------------------------------------
(* The steps of a goroutine, on its own counts *)

LEMMA OwnStep ==
  ASSUME TypeOK, RoundInv, NEW r \in Runs, RunNext(r)
  PROVE  SoundAt(r)'
<1> USE DEF TypeOK, SoundAt, Sound, Outside, InRound
<1>1. SoundAt(r)
  BY DEF RoundInv
<1>2. /\ toRequest[r] \in SUBSET Cids /\ requests[r] \in SUBSET Cids
      /\ numOfRequest[r] \in Int /\ totalrequests[r] \in Int
  BY DEF RoundTypes
<1>3. Cardinality(requests[r]) \in Nat /\ Cardinality({}) = 0
  BY <1>2, BlockCount, FS_EmptySet
<1>4. CASE RunStart(r) \/ Fill(r) \/ RoundTimeout(r) \/ RunExit(r)
  BY <1>1, <1>4 DEF RunStart, Fill, RoundTimeout, RunExit, roundVars
<1>5. CASE Visit(r) \/ FindLoad(r) \/ FindStore(r) \/ FindAppend(r) \/ Inform(r)
  <2>1. /\ UNCHANGED roundVars /\ pc[r] \in InRound /\ pc'[r] \in InRound
    BY <1>5 DEF Visit, FindLoad, FindStore, FindAppend, Inform, BackToLoop, AfterVisit, Resume
  <2>2. QED
    BY <1>1, <2>1 DEF roundVars
<1>6. CASE SqueezeEmpty(r)
  <2> DEFINE L == requestEachTime[Peer(r)]
             picked == Pass(Peer(r), sequence[Peer(r)], Empty, IF L = 0 THEN 1 ELSE L)
  <2>1. picked \in SUBSET Cids
    BY PeerType DEF PeerTypes, Pass, Nearest
  <2>2. Cardinality(picked) \in Nat /\ (Cardinality(picked) = 0 <=> picked = {})
    BY <2>1, BlockCount
  <2>3. /\ pc[r] = "squeeze"
        /\ toRequest'[r] = picked /\ numOfRequest'[r] = Cardinality(picked)
        /\ pc'[r] = IF Cardinality(picked) < L THEN "squeeze2"
                    ELSE IF picked = {} THEN "finish" ELSE "pend"
        /\ requests' = requests
    BY <1>6 DEF SqueezeEmpty, RoundTypes
  <2> HIDE DEF picked, L
  <2>4. QED
    BY <1>1, <1>2, <2>2, <2>3
<1>7. CASE SqueezePending(r)
  <2> DEFINE picked == Pass(Peer(r), snapshot[r], Pending, limit[r] - numOfRequest[r])
  <2>1. picked \in SUBSET Cids
    BY DEF RoundTypes, Pass, Nearest
  <2>2. /\ Cardinality(picked) \in Nat /\ Cardinality(toRequest[r]) \in Nat
        /\ Cardinality(toRequest[r] \cup picked) <= Cardinality(toRequest[r]) + Cardinality(picked)
        /\ Cardinality(toRequest[r] \cup picked) \in Nat
    BY <1>2, <2>1, BlockCount, UnionCount
  <2>3. /\ pc[r] = "squeeze2"
        /\ toRequest'[r] = toRequest[r] \cup picked
        /\ numOfRequest'[r] = numOfRequest[r] + Cardinality(picked)
        /\ pc'[r] = IF numOfRequest'[r] = 0 THEN "finish" ELSE "pend"
        /\ requests' = requests
    BY <1>7 DEF SqueezePending, Fetched, RoundTypes
  <2> HIDE DEF picked
  <2>4. QED
    BY <1>1, <1>2, <2>2, <2>3
<1>8. CASE BlkPending(r)
  <2>1. PICK c \in toRequest[r] \ requests[r] : BlkPending(r)!2!(c)
    BY <1>8 DEF BlkPending
  <2>2. pc[r] = "pend" /\ requests'[r] = requests[r] \cup {c} /\ numOfRequest' = numOfRequest
    BY <1>8, <2>1 DEF BlkPending, RoundTypes
  <2>3. CASE requests[r] \cup {c} = toRequest[r]
    <3>1. pc'[r] = "wait" /\ totalrequests'[r] = numOfRequest[r]
      BY <2>1, <2>3 DEF RoundTypes
    <3>2. requests'[r] = toRequest[r]
      BY <2>2, <2>3
    <3>3. Cardinality(requests'[r]) <= numOfRequest[r] /\ numOfRequest[r] > 0
      BY <1>1, <2>2, <3>2
    <3>4. QED
      BY <1>2, <2>2, <3>1, <3>3
  <2>4. CASE requests[r] \cup {c} # toRequest[r]
    BY <1>1, <2>1, <2>2, <2>4
  <2>5. QED
    BY <2>3, <2>4
<1>9. CASE NextRound(r) \/ CtxExit(r)
  <2>1. requests'[r] = {} /\ numOfRequest'[r] = 0 /\ pc'[r] \in {"squeeze", "clear"}
    BY <1>9 DEF NextRound, CtxExit, Deferred, RoundTypes
  <2>2. QED
    BY <2>1
<1>10. CASE Finish(r)
  BY <1>1, <1>10 DEF Finish, Deferred
<1>11. ASSUME NEW c \in Cids, Receive(r, c) PROVE SoundAt(r)'
  <2>1. /\ pc[r] = "wait" /\ pc'[r] \in {"wait", "fill"} /\ c \in requests[r]
        /\ requests'[r] = requests[r] \ {c} /\ numOfRequest'[r] = numOfRequest[r] - 1
        /\ totalrequests' = totalrequests
    BY <1>11 DEF Receive, RoundTypes
  <2>2. Cardinality(requests'[r]) = Cardinality(requests[r]) - 1
    BY <1>2, <2>1, BlockCount
  <2>3. QED
    BY <1>1, <1>2, <1>3, <2>1, <2>2
<1>12. QED
  BY <1>4, <1>5, <1>6, <1>7, <1>8, <1>9, <1>10, <1>11 DEF RunNext, RunLocal

LEMMA RoundStep ==
  ASSUME TypeOK, RoundInv, [Next]_vars
  PROVE  RoundInv'
<1>1. ASSUME NEW r \in Runs, RunNext(r) PROVE RoundInv'
  <2>1. ASSUME NEW o \in Runs \ {r} PROVE SoundAt(o)'
    BY <1>1, <2>1, OthersKeep DEF RoundInv, SoundAt
  <2>2. QED
    BY <1>1, <2>1, OwnStep DEF RoundInv
<1>2. CASE UNCHANGED vars
  BY <1>2 DEF vars, runVars, RoundInv, SoundAt
<1>3. QED
  BY <1>1, <1>2, MainKeeps DEF Next

\* Theorem: numOfRequest covers the blocks that may still come, so that no round is
\* closed over one, and Adjust5 divides by a positive number of requests
\* (worker.go:308-349, 389-402).
THEOREM RoundsAddUp == Spec => []RoundAccounting
<1>1. TypeOK /\ RoundInv => RoundAccounting
  <2> SUFFICES ASSUME TypeOK, RoundInv, NEW r \in Runs
               PROVE  /\ pc[r] \notin {"squeeze2", "pend"} =>
                           Cardinality(requests[r]) <= numOfRequest[r]
                      /\ pc[r] \in {"wait", "adjust"} =>
                           totalrequests[r] > 0 /\ numOfRequest[r] <= totalrequests[r]
    BY DEF RoundAccounting
  <2>1. SoundAt(r) /\ pc[r] \in PCs
    BY DEF RoundInv, TypeOK
  <2>2. Cardinality({}) = 0
    BY FS_EmptySet
  <2>3. QED
    BY <2>1, <2>2 DEF SoundAt, Sound, Outside, InRound, PCs
<1>2. TypeOK /\ RoundInv /\ [Next]_vars => RoundInv'
  BY RoundStep
<1>3. QED
  BY <1>1, <1>2, RoundInit, TypeCorrect, PTL DEF Spec

-----------------------------------------------------------------------------
(* Completeness *)

Links(b) == LinksOf(Childs[b])
Roots == LinksOf(RootChilds)

\* No block is the link of two, or twice the link of one.
Unshared ==
    /\ \A i, j \in DOMAIN RootChilds : RootChilds[i] = RootChilds[j] => i = j
    /\ \A b \in Cids : \A i, j \in DOMAIN Childs[b] : Childs[b][i] = Childs[b][j] => i = j
    /\ \A b, d \in Cids : b # d => Links(b) \cap Links(d) = {}
    /\ \A b \in Cids : Roots \cap Links(b) = {}

\* Every block is below the root.
Reachable ==
    \E depth \in [Cids -> Nat] : \A c \in Cids :
        c \in Roots \/ \E b \in Cids : c \in Links(b) /\ depth[b] < depth[c]

Quiet == MaxRuns = 1 /\ Unshared

\* Adjust5 has not halved the batch of any worker down to 0.
NoEmptyBatch == \A p \in worker \cup newpeer : requestEachTime[p] >= 1

-----------------------------------------------------------------------------
(* The invariant *)

\* Goroutines are of registered workers; a worker that is not known yet has no lists, and
\* a known one asks for at least one block at a time.
WorkersKnown ==
    /\ \A r \in Runs : pc[r] # "idle" => Peer(r) \in worker
    /\ newpeer # {} => mpc = "register"
    /\ mpc = "start" => worker = {}
    /\ \A p \in Peers \ (worker \cup newpeer) : sequence[p] = {} /\ distances[p] = {}
    /\ NoEmptyBatch
    /\ \A r \in Runs : pc[r] = "squeeze2" => limit[r] >= 1

\* A goroutine handles blocks of its worker's sequence only.
AsksOwn == \A r \in Runs : snapshot[r] \cup toRequest[r] \cup requests[r] \cup blk[r] \subseteq sequence[Peer(r)]

DistancesTracked == \A p \in Peers : distances[p] \subseteq Tracked

RootsTracked == mpc # "start" => Roots \subseteq Tracked

\* Links enter the table in their order.
PrefixTracked ==
    \A b \in Cids : \A i, j \in DOMAIN Childs[b] :
        i < j /\ Childs[b][j] \in Tracked => Childs[b][i] \in Tracked

\* Of the goroutines in blkFind with b one is ahead of all others.
Ahead(r, b) ==
    /\ b \in blk[r] /\ pc[r] \in Finding
    /\ \A j \in DOMAIN Childs[b] :
          Childs[b][j] \in Tracked <=> j < child[r] \/ (j = child[r] /\ pc[r] \in {"append", "inform"})

Front(b) == \E r \in Runs : Ahead(r, b)

\* The links of a visited block are all found, or being found.
LinksFound == \A b \in Visited : Links(b) \subseteq Tracked \/ Front(b)

\* A goroutine that stored a link of b, or is about to: its worker has all links by now,
\* or has none, and will get all from the one ahead.
Deep(r) == pc[r] \in {"store", "append", "inform"} \/ (pc[r] = "find" /\ child[r] > 1)

FindersInformed ==
    \A r \in Runs : Deep(r) => \A b \in blk[r] :
        \/ Links(b) \subseteq sequence[Peer(r)]
        \/ Links(b) \cap distances[Peer(r)] = {} /\ Front(b)

FindInv == PrefixTracked /\ LinksFound /\ FindersInformed

\* r will not end before it has looked at c: it will come back to squeeze, or has c on its
\* way to the second pass.
Holds(r, c) ==
    \/ /\ Busy(r) /\ c \in sequence[Peer(r)]
       /\ pc[r] = "squeeze2" => numOfRequest[r] > 0
    \/ pc[r] = "squeeze2" /\ c \in snapshot[r] /\ queryState[c] = Pending

Held(c) ==
    \/ \E r \in Runs : Holds(r, c)
    \/ \E b \in Cids : c \in Links(b) /\ Front(b)

\* Before any goroutine runs every worker has all links of the root.
NobodyBegan ==
    /\ \A r \in Runs : pc[r] \in {"idle", "start"}
    /\ mpc # "start" => cids = RootChilds
    /\ mpc # "scan"
    /\ Tracked \subseteq Roots
    /\ \A p \in worker \cup newpeer : Roots \subseteq sequence[p]

AllHeld ==
    ~ctxDone /\ mpc # "done" => NobodyBegan \/ \A c \in Tracked \ Visited : Held(c)

\* Dispatch3 is not going to find all idle unless all is done: whoever runs when the scan
\* begins is still running when it is looked at.
ScanSees ==
    ~ctxDone /\ mpc = "scan" =>
        \/ Visited = Cids
        \/ \E r \in Runs : Peer(r) \in scan /\ (Busy(r) \/ pc[r] = "finish")

ListInv == WorkersKnown /\ AsksOwn /\ DistancesTracked /\ RootsTracked
EndInv == AllHeld /\ ScanSees /\ WorkingFlagTruthful /\ CompleteOnNil
CompleteInv == ListInv /\ FindInv /\ EndInv
USE DEF Absent, Empty, Pending, Filled

-----------------------------------------------------------------------------
(* Facts about sets of blocks *)

LEMMA Least ==
  ASSUME NEW f \in [Cids -> Nat], NEW S \in SUBSET Cids, S # {}
  PROVE  \E c \in S : \A d \in S : f[c] <= f[d]
<1> DEFINE T == {f[c] : c \in S}
           R == OpToRel(<, Nat)
<1>1. T \subseteq Nat /\ T # {}
  OBVIOUS
<1>2. PICK x \in T : \A y \in T : ~ (<<y, x>> \in R)
  <2> HIDE DEF T
  <2>1. QED
    BY <1>1, NatLessThanWellFounded, WFMin
<1>3. ASSUME NEW y \in T, y < x PROVE FALSE
  <2>1. <<y, x>> \in R
    BY <1>1, <1>3 DEF OpToRel
  <2>2. QED
    BY <1>2, <2>1
<1>4. PICK c \in S : f[c] = x
  OBVIOUS
<1>5. ASSUME NEW d \in S PROVE f[c] <= f[d]
  <2> HIDE DEF R
  <2>1. f[d] \in T
    OBVIOUS
  <2>2. QED
    BY <1>3, <1>4, <2>1
<1>6. QED
  BY <1>5

\* A pass of squeeze that may take a block takes one if there is one.
LEMMA PassTakes ==
  ASSUME NEW p \in Peers, NEW Q \in SUBSET Cids, NEW s, NEW n \in Nat \ {0},
         NEW d \in Q, queryState[d] = s
  PROVE  Pass(p, Q, s, n) # {}
<1> DEFINE S == {c \in Q : queryState[c] = s}
<1>1. PICK c \in S : \A e \in S : Distance[p][c] <= Distance[p][e]
  BY Least, DistanceAssumption
<1>2. {e \in S : Distance[p][e] < Distance[p][c]} = {}
  BY <1>1, DistanceAssumption
<1>3. c \in Nearest(p, S, n)
  BY <1>2, FS_EmptySet DEF Nearest
<1>4. QED
  BY <1>3 DEF Pass

\* absorb2 takes all of a list without repetitions of which the worker has nothing.
LEMMA AbsorbsAll ==
  ASSUME NEW D, NEW Q, NEW s \in Seq(Cids), LinksOf(s) \cap D = {},
         \A i, j \in DOMAIN s : s[i] = s[j] => i = j
  PROVE  AbsorbSequence(D, Q, s) = Q \cup LinksOf(s)
<1>1. ASSUME NEW i \in DOMAIN s, NEW j \in 1..i
      PROVE  s[j] \notin D /\ \A k \in 1..(j-1) : s[k] # s[j]
  BY DEF LinksOf
<1>2. FreshPrefix(D, s) = DOMAIN s
  BY <1>1 DEF FreshPrefix
<1>3. QED
  BY <1>2 DEF AbsorbSequence, LinksOf

LEMMA AbsorbGrows ==
  ASSUME NEW D, NEW Q, NEW s
  PROVE  /\ D \subseteq AbsorbDistances(D, s) /\ Q \subseteq AbsorbSequence(D, Q, s)
         /\ AbsorbDistances(D, s) \subseteq D \cup LinksOf(s)
  BY DEF AbsorbDistances, AbsorbSequence, FreshPrefix, LinksOf

-----------------------------------------------------------------------------
(* What a step leaves alone *)

\* Dispatch3 only starts goroutines, of workers it has registered.
LEMMA MainFrame ==
  ASSUME TypeOK, MainNext
  PROVE  /\ UNCHANGED <<visits, working, roundVars, findVars>>
         /\ worker \subseteq worker'
         /\ \A r \in Runs : \/ pc'[r] = pc[r]
                            \/ pc[r] = "idle" /\ pc'[r] = "start" /\ Peer(r) \in worker'
<1> USE DEF TypeOK, Runs, Peer
<1>1. CASE Start \/ AllEnds \/ CancelCtx \/ CtxReturn \/ \E p \in Peers : RecvNewProvider(p) \/ ScanWorker(p)
  BY <1>1 DEF Start, AllEnds, CancelCtx, CtxReturn, RecvNewProvider, ScanWorker,
     dispVars, peerVars, runVars, roundVars, findVars
<1>2. ASSUME NEW p \in Peers, Spawn(p), p \in worker'
      PROVE  \A r \in Runs : \/ pc'[r] = pc[r]
                             \/ pc[r] = "idle" /\ pc'[r] = "start" /\ Peer(r) \in worker'
  <2>1. CASE UNCHANGED pc
    BY <2>1
  <2>2. ASSUME NEW i \in 1..MaxRuns, pc[<<p, i>>] = "idle",
               pc' = [pc EXCEPT ![<<p, i>>] = "start"]
        PROVE  \A r \in Runs : \/ pc'[r] = pc[r]
                               \/ pc[r] = "idle" /\ pc'[r] = "start" /\ Peer(r) \in worker'
    <3>1. \A r \in Runs : r # <<p, i>> => pc'[r] = pc[r]
      BY <2>2
    <3>2. <<p, i>> \in Runs /\ Peer(<<p, i>>) = p /\ pc'[<<p, i>>] = "start"
      BY <2>2
    <3>3. QED
      BY <1>2, <2>2, <3>1, <3>2
  <2>3. QED
    BY <1>2, <2>1, <2>2 DEF Spawn
<1>3. ASSUME NEW p \in Peers, RecvKnownProvider(p) \/ Register(p)
      PROVE  /\ UNCHANGED <<visits, working, roundVars, findVars>>
             /\ worker \subseteq worker' /\ p \in worker' /\ Spawn(p)
  BY <1>3 DEF RecvKnownProvider, Register, dispVars, peerVars
<1>4. QED
  BY <1>1, <1>2, <1>3 DEF MainNext

\* The locals of goroutine r that its blocks and its place are told from.
At(r) == <<pc[r], snapshot[r], limit[r], toRequest[r], requests[r], numOfRequest[r], blk[r], child[r]>>

LEMMA RunFrame ==
  ASSUME TypeOK, NEW r \in Runs, RunNext(r)
  PROVE  /\ pc[r] # "idle"
         /\ UNCHANGED <<worker, newpeer, ctxDone>>
         /\ Finish(r) \/ UNCHANGED <<mpc, scan>>
         /\ \A o \in Runs \ {r} : At(o)' = At(o)
<1> USE DEF TypeOK, RoundTypes, FindTypes, dispVars, mainVars, roundVars, findVars, At
<1>1. CASE RunStart(r) \/ Fill(r) \/ RoundTimeout(r) \/ RunExit(r)
  BY <1>1 DEF RunStart, Fill, RoundTimeout, RunExit
<1>2. CASE Visit(r) \/ FindLoad(r)
  BY <1>2 DEF Visit, FindLoad, BackToLoop, LeaveBlk
<1>3. CASE FindStore(r) \/ FindAppend(r) \/ Inform(r)
  BY <1>3 DEF FindStore, FindAppend, Inform, BackToLoop, LeaveBlk
<1>4. CASE SqueezeEmpty(r) \/ SqueezePending(r)
  BY <1>4 DEF SqueezeEmpty, SqueezePending
<1>5. CASE BlkPending(r)
  BY <1>5 DEF BlkPending
<1>6. CASE NextRound(r) \/ CtxExit(r) \/ Finish(r)
  BY <1>6 DEF NextRound, CtxExit, CtxChecked, Finish
<1>7. ASSUME NEW c \in Cids, Receive(r, c)
      PROVE  /\ pc[r] # "idle"
             /\ UNCHANGED <<worker, newpeer, ctxDone>>
             /\ Finish(r) \/ UNCHANGED <<mpc, scan>>
             /\ \A o \in Runs \ {r} : At(o)' = At(o)
  BY <1>7 DEF Receive
<1>8. QED
  BY <1>1, <1>2, <1>3, <1>4, <1>5, <1>6, <1>7 DEF RunNext, RunLocal

\* Only Inform changes lists of running workers.
LEMMA OnlyInform ==
  ASSUME NEW r \in Runs, RunNext(r), ~Inform(r)
  PROVE  UNCHANGED <<sequence, distances>>
  BY DEF RunNext, RunLocal, RunStart, SqueezeEmpty, SqueezePending, BlkPending, Fill, Visit,
     FindLoad, FindStore, FindAppend, NextRound, CtxExit, RunExit, Receive, RoundTimeout,
     Finish, peerVars

\* The lists of a worker only grow.
LEMMA ListsGrow ==
  ASSUME TypeOK, WorkersKnown, [Next]_vars
  PROVE  \A p \in Peers : sequence[p] \subseteq sequence'[p] /\ distances[p] \subseteq distances'[p]
<1>1. ASSUME NEW q \in Peers, RecvNewProvider(q)
      PROVE  \A p \in Peers : sequence[p] \subseteq sequence'[p] /\ distances[p] \subseteq distances'[p]
  <2>1. q \notin worker \cup newpeer
    BY <1>1 DEF RecvNewProvider, WorkersKnown
  <2>2. sequence[q] = {} /\ distances[q] = {}
    BY <2>1 DEF WorkersKnown
  <2>3. \A p \in Peers \ {q} : sequence'[p] = sequence[p] /\ distances'[p] = distances[p]
    BY <1>1 DEF RecvNewProvider, TypeOK, PeerTypes
  <2>4. QED
    BY <2>2, <2>3
<1>2. CASE Start \/ AllEnds \/ CancelCtx \/ CtxReturn \/ \E p \in Peers : RecvKnownProvider(p) \/ Register(p) \/ ScanWorker(p)
  BY <1>2 DEF Start, AllEnds, CancelCtx, CtxReturn, RecvKnownProvider, Register, ScanWorker, peerVars
<1>3. ASSUME NEW r \in Runs, Inform(r)
      PROVE  \A p \in Peers : sequence[p] \subseteq sequence'[p] /\ distances[p] \subseteq distances'[p]
  BY <1>3, AbsorbGrows DEF Inform
<1>4. ASSUME NEW r \in Runs, RunNext(r), ~Inform(r)
      PROVE  UNCHANGED <<sequence, distances>>
  BY <1>4, OnlyInform
<1>5. CASE UNCHANGED vars
  BY <1>5 DEF vars, peerVars
<1>6. QED
  BY <1>1, <1>2, <1>3, <1>4, <1>5 DEF Next, MainNext

-----------------------------------------------------------------------------
(* What a step does to the table and to the visits *)

\* blkFind alone adds a block to the table, the next link of the block it is at.
LEMMA TrackedStep ==
  ASSUME TypeOK, TableInv, [Next]_vars
  PROVE  \/ Tracked' = Tracked
         \/ Start /\ Tracked' \subseteq Roots
         \/ \E r \in Runs : \E b \in blk[r] :
               /\ FindStore(r)!(b)
               /\ Childs[b][child[r]] \in Cids
               /\ child[r] \in DOMAIN Childs[b]
               /\ Tracked' = Tracked \cup {Childs[b][child[r]]}
               /\ queryState' = [queryState EXCEPT ![Childs[b][child[r]]] = Empty]
<1> USE DEF TypeOK, DispTypes
<1>1. CASE Start
  <2>1. Tracked' \subseteq Roots
    BY <1>1, ConstantsAssumption DEF Start, Tracked, Roots, LinksOf
  <2>2. QED
    BY <1>1, <2>1
<1>2. ASSUME NEW r \in Runs, BlkPending(r) PROVE Tracked' = Tracked
  <2>1. PICK c \in toRequest[r] : queryState' = [queryState EXCEPT ![c] = Pending]
    BY <1>2 DEF BlkPending
  <2>2. c \in Tracked
    BY DEF TableInv, SequenceTracked
  <2>3. QED
    BY <2>1, <2>2 DEF Tracked
<1>3. ASSUME NEW r \in Runs, Fill(r) PROVE Tracked' = Tracked
  <2>1. blk[r] \subseteq Tracked
    BY DEF TableInv, LinksTracked
  <2>2. QED
    BY <1>3, <2>1 DEF Fill, Tracked
<1>4. ASSUME NEW r \in Runs, NEW b \in blk[r], FindStore(r)!(b)
      PROVE  /\ Childs[b][child[r]] \in Cids
             /\ child[r] \in DOMAIN Childs[b]
             /\ Tracked' = Tracked \cup {Childs[b][child[r]]}
             /\ queryState' = [queryState EXCEPT ![Childs[b][child[r]]] = Empty]
  <2>1. child[r] \in DOMAIN Childs[b] /\ b \in Cids
    BY <1>4 DEF ChildInRange, Finding, FindTypes
  <2>2. Childs[b][child[r]] \in Cids
    BY <2>1, ConstantsAssumption
  <2>3. QED
    BY <1>4, <2>1, <2>2 DEF Tracked
<1>5. ASSUME queryState' = queryState PROVE Tracked' = Tracked
  BY <1>5 DEF Tracked
<1>6. QED
  BY <1>1, <1>2, <1>3, <1>4, <1>5, TableWrites DEF FindStore

\* Only Visit adds a visited block.
LEMMA VisitedStep ==
  ASSUME TypeOK, [Next]_vars
  PROVE  \/ Visited' = Visited
         \/ \E r \in Runs : \E b \in blk[r] : Visit(r)!(b) /\ Visited' = Visited \cup {b}
<1>1. ASSUME NEW r \in Runs, NEW b \in blk[r], Visit(r)!(b)
      PROVE  Visited' = Visited \cup {b}
  <2>1. b \in Cids /\ VisitCap > 0
    BY ConstantsAssumption DEF TypeOK, FindTypes
  <2>2. visits'[b] > 0 /\ \A c \in Cids \ {b} : visits'[c] = visits[c]
    BY <1>1, <2>1, ConstantsAssumption DEF TypeOK, DispTypes
  <2>3. QED
    BY <2>1, <2>2 DEF Visited
<1>2. CASE \E r \in Runs : Visit(r)
  BY <1>1, <1>2 DEF Visit
<1>3. ASSUME NEW r \in Runs, RunNext(r), ~Visit(r) PROVE visits' = visits
  BY <1>3 DEF RunNext, RunLocal, RunStart, SqueezeEmpty, SqueezePending,
     BlkPending, Fill, FindLoad, FindStore, FindAppend, Inform, NextRound,
     CtxExit, RunExit, Receive, RoundTimeout, Finish, dispVars
<1>4. CASE MainNext
  BY <1>4, MainFrame DEF Visited
<1>5. CASE UNCHANGED vars
  BY <1>5 DEF vars, dispVars, Visited
<1>6. QED
  BY <1>2, <1>3, <1>4, <1>5 DEF Next, Visited

-----------------------------------------------------------------------------
(* The lists of the workers *)

\* The blocks a goroutine handles come from its worker's sequence.
LEMMA RunLists ==
  ASSUME TypeOK, AsksOwn, NEW r \in Runs, RunNext(r)
  PROVE  snapshot'[r] \cup toRequest'[r] \cup requests'[r] \cup blk'[r] \subseteq sequence[Peer(r)]
<1> DEFINE Goal == snapshot'[r] \cup toRequest'[r] \cup requests'[r] \cup blk'[r] \subseteq sequence[Peer(r)]
<1>0. snapshot[r] \cup toRequest[r] \cup requests[r] \cup blk[r] \subseteq sequence[Peer(r)]
  BY DEF AsksOwn
<1> USE DEF TypeOK, RoundTypes, FindTypes, roundVars, findVars
<1>1. CASE RunStart(r) \/ Fill(r) \/ RoundTimeout(r) \/ RunExit(r)
  BY <1>0, <1>1 DEF RunStart, Fill, RoundTimeout, RunExit
<1>2. CASE Visit(r) \/ FindLoad(r)
  BY <1>0, <1>2 DEF Visit, FindLoad, BackToLoop, LeaveBlk
<1>3. CASE FindStore(r) \/ FindAppend(r) \/ Inform(r)
  BY <1>0, <1>3 DEF FindStore, FindAppend, Inform, BackToLoop, LeaveBlk
<1>4. CASE SqueezeEmpty(r)
  BY <1>0, <1>4, PassType, PeerType DEF SqueezeEmpty, PeerTypes
<1>5. CASE SqueezePending(r)
  BY <1>0, <1>5, PassType DEF SqueezePending
<1>6. CASE BlkPending(r)
  BY <1>0, <1>6 DEF BlkPending
<1>7. CASE NextRound(r) \/ CtxExit(r) \/ Finish(r)
  BY <1>0, <1>7 DEF NextRound, CtxExit, Finish
<1>8. ASSUME NEW c \in Cids, Receive(r, c) PROVE Goal
  BY <1>0, <1>8 DEF Receive
<1>9. QED
  BY <1>1, <1>2, <1>3, <1>4, <1>5, <1>6, <1>7, <1>8 DEF RunNext, RunLocal

LEMMA AsksOwnStep ==
  ASSUME TypeOK, WorkersKnown, AsksOwn, [Next]_vars
  PROVE  AsksOwn'
<1> USE DEF AsksOwn
<1>1. \A p \in Peers : sequence[p] \subseteq sequence'[p]
  BY ListsGrow
<1>2. CASE MainNext
  BY <1>1, <1>2, MainFrame, PeerType DEF roundVars, findVars
<1>3. ASSUME NEW r \in Runs, RunNext(r) PROVE AsksOwn'
  <2>1. snapshot'[r] \cup toRequest'[r] \cup requests'[r] \cup blk'[r] \subseteq sequence'[Peer(r)]
    BY <1>1, <1>3, RunLists, PeerType
  <2>2. \A o \in Runs \ {r} :
          snapshot'[o] \cup toRequest'[o] \cup requests'[o] \cup blk'[o] \subseteq sequence'[Peer(o)]
    BY <1>1, <1>3, RunFrame, PeerType DEF At
  <2>3. QED
    BY <2>1, <2>2
<1>4. CASE UNCHANGED vars
  BY <1>4 DEF vars, runVars, peerVars
<1>5. QED
  BY <1>2, <1>3, <1>4 DEF Next

LEMMA WorkersKnownStep ==
  ASSUME TypeOK, TableInv, WorkersKnown, NoEmptyBatch', [Next]_vars
  PROVE  WorkersKnown'
<1> USE DEF WorkersKnown, NoEmptyBatch
<1>1. CASE MainNext
  <2>1. \A r \in Runs : pc'[r] # "idle" => Peer(r) \in worker'
    BY <1>1, MainFrame
  <2>2. \A r \in Runs : pc'[r] = "squeeze2" => limit'[r] >= 1
    BY <1>1, MainFrame DEF roundVars
  <2>3. ASSUME NEW p \in Peers, RecvNewProvider(p) PROVE WorkersKnown'
    <3>1. newpeer' = {p} /\ newpeer = {} /\ mpc' = "register" /\ worker' = worker
      BY <2>3 DEF RecvNewProvider, dispVars
    <3>2. \A q \in Peers \ {p} : /\ sequence'[q] = sequence[q]
                                 /\ distances'[q] = distances[q]
                                 /\ requestEachTime'[q] = requestEachTime[q]
      BY <2>3 DEF RecvNewProvider, TypeOK, PeerTypes
    <3>3. requestEachTime'[p] >= 1
      BY <3>1
    <3>4. worker \subseteq Peers
      BY DEF TypeOK, DispTypes
    <3>5. QED
      BY <2>1, <2>2, <3>1, <3>2, <3>3, <3>4
  <2>4. ASSUME NEW p \in Peers, RecvKnownProvider(p) \/ Register(p) PROVE WorkersKnown'
    <3>1. UNCHANGED <<sequence, distances, requestEachTime>>
      BY <2>4 DEF RecvKnownProvider, Register, peerVars
    <3>2. /\ worker' \cup newpeer' = worker \cup newpeer
          /\ mpc' # "start" /\ newpeer' = {}
      BY <2>4 DEF RecvKnownProvider, Register, dispVars, mainVars
    <3>3. QED
      BY <2>1, <2>2, <3>1, <3>2
  <2>5. ASSUME Start \/ AllEnds \/ CancelCtx \/ CtxReturn \/ \E p \in Peers : ScanWorker(p)
        PROVE  WorkersKnown'
    <3>1. UNCHANGED <<sequence, distances, requestEachTime, worker, newpeer>>
      BY <2>5 DEF Start, AllEnds, CancelCtx, CtxReturn, ScanWorker, peerVars, dispVars
    <3>2. (mpc' = "start" => mpc = "start") /\ (newpeer # {} => mpc' = mpc)
      BY <2>5 DEF Start, AllEnds, CancelCtx, CtxReturn, ScanWorker
    <3>3. QED
      BY <2>1, <2>2, <3>1, <3>2
  <2>6. QED
    BY <1>1, <2>3, <2>4, <2>5 DEF MainNext
<1>2. ASSUME NEW r \in Runs, RunNext(r) PROVE WorkersKnown'
  <2>1. /\ \A o \in Runs : pc'[o] # "idle" => Peer(o) \in worker'
        /\ newpeer' # {} => mpc' = "register"
        /\ mpc' = "start" => worker' = {}
    BY <1>2, RunFrame DEF At, Finish
  <2>2. \A p \in Peers \ (worker' \cup newpeer') : sequence'[p] = {} /\ distances'[p] = {}
    <3>1. CASE Inform(r)
      BY <3>1, RunFrame, <1>2 DEF Inform, Informed
    <3>2. CASE ~Inform(r)
      BY <1>2, <3>2, RunFrame, OnlyInform
    <3>3. QED
      BY <3>1, <3>2
  <2>3. \A p \in worker' \cup newpeer' : requestEachTime'[p] >= 1
    OBVIOUS
  <2>4. ASSUME pc'[r] = "squeeze2" PROVE limit'[r] >= 1
    <3>1. CASE SqueezeEmpty(r)
      <4>1. limit'[r] = requestEachTime[Peer(r)]
        BY <3>1 DEF SqueezeEmpty, TypeOK, RoundTypes
      <4>2. QED
        BY <4>1, <1>2, RunFrame
    <3>2. ~SqueezeEmpty(r) => pc'[r] # "squeeze2"
      BY <1>2 DEF RunNext, RunLocal, RunStart, SqueezePending, BlkPending, Fill, Visit, FindLoad,
         FindStore, FindAppend, Inform, NextRound, CtxExit, CtxChecked, Deferred, RunExit,
         Receive, RoundTimeout, Finish, BackToLoop, Resume, AfterVisit, TypeOK
    <3>3. QED
      BY <2>4, <3>1, <3>2
  <2>5. \A o \in Runs : pc'[o] = "squeeze2" => limit'[o] >= 1
    BY <1>2, <2>4, RunFrame DEF At
  <2>6. QED
    BY <2>1, <2>2, <2>3, <2>5
<1>3. CASE UNCHANGED vars
  BY <1>3 DEF vars, dispVars, mainVars, peerVars, runVars
<1>4. QED
  BY <1>1, <1>2, <1>3 DEF Next

LEMMA DistancesTrackedStep ==
  ASSUME TypeOK, TableInv, DistancesTracked, [Next]_vars
  PROVE  DistancesTracked'
<1> USE DEF DistancesTracked
<1>1. Tracked \subseteq Tracked'
  BY TrackedGrows DEF TableInv
<1>2. ASSUME NEW q \in Peers, RecvNewProvider(q) PROVE DistancesTracked'
  <2>1. AbsorbDistances({}, cids) \subseteq Tracked
    BY DEF TableInv, LinksTracked, LinksOf, AbsorbDistances, FreshPrefix
  <2>2. QED
    BY <1>1, <1>2, <2>1 DEF RecvNewProvider, TypeOK, PeerTypes
<1>3. ASSUME NEW r \in Runs, NEW b \in blk[r], Inform(r)!(b) PROVE DistancesTracked'
  <2>1. LinksOf(Childs[b]) \subseteq Tracked
    BY <1>3 DEF TableInv, LinksTracked
  <2>2. \A p \in Peers : AbsorbDistances(distances[p], Childs[b]) \subseteq distances[p] \cup LinksOf(Childs[b])
    BY AbsorbGrows
  <2>3. QED
    BY <1>1, <1>3, <2>1, <2>2
<1>4. ASSUME NEW r \in Runs, RunNext(r), ~Inform(r) PROVE DistancesTracked'
  BY <1>1, <1>4, OnlyInform
<1>5. CASE Start \/ AllEnds \/ CancelCtx \/ CtxReturn \/ \E p \in Peers : RecvKnownProvider(p) \/ Register(p) \/ ScanWorker(p)
  BY <1>1, <1>5 DEF Start, AllEnds, CancelCtx, CtxReturn, RecvKnownProvider, Register, ScanWorker, peerVars
<1>6. CASE UNCHANGED vars
  BY <1>1, <1>6 DEF vars, peerVars
<1>7. QED
  BY <1>2, <1>3, <1>4, <1>5, <1>6 DEF Next, MainNext, Inform

\* blkFind of the root's links takes all of them.
LEMMA StartTakesAll ==
  ASSUME TypeOK, Unshared, Start
  PROVE  Roots \subseteq Tracked' /\ cids' = RootChilds
<1>1. DOMAIN RootChilds = 1..Len(RootChilds) /\ Len(RootChilds) \in Nat
  BY ConstantsAssumption
<1>2. FreshPrefix({}, RootChilds) = 1..Len(RootChilds)
  BY <1>1 DEF Unshared, FreshPrefix
<1>3. PICK k \in 0..Len(RootChilds) :
         /\ FreshPrefix({}, RootChilds) = 1..k
         /\ queryState' = [c \in Cids |-> IF \E i \in 1..k : RootChilds[i] = c THEN Empty ELSE Absent]
         /\ cids' = SubSeq(RootChilds, 1, k)
  BY DEF Start
<1>4. k = Len(RootChilds)
  <2>1. 1..k = 1..Len(RootChilds)
    BY <1>2, <1>3
  <2>2. \A n \in Nat : \A j \in 0..n : 1..j = 1..n => j = n
    <3>1. ASSUME NEW n \in Nat, NEW j \in 0..n, j # n PROVE n \in 1..n /\ n \notin 1..j
      BY <3>1
    <3>2. QED
      BY <3>1
  <2>3. QED
    BY <1>1, <2>1, <2>2
<1>5. cids' = RootChilds
  BY <1>3, <1>4, ConstantsAssumption
<1>6. Roots \subseteq Tracked'
  BY <1>1, <1>3, <1>4, ConstantsAssumption DEF Roots, LinksOf, Tracked
<1>7. QED
  BY <1>5, <1>6

LEMMA RootsTrackedStep ==
  ASSUME TypeOK, TableInv, Unshared, RootsTracked, [Next]_vars
  PROVE  RootsTracked'
<1>1. CASE Start
  BY <1>1, StartTakesAll DEF RootsTracked
<1>2. Tracked \subseteq Tracked'
  BY TrackedGrows DEF TableInv
<1>3. CASE MainLoop
  <2>1. mpc' # "start" => mpc # "start"
    BY <1>3 DEF MainLoop, RecvKnownProvider, RecvNewProvider, Register, ScanWorker, AllEnds,
       CancelCtx, CtxReturn, mainVars
  <2>2. Roots' = Roots
    OBVIOUS
  <2>3. QED
    BY <1>2, <2>1, <2>2 DEF RootsTracked
<1>4. ASSUME NEW r \in Runs, RunNext(r) PROVE RootsTracked'
  <2>1. mpc' # "start" => mpc # "start"
    BY <1>4, RunFrame DEF Finish
  <2>2. Roots' = Roots
    OBVIOUS
  <2>3. QED
    BY <1>2, <2>1, <2>2 DEF RootsTracked
<1>5. CASE UNCHANGED vars
  BY <1>2, <1>5 DEF vars, mainVars, RootsTracked
<1>6. QED
  BY <1>1, <1>3, <1>4, <1>5 DEF Next, MainNext, MainLoop

LEMMA ListStep ==
  ASSUME TypeOK, TableInv, ListInv, NoEmptyBatch', Quiet, [Next]_vars
  PROVE  ListInv'
  BY AsksOwnStep, WorkersKnownStep, DistancesTrackedStep, RootsTrackedStep DEF ListInv, Quiet

-----------------------------------------------------------------------------
(* Who finds the links of a block *)

\* A block is a link of one parent, at one place.
LEMMA OneParent ==
  ASSUME Unshared, NEW b \in Cids, NEW d \in Cids, NEW i \in DOMAIN Childs[b], NEW j \in DOMAIN Childs[d],
         Childs[b][i] = Childs[d][j]
  PROVE  b = d /\ i = j
<1>1. Childs[b][i] \in Links(b) /\ Childs[d][j] \in Links(d)
  BY DEF Links, LinksOf
<1>2. b = d
  BY <1>1 DEF Unshared
<1>3. QED
  BY <1>2 DEF Unshared

\* What FindStore does to the links of the blocks.
LEMMA StoreLinks ==
  ASSUME TypeOK, TableInv, Unshared, NEW r \in Runs, NEW b \in blk[r],
         FindStore(r)!(b), child[r] \in DOMAIN Childs[b],
         Tracked' = Tracked \cup {Childs[b][child[r]]}
  PROVE  /\ \A d \in Cids : \A i \in DOMAIN Childs[d] :
               Childs[d][i] \in Tracked' <=> Childs[d][i] \in Tracked \/ (d = b /\ i = child[r])
         /\ \A i \in DOMAIN Childs[b] : i < child[r] => Childs[b][i] \in Tracked
<1>1. b \in Cids
  BY DEF TypeOK, FindTypes
<1>2. \A d \in Cids : \A i \in DOMAIN Childs[d] :
        Childs[d][i] \in Tracked' <=> Childs[d][i] \in Tracked \/ (d = b /\ i = child[r])
  BY <1>1, OneParent
<1>3. FoundLinks(r, b) \subseteq Tracked
  BY DEF TableInv, LinksTracked, Finding
<1>4. QED
  BY <1>2, <1>3 DEF FoundLinks

LEMMA ChildIndex ==
  ASSUME NEW b \in Cids
  PROVE  /\ DOMAIN Childs[b] = 1..Len(Childs[b]) /\ Len(Childs[b]) \in Nat
         /\ \A i \in DOMAIN Childs[b] : Childs[b][i] \in Cids
         /\ Childs[b] # <<>> => 1 \in DOMAIN Childs[b]
  BY ConstantsAssumption

LEMMA PrefixStep ==
  ASSUME TypeOK, TableInv, Unshared, PrefixTracked, [Next]_vars
  PROVE  PrefixTracked'
<1> USE DEF PrefixTracked
<1>1. CASE Tracked' = Tracked
  BY <1>1
<1>2. CASE Start /\ Tracked' \subseteq Roots
  BY <1>2 DEF Unshared, Links, LinksOf
<1>3. ASSUME NEW r \in Runs, NEW b \in blk[r], FindStore(r)!(b), child[r] \in DOMAIN Childs[b],
             Tracked' = Tracked \cup {Childs[b][child[r]]}
      PROVE  PrefixTracked'
  <2>1. /\ \A d \in Cids : \A i \in DOMAIN Childs[d] :
               Childs[d][i] \in Tracked' <=> Childs[d][i] \in Tracked \/ (d = b /\ i = child[r])
        /\ \A i \in DOMAIN Childs[b] : i < child[r] => Childs[b][i] \in Tracked
    BY <1>3, StoreLinks
  <2>2. QED
    BY <2>1
<1>4. QED
  BY <1>1, <1>2, <1>3, TrackedStep

\* A goroutine that is not the one that steps keeps its place.
LEMMA OthersStay ==
  ASSUME TypeOK, [Next]_vars, NEW o \in Runs, pc[o] # "idle", ~RunNext(o)
  PROVE  At(o)' = At(o)
<1>1. CASE MainNext
  BY <1>1, MainFrame DEF At, roundVars, findVars
<1>2. CASE UNCHANGED vars
  BY <1>2 DEF At, vars, runVars
<1>3. QED
  BY <1>1, <1>2, RunFrame DEF Next

LEMMA FindSteps ==
  ASSUME NEW r \in Runs, RunNext(r), pc[r] \in Finding
  PROVE  FindLoad(r) \/ FindStore(r) \/ FindAppend(r) \/ Inform(r)
  BY DEF Finding, RunNext, RunLocal, RunStart, SqueezeEmpty, SqueezePending, BlkPending, Fill,
     Visit, NextRound, CtxExit, CtxChecked, RunExit, Receive, RoundTimeout, Finish

\* A link of b that enters the table is stored by a goroutine, which is ahead then.
LEMMA StorerAhead ==
  ASSUME TypeOK, TableInv, Unshared, PrefixTracked, [Next]_vars,
         NEW r \in Runs, NEW b \in blk[r], FindStore(r)!(b), child[r] \in DOMAIN Childs[b],
         Tracked' = Tracked \cup {Childs[b][child[r]]}, Childs[b][child[r]] \notin Tracked
  PROVE  Ahead(r, b)'
<1>1. b \in Cids
  BY DEF TypeOK, FindTypes
<1>2. DOMAIN Childs[b] = 1..Len(Childs[b]) /\ Len(Childs[b]) \in Nat
  BY <1>1, ChildIndex
<1>3. /\ \A i \in DOMAIN Childs[b] : Childs[b][i] \in Tracked' <=> Childs[b][i] \in Tracked \/ i = child[r]
      /\ \A i \in DOMAIN Childs[b] : i < child[r] => Childs[b][i] \in Tracked
  BY <1>1, StoreLinks
<1>4. \A i \in DOMAIN Childs[b] : child[r] < i => Childs[b][i] \notin Tracked
  BY <1>1 DEF PrefixTracked
<1>5. pc'[r] = "append" /\ blk' = blk /\ child' = child
  BY DEF TypeOK
<1>6. \A i \in DOMAIN Childs[b] : Childs[b][i] \in Tracked' <=> i < child[r] \/ i = child[r]
  BY <1>2, <1>3, <1>4
<1>7. QED
  BY <1>5, <1>6 DEF Ahead, Finding

\* The links of b that are in the table change only with FindStore of one of them.
LEMMA LinksChange ==
  ASSUME TypeOK, TableInv, Unshared, PrefixTracked, [Next]_vars, NEW b \in Cids
  PROVE  \/ \A i \in DOMAIN Childs[b] : Childs[b][i] \in Tracked' <=> Childs[b][i] \in Tracked
         \/ \E r \in Runs : b \in blk[r] /\ Ahead(r, b)'
<1> DEFINE Goal == \/ \A i \in DOMAIN Childs[b] : Childs[b][i] \in Tracked' <=> Childs[b][i] \in Tracked
                   \/ \E r \in Runs : b \in blk[r] /\ Ahead(r, b)'
<1>1. CASE Tracked' = Tracked
  BY <1>1
<1>2. CASE Start /\ Tracked' \subseteq Roots
  <2>1. Tracked = {}
    BY <1>2 DEF Start, TableInv, NotStarted
  <2>2. \A i \in DOMAIN Childs[b] : Childs[b][i] \notin Tracked'
    BY <1>2 DEF Unshared, Links, LinksOf
  <2>3. QED
    BY <2>1, <2>2
<1>3. ASSUME NEW r \in Runs, NEW d \in blk[r], FindStore(r)!(d), child[r] \in DOMAIN Childs[d],
             Tracked' = Tracked \cup {Childs[d][child[r]]}
      PROVE  Goal
  <2>1. CASE Childs[d][child[r]] \in Tracked
    BY <1>3, <2>1
  <2>2. CASE d # b
    BY <1>3, <2>2, StoreLinks
  <2>3. CASE Childs[d][child[r]] \notin Tracked /\ d = b
    BY <1>3, <2>3, StorerAhead
  <2>4. QED
    BY <2>1, <2>2, <2>3
<1>4. QED
  BY <1>1, <1>2, <1>3, TrackedStep

\* Some goroutine stays ahead until one has informed the workers.
LEMMA FrontKept ==
  ASSUME TypeOK, TableInv, Unshared, PrefixTracked, [Next]_vars, NEW b \in Cids, Front(b)
  PROVE  Front(b)' \/ \E r \in Runs : b \in blk[r] /\ Inform(r)
<1>1. PICK w \in Runs : Ahead(w, b)
  BY DEF Front
<1>2. CASE \E r \in Runs : b \in blk[r] /\ Ahead(r, b)'
  BY <1>2 DEF Front
<1>3. ASSUME \A i \in DOMAIN Childs[b] : Childs[b][i] \in Tracked' <=> Childs[b][i] \in Tracked,
             ~Inform(w)
      PROVE  Ahead(w, b)'
  <2> USE DEF Ahead
  <2>1. CASE ~RunNext(w)
    <3>1. pc[w] # "idle"
      BY <1>1 DEF Finding
    <3>2. At(w)' = At(w)
      BY <2>1, <3>1, OthersStay
    <3>3. QED
      BY <1>1, <1>3, <3>2 DEF At
  <2>2. b \in blk[w] /\ \A d \in blk[w] : d = b
    BY <1>1 DEF TypeOK, OneBlock
  <2>3. DOMAIN Childs[b] = 1..Len(Childs[b]) /\ Len(Childs[b]) \in Nat /\ child[w] \in DOMAIN Childs[b]
    BY <1>1, ChildIndex DEF TypeOK, ChildInRange
  <2>4. CASE FindLoad(w)
    <3>1. FindLoad(w)!(b)
      BY <2>2, <2>4 DEF FindLoad
    <3>2. Childs[b][child[w]] \notin Tracked
      BY <1>1, <2>3, <3>1
    <3>3. Childs[b][child[w]] \in Cids
      BY <2>3, ChildIndex
    <3>4. pc'[w] = "store" /\ UNCHANGED <<blk, child>>
      BY <3>1, <3>2, <3>3 DEF Tracked, TypeOK
    <3>5. QED
      BY <1>1, <1>3, <3>1, <3>4 DEF Finding
  <2>5. CASE FindStore(w)
    <3>1. FindStore(w)!(b)
      BY <2>2, <2>5 DEF FindStore
    <3>2. Childs[b][child[w]] \notin Tracked
      BY <1>1, <2>3, <3>1
    <3>3. Childs[b][child[w]] \in Tracked'
      BY <2>3, <3>1, ChildIndex DEF Tracked, TypeOK, DispTypes
    <3>4. QED
      BY <1>3, <2>3, <3>2, <3>3
  <2>6. CASE FindAppend(w)
    <3>1. FindAppend(w)!(b)
      BY <2>2, <2>6 DEF FindAppend
    <3>2. blk' = blk
      BY <3>1
    <3>3. CASE LastChild(w, b)
      <4>1. pc'[w] = "inform" /\ child' = child
        BY <3>1, <3>3 DEF TypeOK
      <4>2. QED
        BY <1>1, <1>3, <3>1, <3>2, <4>1 DEF Finding
    <3>4. CASE ~LastChild(w, b)
      <4>1. pc'[w] = "find" /\ child'[w] = child[w] + 1
        BY <3>1, <3>4 DEF TypeOK, FindTypes
      <4>2. \A j \in DOMAIN Childs[b] : j < child[w] + 1 <=> j < child[w] \/ j = child[w]
        BY <2>3
      <4>3. QED
        BY <1>1, <1>3, <3>1, <3>2, <4>1, <4>2 DEF Finding
    <3>5. QED
      BY <3>3, <3>4
  <2>7. QED
    BY <1>1, <1>3, <2>1, <2>4, <2>5, <2>6, FindSteps
<1>4. QED
  BY <1>1, <1>2, <1>3, LinksChange DEF Front, Ahead

LEMMA LinksFoundStep ==
  ASSUME TypeOK, TableInv, VisitInv, Unshared, PrefixTracked, LinksFound, [Next]_vars
  PROVE  LinksFound'
<1>1. Tracked \subseteq Tracked'
  BY TrackedGrows DEF TableInv
<1>2. ASSUME NEW b \in Visited PROVE Links(b) \subseteq Tracked' \/ Front(b)'
  <2>1. b \in Cids
    BY DEF Visited
  <2>2. CASE Links(b) \subseteq Tracked
    BY <1>1, <2>2
  <2>3. CASE Front(b)
    <3>1. ASSUME NEW r \in Runs, b \in blk[r], Inform(r) PROVE Links(b) \subseteq Tracked
      BY <3>1 DEF Inform, TableInv, LinksTracked, Links
    <3>2. QED
      BY <1>1, <2>1, <2>3, <3>1, FrontKept
  <2>4. QED
    BY <2>2, <2>3 DEF LinksFound
<1>3. ASSUME NEW r \in Runs, NEW b \in blk[r], Visit(r)!(b), b \notin Visited
      PROVE  Links(b) \subseteq Tracked' \/ Front(b)'
  <2>1. b \in Cids /\ queryState' = queryState
    BY <1>3 DEF TypeOK, FindTypes
  <2>2. \A i \in DOMAIN Childs[b] : Childs[b][i] \notin Tracked
    <3>1. ASSUME NEW i \in DOMAIN Childs[b], Childs[b][i] \in Tracked PROVE FALSE
      <4>1. Childs[b][i] \in Links(b)
        BY DEF Links, LinksOf
      <4>2. Childs[b][i] \notin Roots
        BY <2>1, <4>1 DEF Unshared
      <4>3. PICK d \in Visited : Childs[b][i] \in Links(d)
        BY <3>1, <4>2 DEF VisitInv, ParentFirst, Links, Roots
      <4>4. d \in Cids /\ d # b
        BY <1>3 DEF Visited
      <4>5. QED
        BY <2>1, <4>1, <4>3, <4>4 DEF Unshared
    <3>2. QED
      BY <3>1
  <2>3. CASE Childs[b] = <<>>
    <3>1. Links(b) = {}
      BY <2>3 DEF Links, LinksOf
    <3>2. QED
      BY <3>1
  <2>4. CASE Childs[b] # <<>>
    <3>1. pc'[r] = "find" /\ blk' = blk /\ child' = child /\ child[r] = 1
      BY <1>3, <2>4 DEF AfterVisit, TypeOK, ChildInRange, Finding
    <3>2. Tracked' = Tracked
      BY <2>1 DEF Tracked
    <3>3. \A i \in DOMAIN Childs[b] : ~(i < 1)
      BY <2>1, ChildIndex
    <3>4. Ahead(r, b)'
      BY <2>2, <3>1, <3>2, <3>3 DEF Ahead, Finding
    <3>5. QED
      BY <3>4 DEF Front
  <2>5. QED
    BY <2>3, <2>4
<1>4. QED
  BY <1>2, <1>3, VisitedStep DEF LinksFound

\* A worker with nothing of b absorbs all links of b when it is informed.
LEMMA InformTakes ==
  ASSUME TypeOK, Unshared, NEW r \in Runs, NEW b \in blk[r], Inform(r)!(b), NEW p \in worker
  PROVE  /\ Links(b) \cap distances[p] = {} => Links(b) \subseteq sequence'[p]
         /\ distances'[p] \subseteq distances[p] \cup Links(b)
<1>1. b \in Cids /\ p \in Peers
  BY DEF TypeOK, FindTypes, DispTypes
<1>2. Childs[b] \in Seq(Cids) /\ \A i, j \in DOMAIN Childs[b] : Childs[b][i] = Childs[b][j] => i = j
  BY <1>1, ConstantsAssumption DEF Unshared
<1>3. /\ sequence'[p] = AbsorbSequence(distances[p], sequence[p], Childs[b])
      /\ distances'[p] = AbsorbDistances(distances[p], Childs[b])
  BY <1>1 DEF Informed
<1>4. Links(b) \cap distances[p] = {} => Links(b) \subseteq sequence'[p]
  BY <1>2, <1>3, AbsorbsAll DEF Links
<1>5. distances'[p] \subseteq distances[p] \cup Links(b)
  BY <1>3 DEF AbsorbDistances, FreshPrefix, Links, LinksOf
<1>6. QED
  BY <1>4, <1>5

\* Once a goroutine was in blkFind with b for more than a look at its first link, an Inform
\* of b leaves its worker with all of them.
LEMMA DeepInformed ==
  ASSUME TypeOK, Unshared, WorkersKnown, FindersInformed, [Next]_vars,
         NEW r \in Runs, NEW b \in blk[r], Inform(r),
         NEW o \in Runs, Deep(o), b \in blk[o]
  PROVE  Links(b) \subseteq sequence'[Peer(o)]
<1>1. Inform(r)!(b)
  BY DEF Inform, TypeOK, OneBlock
<1>2. Peer(o) \in worker
  BY DEF Deep, WorkersKnown
<1>3. CASE Links(b) \subseteq sequence[Peer(o)]
  BY <1>3, ListsGrow, PeerType
<1>4. CASE Links(b) \cap distances[Peer(o)] = {}
  BY <1>1, <1>2, <1>4, InformTakes
<1>5. QED
  BY <1>3, <1>4 DEF FindersInformed

LEMMA DistancesStep ==
  ASSUME TypeOK, Unshared, WorkersKnown, [Next]_vars, NEW p \in worker
  PROVE  \/ distances'[p] = distances[p]
         \/ \E r \in Runs : \E d \in blk[r] : /\ Inform(r)
                                              /\ distances'[p] \subseteq distances[p] \cup Links(d)
<1>1. p \in Peers
  BY DEF TypeOK, DispTypes
<1>2. ASSUME NEW q \in Peers, RecvNewProvider(q) PROVE distances'[p] = distances[p]
  BY <1>1, <1>2 DEF RecvNewProvider, TypeOK, PeerTypes
<1>3. ASSUME NEW r \in Runs, NEW d \in blk[r], Inform(r)!(d)
      PROVE  distances'[p] \subseteq distances[p] \cup Links(d)
  BY <1>3, InformTakes
<1>4. ASSUME NEW r \in Runs, RunNext(r), ~Inform(r) PROVE distances'[p] = distances[p]
  BY <1>4, OnlyInform
<1>5. CASE Start \/ AllEnds \/ CancelCtx \/ CtxReturn \/ \E q \in Peers : RecvKnownProvider(q) \/ Register(q) \/ ScanWorker(q)
  BY <1>5 DEF Start, AllEnds, CancelCtx, CtxReturn, RecvKnownProvider, Register, ScanWorker, peerVars
<1>6. CASE UNCHANGED vars
  BY <1>6 DEF vars, peerVars
<1>7. QED
  BY <1>2, <1>3, <1>4, <1>5, <1>6 DEF Next, MainNext, Inform

\* A goroutine comes to store a link of b from one place only: it saw no first link.
LEMMA BecomesDeep ==
  ASSUME TypeOK, [Next]_vars, NEW o \in Runs, Deep(o)', NEW b \in blk'[o]
  PROVE  \/ Deep(o) /\ b \in blk[o]
         \/ FindLoad(o) /\ b \in blk[o] /\ child[o] = 1 /\ queryState[Childs[b][1]] = Absent
<1> DEFINE Goal == \/ Deep(o) /\ b \in blk[o]
                   \/ FindLoad(o) /\ b \in blk[o] /\ child[o] = 1 /\ queryState[Childs[b][1]] = Absent
<1>1. pc[o] # "idle"
  <2>1. CASE pc[o] = "idle"
    <3>1. pc'[o] \in {"idle", "start"}
      BY <2>1, MainFrame, RunFrame DEF Next, At, vars, runVars
    <3>2. QED
      BY <3>1 DEF Deep
  <2>2. QED
    BY <2>1
<1>2. CASE ~RunNext(o)
  <2>1. At(o)' = At(o)
    BY <1>1, <1>2, OthersStay
  <2>2. QED
    BY <2>1 DEF At, Deep
<1>3. CASE RunNext(o) /\ pc[o] \notin Finding
  <2>1. CASE Visit(o)
    <3>1. pc'[o] = "find" => child'[o] = 1
      BY <1>3, <2>1 DEF Visit, LeaveBlk, TypeOK, FindTypes, ChildInRange
    <3>2. pc'[o] \notin {"store", "append", "inform"}
      BY <1>3, <2>1 DEF Visit, AfterVisit, Resume, TypeOK
    <3>3. QED
      BY <3>1, <3>2 DEF Deep
  <2>2. CASE ~Visit(o)
    <3>1. pc'[o] \notin Finding
      BY <1>3, <2>2 DEF Finding, RunNext, RunLocal, RunStart, SqueezeEmpty, SqueezePending,
         BlkPending, Fill, FindLoad, FindStore, FindAppend, Inform, NextRound, CtxExit, Deferred,
         RunExit, Receive, RoundTimeout, Finish, TypeOK
    <3>2. QED
      BY <3>1 DEF Deep, Finding
  <2>3. QED
    BY <2>1, <2>2
<1>4. ASSUME FindLoad(o) PROVE Goal
  <2>1. PICK d \in blk[o] : FindLoad(o)!(d)
    BY <1>4 DEF FindLoad
  <2>2. CASE queryState[Childs[d][child[o]]] # Absent
    <3>1. pc'[o] \in {"adjust", "wait"}
      BY <2>1, <2>2 DEF BackToLoop, Resume, TypeOK
    <3>2. QED
      BY <3>1 DEF Deep
  <2>3. CASE queryState[Childs[d][child[o]]] = Absent
    <3>1. UNCHANGED <<blk, child>>
      BY <2>1, <2>3
    <3>2. b \in blk[o] /\ b = d
      BY <3>1 DEF TypeOK, OneBlock
    <3>3. CASE child[o] = 1
      BY <1>4, <2>3, <3>2, <3>3
    <3>4. CASE child[o] # 1
      BY <2>1, <3>2, <3>4 DEF Deep, TypeOK, FindTypes
    <3>5. QED
      BY <3>3, <3>4
  <2>4. QED
    BY <2>2, <2>3
<1>5. CASE FindStore(o) \/ FindAppend(o)
  BY <1>5 DEF FindStore, FindAppend, Deep
<1>6. CASE Inform(o)
  <2>1. pc'[o] \in {"adjust", "wait"}
    BY <1>6 DEF Inform, BackToLoop, Resume, TypeOK
  <2>2. QED
    BY <2>1 DEF Deep
<1>7. QED
  BY <1>2, <1>3, <1>4, <1>5, <1>6, FindSteps

LEMMA FindersInformedStep ==
  ASSUME TypeOK, TableInv, VisitInv, Unshared, ListInv, FindInv, [Next]_vars
  PROVE  FindersInformed'
<1> USE DEF ListInv, FindInv
<1> SUFFICES ASSUME NEW o \in Runs, Deep(o)', NEW b \in blk'[o]
             PROVE  \/ Links(b) \subseteq sequence'[Peer(o)]
                    \/ Links(b) \cap distances'[Peer(o)] = {} /\ Front(b)'
  BY DEF FindersInformed
<1>1. Peer(o) \in Peers
  BY PeerType
<1>2. ASSUME Deep(o), b \in blk[o]
      PROVE  \/ Links(b) \subseteq sequence'[Peer(o)]
             \/ Links(b) \cap distances'[Peer(o)] = {} /\ Front(b)'
  <2>1. b \in Cids /\ Peer(o) \in worker
    BY <1>2 DEF TypeOK, FindTypes, Deep, WorkersKnown
  <2>2. CASE \E r \in Runs : b \in blk[r] /\ Inform(r)
    BY <1>2, <2>2, DeepInformed
  <2>3. CASE Links(b) \subseteq sequence[Peer(o)]
    BY <1>1, <2>3, ListsGrow
  <2>4. ASSUME ~ \E r \in Runs : b \in blk[r] /\ Inform(r),
               Links(b) \cap distances[Peer(o)] = {}, Front(b)
        PROVE  Links(b) \cap distances'[Peer(o)] = {} /\ Front(b)'
    <3>1. Front(b)'
      BY <2>1, <2>4, FrontKept
    <3>2. CASE distances'[Peer(o)] = distances[Peer(o)]
      BY <2>4, <3>1, <3>2
    <3>3. ASSUME NEW r \in Runs, NEW d \in blk[r], Inform(r),
                 distances'[Peer(o)] \subseteq distances[Peer(o)] \cup Links(d)
          PROVE  Links(b) \cap distances'[Peer(o)] = {}
      <4>1. d \in Cids /\ d # b
        BY <2>4, <3>3 DEF TypeOK, FindTypes
      <4>2. Links(b) \cap Links(d) = {}
        BY <2>1, <4>1 DEF Unshared
      <4>3. QED
        BY <2>4, <3>3, <4>2
    <3>4. QED
      BY <2>1, <3>1, <3>2, <3>3, DistancesStep
  <2>5. QED
    BY <1>2, <2>2, <2>3, <2>4 DEF FindersInformed
<1>3. ASSUME FindLoad(o), b \in blk[o], child[o] = 1, queryState[Childs[b][1]] = Absent
      PROVE  Links(b) \cap distances'[Peer(o)] = {} /\ Front(b)'
  <2>1. RunNext(o) /\ ~Inform(o) /\ pc[o] = "find"
    BY <1>3 DEF RunNext, RunLocal, FindLoad, Inform
  <2>2. b \in Cids /\ 1 \in DOMAIN Childs[b] /\ b \in Visited
    BY <1>3, <2>1 DEF TypeOK, FindTypes, ChildInRange, Finding, VisitInv, FindersVisited
  <2>3. \A i \in DOMAIN Childs[b] : Childs[b][i] \notin Tracked
    <3>1. Childs[b][1] \notin Tracked
      BY <1>3 DEF Tracked
    <3>2. \A i \in DOMAIN Childs[b] : i = 1 \/ 1 < i
      BY <2>2, ChildIndex
    <3>3. QED
      BY <2>2, <3>1, <3>2 DEF PrefixTracked
  <2>4. Links(b) \cap Tracked = {} /\ Links(b) # {}
    BY <2>2, <2>3 DEF Links, LinksOf
  <2>5. Front(b)
    BY <2>2, <2>4 DEF LinksFound
  <2>6. \A r \in Runs : ~Inform(r)
    <3>1. ASSUME NEW r \in Runs \ {o}, Inform(r) PROVE FALSE
      <4>1. pc'[r] = "inform"
        BY <2>1, <3>1, RunFrame DEF At, Inform
      <4>2. pc'[r] \in {"adjust", "wait"}
        BY <3>1 DEF Inform, BackToLoop, Resume, TypeOK
      <4>3. QED
        BY <4>1, <4>2
    <3>2. QED
      BY <2>1, <3>1
  <2>7. Front(b)'
    BY <2>2, <2>5, <2>6, FrontKept
  <2>8. distances' = distances /\ distances[Peer(o)] \subseteq Tracked
    BY <1>1, <2>1, OnlyInform DEF DistancesTracked
  <2>9. QED
    BY <2>4, <2>7, <2>8
<1>4. QED
  BY <1>2, <1>3, BecomesDeep

LEMMA FindStep ==
  ASSUME TypeOK, TableInv, VisitInv, ListInv, FindInv, Quiet, [Next]_vars
  PROVE  FindInv'
  BY PrefixStep, LinksFoundStep, FindersInformedStep DEF FindInv, Quiet

-----------------------------------------------------------------------------
(* A block that is not visited yet is held *)

LEMMA FrontHeld ==
  ASSUME TypeOK, TableInv, Unshared, ListInv, FindInv, [Next]_vars,
         NEW b \in Cids, NEW c \in Links(b), Front(b)
  PROVE  Held(c)'
<1>1. CASE Front(b)'
  BY <1>1 DEF Held, Links
<1>2. ASSUME NEW r \in Runs, b \in blk[r], Inform(r) PROVE Holds(r, c)'
  <2>1. pc[r] = "inform" /\ pc'[r] \in {"adjust", "wait"}
    BY <1>2 DEF Inform, BackToLoop, Resume, TypeOK
  <2>2. Links(b) \subseteq sequence'[Peer(r)]
    BY <1>2, <2>1, DeepInformed DEF Deep, FindInv, ListInv
  <2>3. QED
    BY <2>1, <2>2 DEF Holds, Busy
<1>3. QED
  BY <1>1, <1>2, FrontKept DEF FindInv, Held

\* A link that was just stored is with the worker, or comes with the one ahead.
LEMMA StoredHeld ==
  ASSUME TypeOK, FindersInformed', NEW r \in Runs, NEW b \in blk[r], FindStore(r)!(b),
         NEW c \in Links(b)
  PROVE  Held(c)'
<1>1. b \in Cids /\ pc'[r] = "append" /\ blk' = blk
  BY DEF TypeOK, FindTypes
<1>2. Links(b) \subseteq sequence'[Peer(r)] \/ Front(b)'
  BY <1>1 DEF FindersInformed, Deep, Links
<1>3. CASE Links(b) \subseteq sequence'[Peer(r)]
  BY <1>1, <1>3 DEF Held, Holds, Busy
<1>4. CASE Front(b)'
  BY <1>1, <1>4 DEF Held, Links
<1>5. QED
  BY <1>2, <1>3, <1>4

\* What a goroutine holds is still held when somebody else steps.
LEMMA OtherHolds ==
  ASSUME TypeOK, TableInv, ListInv, FindersInformed', [Next]_vars,
         NEW c \in Cids, NEW w \in Runs, Holds(w, c), ~RunNext(w)
  PROVE  Held(c)'
<1>1. pc[w] # "idle"
  BY DEF Holds, Busy
<1>2. At(w)' = At(w)
  BY <1>1, OthersStay
<1>3. \A r \in Runs : sequence[Peer(r)] \subseteq sequence'[Peer(r)]
  BY ListsGrow, PeerType DEF ListInv
<1>4. CASE Busy(w) /\ c \in sequence[Peer(w)] /\ (pc[w] = "squeeze2" => numOfRequest[w] > 0)
  <2>1. Holds(w, c)'
    BY <1>2, <1>3, <1>4 DEF Holds, At, Busy
  <2>2. QED
    BY <2>1 DEF Held
<1>5. ASSUME pc[w] = "squeeze2", c \in snapshot[w], queryState[c] = Pending
      PROVE  Held(c)'
  <2>1. CASE queryState'[c] = Pending
    <3>1. Holds(w, c)'
      BY <1>2, <1>5, <2>1 DEF Holds, At
    <3>2. QED
      BY <3>1 DEF Held
  <2>2. ~Start
    BY <1>1 DEF Start, TableInv, NotStarted
  <2>3. ASSUME NEW r \in Runs, BlkPending(r) PROVE queryState'[c] = Pending
    BY <1>5, <2>3 DEF BlkPending, TypeOK, DispTypes
  <2>4. ASSUME NEW r \in Runs, Fill(r), c \in blk[r] PROVE Holds(r, c)'
    <3>1. c \in sequence[Peer(r)]
      BY <2>4 DEF ListInv, AsksOwn
    <3>2. pc'[r] = "visit"
      BY <2>4 DEF Fill, TypeOK
    <3>3. QED
      BY <1>3, <3>1, <3>2 DEF Holds, Busy
  <2>5. ASSUME NEW r \in Runs, Fill(r), c \notin blk[r] PROVE queryState'[c] = Pending
    BY <1>5, <2>5 DEF Fill
  <2>6. ASSUME NEW r \in Runs, NEW b \in blk[r], FindStore(r)!(b), queryState'[c] # Pending
        PROVE  Held(c)'
    <3>1. c = Childs[b][child[r]] /\ child[r] \in DOMAIN Childs[b]
      BY <1>5, <2>6 DEF TypeOK, DispTypes, FindTypes, ChildInRange, Finding
    <3>2. c \in Links(b)
      BY <3>1 DEF Links, LinksOf
    <3>3. QED
      BY <2>6, <3>2, StoredHeld
  <2>7. QED
    BY <1>5, <2>1, <2>2, <2>3, <2>4, <2>5, <2>6, TableWrites DEF FindStore, Held
<1>6. QED
  BY <1>4, <1>5 DEF Holds

\* The first pass leaves a block it did not take to the second, or to who has it in hand.
LEMMA FirstPassHolds ==
  ASSUME TypeOK, VisitInv, ListInv, [Next]_vars, NEW c \in Tracked \ Visited,
         NEW r \in Runs, SqueezeEmpty(r), c \in sequence[Peer(r)]
  PROVE  Held(c)'
<1> DEFINE p == Peer(r)
           L == requestEachTime[p]
           picked == Pass(p, sequence[p], Empty, IF L = 0 THEN 1 ELSE L)
<1>1. p \in Peers /\ p \in worker /\ c \in Cids
  BY PeerType DEF SqueezeEmpty, ListInv, WorkersKnown, Tracked
<1>2. L \in Nat \ {0}
  BY <1>1 DEF ListInv, WorkersKnown, NoEmptyBatch, TypeOK, PeerTypes
<1>3. picked \in SUBSET sequence[p] /\ Cardinality(picked) \in Nat /\ picked \in SUBSET Cids
  BY <1>1, PassType DEF TypeOK, PeerTypes
<1>4. /\ snapshot'[r] = sequence[p] /\ numOfRequest'[r] = Cardinality(picked)
      /\ pc'[r] = IF Cardinality(picked) < L THEN "squeeze2"
                  ELSE IF picked = {} THEN "finish" ELSE "pend"
      /\ UNCHANGED <<queryState, sequence>>
  BY DEF SqueezeEmpty, TypeOK, RoundTypes, dispVars, peerVars
<1>5. Cardinality(picked) = 0 <=> picked = {}
  BY <1>3, BlockCount
<1> HIDE DEF picked
<1>6. CASE picked # {}
  <2>1. pc'[r] \in {"squeeze2", "pend"} /\ numOfRequest'[r] > 0
    BY <1>3, <1>4, <1>5, <1>6
  <2>2. Holds(r, c)'
    BY <1>4, <2>1 DEF Holds, Busy
  <2>3. QED
    BY <2>2 DEF Held
<1>7. CASE picked = {}
  <2>1. pc'[r] = "squeeze2"
    BY <1>2, <1>4, <1>5, <1>7
  <2>2. queryState[c] # Empty
    <3>1. ASSUME queryState[c] = Empty PROVE picked # {}
      <4>1. sequence[p] \in SUBSET Cids
        BY <1>1 DEF TypeOK, PeerTypes
      <4>2. Pass(p, sequence[p], Empty, L) # {}
        BY <1>1, <1>2, <3>1, <4>1, PassTakes
      <4>3. QED
        BY <1>2, <4>2 DEF picked
    <3>2. QED
      BY <1>7, <3>1
  <2>3. CASE queryState[c] = Pending
    <3>1. Holds(r, c)'
      BY <1>4, <2>1, <2>3 DEF Holds
    <3>2. QED
      BY <3>1 DEF Held
  <2>4. CASE queryState[c] = Filled
    <3>1. PICK o \in Runs : pc[o] = "visit" /\ c \in blk[o]
      BY <1>1, <2>4 DEF VisitInv, FilledIsVisited, InHand
    <3>2. o # r /\ RunNext(r)
      BY <3>1 DEF SqueezeEmpty, RunNext, RunLocal
    <3>3. pc'[o] = "visit"
      BY <3>1, <3>2, RunFrame DEF At
    <3>4. c \in sequence'[Peer(o)]
      BY <1>4, <3>1 DEF ListInv, AsksOwn
    <3>5. Holds(o, c)'
      BY <3>3, <3>4 DEF Holds, Busy
    <3>6. QED
      BY <3>5 DEF Held
  <2>5. queryState[c] \in {Absent, Empty, Pending, Filled} /\ queryState[c] # Absent
    BY <1>1 DEF Tracked, TypeOK, DispTypes
  <2>6. QED
    BY <2>2, <2>3, <2>4, <2>5
<1>8. QED
  BY <1>6, <1>7

\* The second pass takes what the first left, unless the batch is begun already.
LEMMA SecondPassHolds ==
  ASSUME TypeOK, RoundInv, ListInv, [Next]_vars, NEW c \in Cids,
         NEW r \in Runs, SqueezePending(r), Holds(r, c)
  PROVE  Held(c)'
<1> DEFINE p == Peer(r)
           n == limit[r] - numOfRequest[r]
           picked == Pass(p, snapshot[r], Pending, n)
<1>1. p \in Peers /\ pc[r] = "squeeze2"
  BY PeerType DEF SqueezePending
<1>2. snapshot[r] \in SUBSET Cids /\ limit[r] \in Nat /\ limit[r] >= 1 /\ numOfRequest[r] \in Int
  BY <1>1 DEF ListInv, WorkersKnown, TypeOK, RoundTypes
<1>3. numOfRequest[r] >= 0
  <2>1. Cardinality(toRequest[r]) <= numOfRequest[r]
    BY <1>1 DEF RoundInv, SoundAt, Sound
  <2>2. Cardinality(toRequest[r]) \in Nat
    BY BlockCount DEF TypeOK, RoundTypes
  <2>3. QED
    BY <1>2, <2>1, <2>2
<1>4. Cardinality(picked) \in Nat /\ picked \in SUBSET Cids
  BY <1>2, PassType
<1>5. Cardinality(picked) = 0 <=> picked = {}
  BY <1>4, BlockCount
<1>6. ASSUME numOfRequest[r] = 0 PROVE picked # {}
  <2>1. c \in snapshot[r] /\ queryState[c] = Pending
    BY <1>1, <1>6 DEF Holds
  <2>2. n \in Nat \ {0}
    BY <1>2, <1>6
  <2>3. QED
    BY <1>1, <1>2, <2>1, <2>2, PassTakes
<1>7. c \in sequence[p]
  BY DEF Holds, ListInv, AsksOwn
<1>8. pc'[r] = IF numOfRequest[r] + Cardinality(picked) = 0 THEN "finish" ELSE "pend"
  BY DEF SqueezePending, Fetched, TypeOK
<1>9. sequence' = sequence
  BY DEF SqueezePending, peerVars
<1> HIDE DEF picked
<1>10. pc'[r] = "pend"
  BY <1>2, <1>3, <1>4, <1>5, <1>6, <1>8
<1>11. Holds(r, c)'
  BY <1>7, <1>9, <1>10 DEF Holds, Busy
<1>12. QED
  BY <1>11 DEF Held

\* A goroutine that is neither in squeeze nor at its end goes on.
LEMMA StaysBusy ==
  ASSUME TypeOK, NEW r \in Runs, RunNext(r), Busy(r), ~ctxDone, mpc # "done",
         ~SqueezeEmpty(r), ~SqueezePending(r)
  PROVE  Busy(r)' /\ pc'[r] # "squeeze2" /\ pc[r] # "squeeze2"
<1> USE DEF TypeOK, Busy
<1>1. CASE BlkPending(r) \/ Fill(r) \/ RoundTimeout(r) \/ NextRound(r)
  BY <1>1 DEF BlkPending, Fill, RoundTimeout, NextRound
<1>2. CASE Visit(r) \/ FindLoad(r) \/ Inform(r)
  BY <1>2 DEF Visit, AfterVisit, FindLoad, Inform, BackToLoop, Resume
<1>3. CASE FindStore(r) \/ FindAppend(r)
  BY <1>3 DEF FindStore, FindAppend
<1>4. CASE \E c \in Cids : Receive(r, c)
  BY <1>4 DEF Receive
<1>5. ~RunStart(r) /\ ~CtxExit(r) /\ ~Finish(r) /\ ~RunExit(r)
  BY DEF RunStart, CtxExit, Finish, RunExit
<1>6. QED
  BY <1>1, <1>2, <1>3, <1>4, <1>5 DEF RunNext, RunLocal

LEMMA OwnHolds ==
  ASSUME TypeOK, VisitInv, RoundInv, ListInv, [Next]_vars, ~ctxDone, mpc # "done",
         NEW c \in Tracked \ Visited, NEW r \in Runs, RunNext(r), Holds(r, c)
  PROVE  Held(c)'
<1>1. c \in Cids
  BY DEF Tracked
<1>2. CASE SqueezePending(r)
  BY <1>1, <1>2, SecondPassHolds
<1>3. CASE SqueezeEmpty(r)
  <2>1. c \in sequence[Peer(r)]
    BY <1>3 DEF SqueezeEmpty, Holds
  <2>2. QED
    BY <1>3, <2>1, FirstPassHolds
<1>4. CASE ~SqueezePending(r) /\ ~SqueezeEmpty(r)
  <2>1. Busy(r) /\ c \in sequence[Peer(r)]
    BY DEF Holds, Busy, ListInv, AsksOwn
  <2>2. Busy(r)' /\ pc'[r] # "squeeze2"
    BY <1>4, <2>1, StaysBusy
  <2>3. sequence[Peer(r)] \subseteq sequence'[Peer(r)]
    BY ListsGrow, PeerType DEF ListInv
  <2>4. Holds(r, c)'
    BY <2>1, <2>2, <2>3 DEF Holds
  <2>5. QED
    BY <2>4 DEF Held
<1>5. QED
  BY <1>2, <1>3, <1>4

LEMMA HeldStep ==
  ASSUME TypeOK, TableInv, VisitInv, RoundInv, ListInv, FindInv, FindInv', Unshared, [Next]_vars,
         ~Start, ~ctxDone, mpc # "done",
         \A c \in Tracked \ Visited : Held(c), NEW c \in Tracked' \ Visited'
  PROVE  Held(c)'
<1>1. c \notin Visited
  BY VisitedGrows
<1>2. CASE c \in Tracked
  <2>1. c \in Cids
    BY <1>2 DEF Tracked
  <2>2. CASE \E b \in Cids : c \in Links(b) /\ Front(b)
    BY <2>2, FrontHeld
  <2>3. ASSUME NEW w \in Runs, Holds(w, c) PROVE Held(c)'
    <3>1. CASE RunNext(w)
      BY <1>1, <1>2, <2>3, <3>1, OwnHolds
    <3>2. CASE ~RunNext(w)
      BY <2>1, <2>3, <3>2, OtherHolds DEF FindInv
    <3>3. QED
      BY <3>1, <3>2
  <2>4. QED
    BY <1>1, <1>2, <2>2, <2>3 DEF Held
<1>3. CASE c \notin Tracked
  <2>1. ASSUME NEW r \in Runs, NEW b \in blk[r], FindStore(r)!(b), child[r] \in DOMAIN Childs[b],
               Tracked' = Tracked \cup {Childs[b][child[r]]}
        PROVE  Held(c)'
    <3>1. c \in Links(b)
      BY <1>3, <2>1 DEF Links, LinksOf
    <3>2. QED
      BY <2>1, <3>1, StoredHeld DEF FindInv
  <2>2. QED
    BY <1>3, <2>1, TrackedStep
<1>4. QED
  BY <1>2, <1>3

LEMMA NobodyAtStart ==
  ASSUME TypeOK, TableInv, WorkersKnown, mpc = "start"
  PROVE  NobodyBegan
  BY DEF NobodyBegan, TableInv, NotStarted, WorkersKnown

\* Until the first goroutine runs, a new worker absorbs the links of the root.
LEMMA NobodyStep ==
  ASSUME TypeOK, TableInv, WorkersKnown, Unshared, NobodyBegan, MainNext, mpc' # "done"
  PROVE  NobodyBegan'
<1> USE DEF NobodyBegan
<1>1. \A r \in Runs : pc'[r] \in {"idle", "start"}
  BY MainFrame
<1>2. CASE Start
  <2>1. cids' = RootChilds /\ mpc' \in {"select", "endofdag"}
    BY <1>2, StartTakesAll DEF Start
  <2>2. Tracked' \subseteq Roots
    BY <1>2, ConstantsAssumption DEF Start, Tracked, Roots, LinksOf
  <2>3. worker' \cup newpeer' = {}
    BY <1>2 DEF Start, WorkersKnown
  <2>4. QED
    BY <1>1, <2>1, <2>2, <2>3
<1>3. ASSUME NEW q \in Peers, RecvNewProvider(q) PROVE NobodyBegan'
  <2>1. cids = RootChilds /\ newpeer = {} /\ UNCHANGED <<cids, queryState, worker>>
    BY <1>3 DEF RecvNewProvider, dispVars, WorkersKnown
  <2>2. mpc' = "register" /\ newpeer' = {q}
    BY <1>3 DEF RecvNewProvider
  <2>3. sequence'[q] = Roots
    <3>1. RootChilds \in Seq(Cids) /\ \A i, j \in DOMAIN RootChilds : RootChilds[i] = RootChilds[j] => i = j
      BY ConstantsAssumption DEF Unshared
    <3>2. ASSUME NEW D, D = {} PROVE AbsorbSequence(D, D, RootChilds) = D \cup LinksOf(RootChilds)
      <4>1. LinksOf(RootChilds) \cap D = {}
        BY <3>2
      <4>2. QED
        BY <3>1, <4>1, AbsorbsAll
    <3>3. AbsorbSequence({}, {}, RootChilds) = {} \cup LinksOf(RootChilds)
      BY <3>2, Zenon
    <3>4. sequence'[q] = AbsorbSequence({}, {}, cids)
      BY <1>3 DEF RecvNewProvider, TypeOK, PeerTypes
    <3>5. Roots = {} \cup LinksOf(RootChilds)
      BY DEF Roots
    <3>6. QED
      BY <2>1, <3>3, <3>4, <3>5, Zenon
  <2>4. \A p \in worker : p # q /\ p \in Peers
    BY <1>3 DEF RecvNewProvider, TypeOK, DispTypes
  <2>5. \A p \in worker : sequence'[p] = sequence[p]
    BY <1>3, <2>4 DEF RecvNewProvider, TypeOK, PeerTypes
  <2>6. QED
    BY <1>1, <2>1, <2>2, <2>3, <2>5 DEF Tracked
<1>4. ASSUME NEW q \in Peers, RecvKnownProvider(q) \/ Register(q) PROVE NobodyBegan'
  <2>1. UNCHANGED <<cids, queryState, sequence>> /\ worker' \cup newpeer' = worker \cup newpeer
    BY <1>4 DEF RecvKnownProvider, Register, dispVars, mainVars, peerVars
  <2>2. mpc # "start" /\ mpc' = "select"
    BY <1>4 DEF RecvKnownProvider, Register, mainVars
  <2>3. QED
    BY <1>1, <2>1, <2>2 DEF Tracked
<1>5. ASSUME CancelCtx \/ CtxReturn PROVE NobodyBegan'
  <2>1. UNCHANGED <<cids, queryState, sequence, worker, newpeer>>
    BY <1>5 DEF CancelCtx, CtxReturn, dispVars, peerVars
  <2>2. mpc' # "scan" /\ (mpc' # "start" => mpc # "start")
    BY <1>5 DEF CancelCtx, CtxReturn
  <2>3. QED
    BY <1>1, <2>1, <2>2 DEF Tracked
<1>6. ~ \E q \in Peers : ScanWorker(q)
  BY DEF ScanWorker
<1>7. ~AllEnds
  BY DEF AllEnds
<1>8. QED
  BY <1>2, <1>3, <1>4, <1>5, <1>6, <1>7 DEF MainNext

\* The first goroutine that runs has all that was found.
LEMMA BeginHeld ==
  ASSUME TypeOK, WorkersKnown, NobodyBegan, NEW r \in Runs, RunNext(r)
  PROVE  \A c \in Tracked' \ Visited' : Held(c)'
<1>1. pc[r] = "start" /\ Peer(r) \in worker
  BY RunFrame DEF NobodyBegan, WorkersKnown
<1>2. RunStart(r)
  BY <1>1 DEF RunNext, RunLocal, SqueezeEmpty, SqueezePending, BlkPending, Fill, Visit, FindLoad,
     FindStore, FindAppend, Inform, NextRound, CtxExit, CtxChecked, RunExit, Receive,
     RoundTimeout, Finish
<1>3. pc'[r] = "squeeze" /\ sequence' = sequence /\ Tracked' = Tracked
  BY <1>2 DEF RunStart, TypeOK, dispVars, Tracked
<1>4. Tracked' \subseteq sequence'[Peer(r)]
  BY <1>1, <1>3 DEF NobodyBegan
<1>5. \A c \in Tracked' : Holds(r, c)'
  BY <1>3, <1>4 DEF Holds, Busy
<1>6. QED
  BY <1>5 DEF Held

LEMMA AllHeldStep ==
  ASSUME TypeOK, TableInv, VisitInv, RoundInv, ListInv, FindInv, FindInv', AllHeld, Unshared,
         [Next]_vars
  PROVE  AllHeld'
<1> SUFFICES ASSUME ~ctxDone', mpc' # "done"
             PROVE  NobodyBegan' \/ \A c \in Tracked' \ Visited' : Held(c)'
  BY DEF AllHeld
<1>1. ~ctxDone /\ mpc # "done"
  <2>1. CASE MainNext
    BY <2>1 DEF MainNext, Start, RecvKnownProvider, RecvNewProvider, Register, ScanWorker, AllEnds,
       CancelCtx, CtxReturn, mainVars
  <2>2. ASSUME NEW r \in Runs, RunNext(r) PROVE ~ctxDone /\ mpc # "done"
    BY <2>2, RunFrame DEF Finish
  <2>3. CASE UNCHANGED vars
    BY <2>3 DEF vars, mainVars
  <2>4. QED
    BY <2>1, <2>2, <2>3 DEF Next
<1>2. CASE NobodyBegan
  <2>1. CASE MainNext
    BY <1>2, <2>1, NobodyStep DEF ListInv
  <2>2. CASE \E r \in Runs : RunNext(r)
    BY <1>2, <2>2, BeginHeld DEF ListInv
  <2>3. CASE UNCHANGED vars
    BY <1>2, <2>3 DEF vars, NobodyBegan, dispVars, mainVars, runVars, peerVars, Tracked
  <2>4. QED
    BY <2>1, <2>2, <2>3 DEF Next
<1>3. CASE ~NobodyBegan
  <2>1. mpc # "start" /\ \A c \in Tracked \ Visited : Held(c)
    BY <1>1, <1>3, NobodyAtStart DEF AllHeld, ListInv
  <2>2. ~Start
    BY <2>1 DEF Start
  <2>3. QED
    BY <1>1, <2>1, <2>2, HeldStep
<1>4. QED
  BY <1>2, <1>3

-----------------------------------------------------------------------------
(* How Dispatch3 ends *)

LEMMA WorkingStep ==
  ASSUME TypeOK, MaxRuns = 1, WorkingFlagTruthful, [Next]_vars
  PROVE  WorkingFlagTruthful'
<1> DEFINE On(r) == pc[r] \notin {"idle", "start"}
<1>1. \A r, o \in Runs : Peer(r) = Peer(o) => r = o
  BY DEF Runs, Peer
<1>2. ASSUME working' = working, \A r \in Runs : On(r)' <=> On(r)
      PROVE  WorkingFlagTruthful'
  BY <1>2 DEF WorkingFlagTruthful
<1>3. CASE MainNext
  <2>1. \A r \in Runs : On(r)' <=> On(r)
    BY <1>3, MainFrame
  <2>2. working' = working
    BY <1>3, MainFrame
  <2>3. QED
    BY <1>2, <2>1, <2>2
<1>4. ASSUME NEW r \in Runs, RunNext(r) PROVE WorkingFlagTruthful'
  <2>0. \A o \in Runs \ {r} : On(o)' <=> On(o)
    BY <1>4, RunFrame DEF At
  <2>1. CASE RunStart(r)
    <3>1. On(r)' /\ working'[Peer(r)] /\ \A p \in Peers \ {Peer(r)} : working'[p] = working[p]
      BY <2>1, PeerType DEF RunStart, TypeOK, PeerTypes
    <3>2. QED
      BY <2>0, <3>1 DEF WorkingFlagTruthful
  <2>2. CASE RunExit(r)
    <3>1. ~On(r)' /\ ~working'[Peer(r)] /\ \A p \in Peers \ {Peer(r)} : working'[p] = working[p]
      BY <2>2, PeerType DEF RunExit, TypeOK, PeerTypes
    <3>2. \A o \in Runs : Peer(o) = Peer(r) => ~On(o)'
      BY <1>1, <3>1
    <3>3. QED
      BY <2>0, <3>1, <3>2 DEF WorkingFlagTruthful
  <2>3. CASE ~RunStart(r) /\ ~RunExit(r)
    <3>1. On(r) /\ On(r)' /\ working' = working
      BY <1>4, <2>3 DEF RunNext, RunLocal, SqueezeEmpty, SqueezePending, BlkPending, Fill, Visit,
         FindLoad, FindStore, FindAppend, Inform, NextRound, CtxExit, CtxChecked, Deferred, Receive,
         RoundTimeout, Finish, BackToLoop, Resume, AfterVisit, TypeOK, peerVars
    <3>2. QED
      BY <1>2, <2>0, <3>1
  <2>4. QED
    BY <2>1, <2>2, <2>3
<1>5. CASE UNCHANGED vars
  BY <1>2, <1>5 DEF vars, runVars, peerVars
<1>6. QED
  BY <1>3, <1>4, <1>5 DEF Next

\* If nothing that was found waits and nobody is in blkFind, all blocks were visited.
LEMMA AllVisited ==
  ASSUME TypeOK, ListInv, FindInv, Reachable, mpc # "start",
         Tracked \subseteq Visited, \A b \in Cids : ~Front(b)
  PROVE  Visited = Cids
<1>1. PICK depth \in [Cids -> Nat] : \A c \in Cids :
         c \in Roots \/ \E b \in Cids : c \in Links(b) /\ depth[b] < depth[c]
  BY DEF Reachable
<1>2. Visited \subseteq Cids
  BY DEF Visited
<1>3. ASSUME Cids \ Visited # {} PROVE FALSE
  <2>1. PICK c \in Cids \ Visited : \A d \in Cids \ Visited : depth[c] <= depth[d]
    BY <1>1, <1>3, Least
  <2>2. c \notin Roots
    BY DEF ListInv, RootsTracked
  <2>3. PICK b \in Cids : c \in Links(b) /\ depth[b] < depth[c]
    BY <1>1, <2>1, <2>2
  <2>4. b \in Visited
    BY <1>1, <2>1, <2>3
  <2>5. QED
    BY <2>1, <2>3, <2>4 DEF FindInv, LinksFound
<1>4. QED
  BY <1>2, <1>3

\* When a worker reports its end and all others are at theirs, nothing is left to do.
LEMMA FinishSees ==
  ASSUME TypeOK, ListInv, FindInv, AllHeld, Reachable, [Next]_vars, ~ctxDone,
         NEW r \in Runs, Finish(r)
  PROVE  ScanSees'
<1>1. RunNext(r) /\ pc[r] = "finish" /\ mpc = "select"
  BY DEF Finish, RunNext
<1>2. scan' = worker /\ pc'[r] = "clear"
  BY DEF Finish, Deferred, TypeOK
<1>3. CASE \E o \in Runs : Busy(o)
  <2>1. PICK o \in Runs : Busy(o)
    BY <1>3
  <2>2. o # r
    BY <1>1, <2>1 DEF Busy
  <2>3. Busy(o)'
    BY <1>1, <2>1, <2>2, RunFrame DEF At, Busy
  <2>4. Peer(o) \in worker
    BY <2>1 DEF ListInv, WorkersKnown, Busy
  <2>5. QED
    BY <1>2, <2>3, <2>4 DEF ScanSees
<1>4. CASE \A o \in Runs : ~Busy(o)
  <2>1. \A c \in Tracked \ Visited : Held(c)
    BY <1>1 DEF AllHeld, NobodyBegan
  <2>2. \A b \in Cids : ~Front(b)
    BY <1>4 DEF Front, Ahead, Finding, Busy
  <2>3. \A c : ~ \E o \in Runs : Holds(o, c)
    BY <1>4 DEF Holds, Busy
  <2>4. Visited = Cids
    BY <1>1, <2>1, <2>2, <2>3, AllVisited DEF Held
  <2>5. Visited' = Cids
    BY <2>4, VisitedGrows DEF Visited
  <2>6. QED
    BY <2>5 DEF ScanSees
<1>5. QED
  BY <1>3, <1>4

LEMMA ScanStep ==
  ASSUME TypeOK, ListInv, FindInv, AllHeld, WorkingFlagTruthful, ScanSees, Reachable, [Next]_vars
  PROVE  ScanSees'
<1> DEFINE Sees(r) == Peer(r) \in scan /\ (Busy(r) \/ pc[r] = "finish")
<1> SUFFICES ASSUME ~ctxDone', mpc' = "scan"
             PROVE  Visited' = Cids \/ \E r \in Runs : Sees(r)'
  BY DEF ScanSees
<1>1. CASE \E r \in Runs : Finish(r)
  <2>1. ~ctxDone
    BY <1>1 DEF Finish, mainVars
  <2>2. QED
    BY <1>1, <2>1, FinishSees DEF ScanSees
<1>2. ASSUME ~ \E r \in Runs : Finish(r) PROVE mpc = "scan" /\ ~ctxDone
  <2>1. CASE MainNext
    BY <2>1 DEF MainNext, Start, RecvKnownProvider, RecvNewProvider, Register, ScanWorker, AllEnds,
       CancelCtx, CtxReturn, mainVars
  <2>2. CASE \E r \in Runs : RunNext(r)
    BY <1>2, <2>2, RunFrame
  <2>3. CASE UNCHANGED vars
    BY <2>3 DEF vars, mainVars
  <2>4. QED
    BY <2>1, <2>2, <2>3 DEF Next
<1>3. ASSUME ~ \E r \in Runs : Finish(r), NEW w \in Runs, Sees(w) PROVE Sees(w)'
  <2>1. pc[w] \notin {"idle", "start"} /\ Peer(w) \in Peers
    BY <1>3, PeerType DEF Busy
  <2>2. ASSUME NEW p \in Peers, ScanWorker(p) PROVE Sees(w)'
    <3>1. ~working[p] /\ scan' = scan \ {p} /\ pc' = pc
      BY <2>2 DEF ScanWorker, SeenWorking, runVars
    <3>2. Peer(w) # p
      BY <2>1, <3>1 DEF WorkingFlagTruthful
    <3>3. QED
      BY <1>3, <3>1, <3>2 DEF Busy
  <2>3. CASE MainNext /\ \A p \in Peers : ~ScanWorker(p)
    <3>1. scan' = scan
      BY <1>2, <1>3, <2>3 DEF MainNext, Start, RecvKnownProvider, RecvNewProvider, Register, AllEnds,
         CancelCtx, CtxReturn, mainVars
    <3>2. pc'[w] = pc[w]
      BY <2>1, <2>3, MainFrame
    <3>3. QED
      BY <1>3, <3>1, <3>2 DEF Busy
  <2>4. ASSUME NEW r \in Runs, RunNext(r) PROVE Sees(w)'
    <3>1. scan' = scan
      BY <1>3, <2>4, RunFrame
    <3>2. CASE r # w
      <4>1. pc'[w] = pc[w]
        BY <2>4, <3>2, RunFrame DEF At
      <4>2. QED
        BY <1>3, <3>1, <4>1 DEF Busy
    <3>3. CASE r = w
      <4>1. mpc # "done" /\ ~ctxDone
        BY <1>2, <1>3
      <4>2. CASE SqueezeEmpty(w) \/ SqueezePending(w)
        <5>1. pc'[w] \in {"squeeze2", "finish", "pend"}
          BY <4>2 DEF SqueezeEmpty, SqueezePending, TypeOK
        <5>2. QED
          BY <1>3, <3>1, <5>1 DEF Busy
      <4>3. CASE pc[w] = "finish"
        BY <1>3, <2>4, <3>3, <4>3 DEF RunNext, RunLocal, RunStart, SqueezeEmpty, SqueezePending,
           BlkPending, Fill, Visit, FindLoad, FindStore, FindAppend, Inform, NextRound, CtxExit,
           CtxChecked, RunExit, Receive, RoundTimeout
      <4>4. CASE ~SqueezeEmpty(w) /\ ~SqueezePending(w) /\ Busy(w)
        <5>1. Busy(w)'
          BY <2>4, <3>3, <4>1, <4>4, StaysBusy
        <5>2. QED
          BY <1>3, <3>1, <5>1
      <4>5. QED
        BY <1>3, <4>2, <4>3, <4>4
    <3>4. QED
      BY <3>2, <3>3
  <2>5. CASE UNCHANGED vars
    BY <1>3, <2>5 DEF vars, mainVars, runVars, Busy
  <2>6. QED
    BY <2>2, <2>3, <2>4, <2>5 DEF Next
<1>4. ASSUME Visited = Cids PROVE Visited' = Cids
  BY <1>4, VisitedGrows DEF Visited
<1>5. QED
  BY <1>1, <1>2, <1>3, <1>4 DEF ScanSees

LEMMA NilStep ==
  ASSUME TypeOK, ScanSees, CompleteOnNil, [Next]_vars
  PROVE  CompleteOnNil'
<1> SUFFICES ASSUME mpc' = "done", ~ctxDone' PROVE Visited' = Cids
  BY DEF CompleteOnNil
<1>1. ASSUME Visited = Cids PROVE Visited' = Cids
  BY <1>1, VisitedGrows DEF Visited
<1>2. CASE AllEnds
  <2>1. mpc = "scan" /\ scan = {} /\ ~ctxDone
    BY <1>2 DEF AllEnds
  <2>2. QED
    BY <1>1, <2>1 DEF ScanSees
<1>3. ASSUME ~AllEnds PROVE mpc = "done" /\ ~ctxDone
  <2>1. CASE MainNext
    BY <1>3, <2>1 DEF MainNext, Start, RecvKnownProvider, RecvNewProvider, Register, ScanWorker,
       CancelCtx, CtxReturn, mainVars
  <2>2. CASE \E r \in Runs : RunNext(r)
    BY <2>2, RunFrame DEF Finish
  <2>3. CASE UNCHANGED vars
    BY <2>3 DEF vars, mainVars
  <2>4. QED
    BY <2>1, <2>2, <2>3 DEF Next
<1>4. QED
  BY <1>1, <1>2, <1>3 DEF CompleteOnNil

LEMMA CompleteInit == ASSUME Init PROVE CompleteInv
<1> USE DEF Init
<1>1. Tracked = {} /\ Visited = {}
  BY DEF Tracked, Visited
<1>2. \A r \in Runs : pc[r] = "idle" /\ Peer(r) \in Peers
  BY PeerType
<1>3. ListInv
  BY <1>1, <1>2 DEF ListInv, WorkersKnown, NoEmptyBatch, AsksOwn, DistancesTracked, RootsTracked
<1>4. FindInv
  BY <1>1, <1>2 DEF FindInv, PrefixTracked, LinksFound, FindersInformed, Deep
<1>5. EndInv
  BY <1>1, <1>2 DEF EndInv, AllHeld, NobodyBegan, ScanSees, WorkingFlagTruthful, CompleteOnNil
<1>6. QED
  BY <1>3, <1>4, <1>5 DEF CompleteInv

\* Why Dispatch3 returned.
WhyReturned ==
    /\ mpc = "cancelled" => ctxDone
    /\ mpc = "endofdag" => RootChilds = <<>>

LEMMA WhyStep ==
  ASSUME TypeOK, WhyReturned, [Next]_vars
  PROVE  WhyReturned'
<1>1. CASE MainNext
  BY <1>1 DEF WhyReturned, MainNext, Start, RecvKnownProvider, RecvNewProvider, Register, ScanWorker,
     AllEnds, CancelCtx, CtxReturn, mainVars
<1>2. CASE \E r \in Runs : RunNext(r)
  BY <1>2, RunFrame DEF Finish, WhyReturned
<1>3. CASE UNCHANGED vars
  BY <1>3 DEF vars, mainVars, WhyReturned
<1>4. QED
  BY <1>1, <1>2, <1>3 DEF Next

FetchInv == TypeOK /\ TableInv /\ VisitInv /\ RoundInv /\ CompleteInv /\ WhyReturned

LEMMA FetchInvStep ==
  ASSUME Quiet, Reachable, FetchInv, NoEmptyBatch', [Next]_vars
  PROVE  FetchInv'
<1>1. TypeOK' /\ TableInv' /\ VisitInv' /\ RoundInv' /\ WhyReturned'
  BY TypeStep, TableStep, VisitStep, RoundStep, WhyStep DEF FetchInv
<1>2. ListInv'
  BY ListStep DEF FetchInv, CompleteInv
<1>3. FindInv'
  BY FindStep DEF FetchInv, CompleteInv
<1>4. AllHeld'
  BY <1>3, AllHeldStep DEF FetchInv, CompleteInv, EndInv, Quiet
<1>5. ScanSees' /\ CompleteOnNil'
  BY ScanStep, NilStep DEF FetchInv, CompleteInv, EndInv
<1>6. WorkingFlagTruthful'
  BY WorkingStep DEF FetchInv, CompleteInv, EndInv, Quiet
<1>7. QED
  BY <1>1, <1>2, <1>3, <1>4, <1>5, <1>6 DEF FetchInv, CompleteInv, EndInv

LEMMA FetchInvariant == ASSUME Quiet, Reachable PROVE Spec /\ []NoEmptyBatch => []FetchInv
<1>1. Init => FetchInv
  BY TypeInit, TableInit, VisitInit, RoundInit, CompleteInit DEF FetchInv, WhyReturned, Init
<1>2. FetchInv /\ NoEmptyBatch' /\ [Next]_vars => FetchInv'
  BY FetchInvStep
<1>3. QED
  BY <1>1, <1>2, PTL DEF Spec

-----------------------------------------------------------------------------
(* The theorems *)

\* With one goroutine per peer the flag that the finish handler reads and that keeps a
\* provider from being started again says whether its goroutine runs.
THEOREM FlagSaysWhoRuns == ASSUME MaxRuns = 1 PROVE Spec => []WorkingFlagTruthful
<1>1. Init => WorkingFlagTruthful
  BY DEF Init, WorkingFlagTruthful
<1>2. TypeOK /\ WorkingFlagTruthful /\ [Next]_vars => WorkingFlagTruthful'
  BY WorkingStep
<1>3. QED
  BY <1>1, <1>2, TypeCorrect, PTL DEF Spec

\* The next three theorems are about the behaviours without the three faults of the code
\* that make them false: a batch halved to 0 (adjust.go:289), a second goroutine of a peer
\* at a time (dispatcher.go:291), and a block with two places in the DAG
\* (dispatcher.go:77).  All blocks are below the root (Reachable).

\* No found block is forgotten: squeeze, blkFind and the finish of a worker leave each of
\* them with a goroutine that has not ended.
THEOREM NoBlockForgotten ==
  ASSUME Quiet, Reachable
  PROVE  Spec /\ []NoEmptyBatch => []SomebodyResponsible
<1>1. ASSUME FetchInv, ~ctxDone, NEW c \in Tracked \ Visited
      PROVE  \/ \E r \in Runs : /\ Busy(r)
                                /\ \/ c \in sequence[Peer(r)]
                                   \/ \E b \in blk[r] : c \in LinksOf(Childs[b])
             \/ /\ \A p \in worker \cup newpeer : c \in sequence[p]
                /\ \A r \in Runs : pc[r] \in {"idle", "start"}
  <2> USE DEF FetchInv, CompleteInv, EndInv
  <2>1. mpc # "done"
    BY <1>1 DEF CompleteOnNil, Tracked
  <2>2. CASE NobodyBegan
    BY <1>1, <2>2 DEF NobodyBegan
  <2>3. ASSUME NEW r \in Runs, Holds(r, c)
        PROVE  Busy(r) /\ c \in sequence[Peer(r)]
    BY <1>1, <2>3 DEF Holds, Busy, ListInv, AsksOwn
  <2>4. ASSUME NEW b \in Cids, c \in Links(b), Front(b)
        PROVE  \E r \in Runs : Busy(r) /\ b \in blk[r] /\ c \in LinksOf(Childs[b])
    BY <2>4 DEF Front, Ahead, Finding, Busy, Links
  <2>5. QED
    BY <1>1, <2>1, <2>2, <2>3, <2>4 DEF AllHeld, Held
<1>2. FetchInv => SomebodyResponsible
  BY <1>1 DEF SomebodyResponsible
<1>3. QED
  BY <1>2, FetchInvariant, PTL

\* The file is complete when Dispatch3 returns nil without having been cancelled.
THEOREM NilMeansComplete ==
  ASSUME Quiet, Reachable
  PROVE  Spec /\ []NoEmptyBatch => []CompleteOnNil
<1>1. FetchInv => CompleteOnNil
  BY DEF FetchInv, CompleteInv, EndInv
<1>2. QED
  BY <1>1, FetchInvariant, PTL

\* The status of the fetch as its caller sees it.
Status == IF mpc \notin Returned THEN "running" ELSE IF ctxDone THEN "cancelled" ELSE "done"

\* A DAG whose root has no links has no other blocks.
LEMMA NoRoots ==
  ASSUME Reachable, RootChilds = <<>>
  PROVE  Cids = {}
<1>1. Roots = {}
  BY DEF Roots, LinksOf
<1>2. PICK depth \in [Cids -> Nat] : \A c \in Cids : \E b \in Cids : depth[b] < depth[c]
  BY <1>1 DEF Reachable
<1>3. ASSUME Cids # {} PROVE FALSE
  <2>1. PICK c \in Cids : \A d \in Cids : depth[c] <= depth[d]
    BY <1>3, Least
  <2>2. PICK b \in Cids : depth[b] < depth[c]
    BY <1>2
  <2>3. QED
    BY <2>1, <2>2
<1>4. QED
  BY <1>3

LEMMA MainStatus ==
  ASSUME Reachable, FetchInv, FetchInv', MainNext
  PROVE  Fetch!Next \/ UNCHANGED <<Visited, Status>>
<1> USE DEF Status, Returned
<1>1. Visited' = Visited
  BY MainFrame DEF FetchInv, Visited
<1>2. CASE AllEnds
  <2>1. Status = "running" /\ mpc' = "done" /\ ctxDone' = ctxDone
    BY <1>2 DEF AllEnds
  <2>2. ~ctxDone => Visited = Cids
    BY <1>1, <2>1 DEF FetchInv, CompleteInv, EndInv, CompleteOnNil
  <2>3. QED
    BY <1>1, <2>1, <2>2 DEF Fetch!Next, Fetch!Complete, Fetch!GiveUp
<1>3. CASE Start
  <2>1. Status = "running" /\ ctxDone' = ctxDone /\ mpc' \in {"endofdag", "select"}
    BY <1>3 DEF Start
  <2>2. ASSUME mpc' = "endofdag" PROVE Visited' = Cids
    <3>1. RootChilds = <<>>
      BY <1>3, <2>2 DEF Start
    <3>2. QED
      BY <3>1, NoRoots DEF Visited
  <2>3. QED
    BY <1>1, <2>1, <2>2 DEF Fetch!Next, Fetch!Complete, Fetch!GiveUp
<1>4. CASE CtxReturn
  BY <1>1, <1>4 DEF CtxReturn, Fetch!Next, Fetch!GiveUp
<1>5. CASE CancelCtx \/ \E p \in Peers : RecvKnownProvider(p) \/ RecvNewProvider(p) \/ Register(p) \/ ScanWorker(p)
  BY <1>1, <1>5 DEF CancelCtx, RecvKnownProvider, RecvNewProvider, Register, ScanWorker, mainVars
<1>6. QED
  BY <1>2, <1>3, <1>4, <1>5 DEF MainNext

\* A worker visits a block whose parent was visited, while the caller waits or after it gave up.
LEMMA VisitStatus ==
  ASSUME Reachable, FetchInv, [Next]_vars, NEW r \in Runs, NEW b \in blk[r], Visit(r)!(b),
         Visited' = Visited \cup {b}, b \notin Visited
  PROVE  Fetch!Visit(b)
<1> USE DEF FetchInv
<1>1. b \in Cids /\ b \in Tracked
  BY DEF TypeOK, FindTypes, TableInv, LinksTracked
<1>2. b \in Fetch!Ready
  <2>1. CASE b \in Roots
    BY <2>1 DEF Fetch!Ready, Fetch!LinksOf, Roots, LinksOf
  <2>2. ASSUME NEW d \in Visited, b \in LinksOf(Childs[d]) PROVE b \in Fetch!Ready
    BY <2>2 DEF Fetch!Ready, Fetch!LinksOf, LinksOf
  <2>3. QED
    BY <1>1, <2>1, <2>2 DEF VisitInv, ParentFirst, Roots
<1>3. Status' = Status
  BY DEF Status, mainVars
<1>4. Status \in {"running", "cancelled"}
  <2>1. mpc = "done" /\ ~ctxDone => FALSE
    BY <1>1 DEF CompleteInv, EndInv, CompleteOnNil
  <2>2. mpc = "cancelled" => ctxDone
    BY DEF WhyReturned
  <2>3. mpc # "endofdag"
    BY <1>1, NoRoots DEF WhyReturned
  <2>4. QED
    BY <2>1, <2>2, <2>3 DEF Status, Returned
<1>5. QED
  BY <1>2, <1>3, <1>4 DEF Fetch!Visit, Status

\* Dispatch3 keeps the promise of BlockFetch: blocks are visited from the root downwards, and
\* it reports success only for a complete file.
THEOREM DispatcherImplementsFetch ==
  ASSUME Quiet, Reachable
  PROVE  Spec /\ []NoEmptyBatch => FetchSpec
<1>1. Init => Fetch!Init
  BY DEF Init, Fetch!Init, Returned, Visited
<1>2. ASSUME FetchInv, FetchInv', [Next]_vars
      PROVE  Fetch!Next \/ UNCHANGED <<Visited, Status>>
  <2>1. CASE MainNext
    BY <1>2, <2>1, MainStatus
  <2>2. ASSUME NEW r \in Runs, RunNext(r)
        PROVE  Fetch!Next \/ UNCHANGED <<Visited, Status>>
    <3>1. Status' = Status
      BY <2>2, <1>2, RunFrame DEF FetchInv, Finish, Status, Returned
    <3>2. CASE Visited' = Visited
      BY <3>1, <3>2
    <3>3. ASSUME NEW o \in Runs, NEW b \in blk[o], Visit(o)!(b), Visited' = Visited \cup {b},
                 b \notin Visited
          PROVE  Fetch!Next
      <4>1. Fetch!Visit(b)
        BY <1>2, <3>3, VisitStatus
      <4>2. b \in Cids
        BY <1>2 DEF FetchInv, TypeOK, FindTypes
      <4>3. QED
        BY <4>1, <4>2 DEF Fetch!Next
    <3>4. \/ Visited' = Visited
          \/ \E o \in Runs : \E b \in blk[o] : Visit(o)!(b) /\ Visited' = Visited \cup {b}
      BY <1>2, <2>2, VisitedStep DEF FetchInv
    <3>5. QED
      BY <3>2, <3>3, <3>4
  <2>3. CASE UNCHANGED vars
    <3>1. UNCHANGED <<dispVars, mainVars>>
      BY <2>3 DEF vars
    <3>2. Visited' = Visited
      BY <3>1 DEF dispVars, Visited
    <3>3. Status' = Status
      BY <3>1 DEF mainVars, Status
    <3>4. QED
      BY <3>2, <3>3
  <2>4. QED
    BY <1>2, <2>1, <2>2, <2>3 DEF Next
<1>3. FetchInv /\ FetchInv' /\ [Next]_vars => [Fetch!Next]_<<Visited, Status>>
  BY <1>2
<1>4. QED
  BY <1>1, <1>3, FetchInvariant, PTL DEF Spec, FetchSpec, Fetch!Spec, Status
=============================================================================
