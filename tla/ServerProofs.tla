---------------------------- MODULE ServerProofs ----------------------------
(***************************************************************************)
(* The two servers whose handlers write shared files.                      *)
(*                                                                         *)
(* BlockBroadcast: a front end keeps its back ends to one request at a     *)
(* time, commits a block after all of them answered, and a back end that   *)
(* serves one connection at a time answers for what it was asked.          *)
(*                                                                         *)
(* HttpFiles: a file that its creator stored is whole, one that nobody     *)
(* else wrote is its creator's, and is downloaded so.                      *)
(***************************************************************************)
EXTENDS BlockBroadcast, HttpFiles, TLAPS, SequenceTheorems

Running == {"next", "add", "get"}

FrontTypes ==
    /\ pc \in [Sessions -> {"none", "next", "add", "get", "done", "dead"}]
    /\ blk \in [Sessions -> Nat]
    /\ unsent \in [Sessions -> SUBSET Others]
    /\ pending \in [Sessions -> SUBSET Others]
    /\ \A s \in Sessions : unsent[s] \subseteq pending[s]
    /\ committed \subseteq Sessions \X Nat

IsHandler(x) == x = [step |-> x.step, size |-> x.size, got |-> x.got, alone |-> x.alone]

\* A connection is of a block of a session, and of a back end.
Connections ==
    /\ h = [c \in DOMAIN h |-> h[c]]
    /\ \A c \in DOMAIN h : IsHandler(h[c])
    /\ DOMAIN h \subseteq (Sessions \X Nat) \X Backends

\* What a session that runs waits for is all it has open.
OpenIsAwaited ==
    \A c \in DOMAIN h :
        LET s == c[1][1] IN
        /\ pc[s] # "none"
        /\ pc[s] \in Running => c[1] = Block(s)
        /\ pc[s] # "next"
        /\ pc[s] = "add" => Peer(c) = first
        /\ pc[s] = "get" => Peer(c) \in pending[s] \ unsent[s]

OverlapInv == FrontTypes /\ Connections /\ OpenIsAwaited /\ OverlapNeedsRestart

\* A handler that ended has answered, and a peer wg does not wait for has too.
FinishedAnswered == \A c \in DOMAIN h : h[c].step \in {"ok", "error"} => <<Peer(c), c[1]>> \in answered

PeersAnswered ==
    \A s \in Sessions : pc[s] = "get" =>
        \A p \in Others \ pending[s] : <<p, Block(s)>> \in answered

CommitInv == FinishedAnswered /\ PeersAnswered /\ CommitAfterAll

-----------------------------------------------------------------------------
(* What the steps do to the connections *)

\* The handlers of new connections.
LEMMA NewHandlers ==
    ASSUME NEW step, NEW v
    PROVE  /\ IsHandler([Handler(step) EXCEPT !.size = v]) /\ [Handler(step) EXCEPT !.size = v].step = step
           /\ IsHandler([Handler(step) EXCEPT !.got = v]) /\ [Handler(step) EXCEPT !.got = v].step = step
<1>1. IsHandler(Handler(step)) /\ Handler(step).step = step
  BY Zenon DEF IsHandler, Handler
<1>2. ASSUME NEW x, IsHandler(x)
      PROVE  IsHandler([x EXCEPT !.size = v]) /\ [x EXCEPT !.size = v].step = x.step
  BY <1>2 DEF IsHandler
<1>3. ASSUME NEW x, IsHandler(x)
      PROVE  IsHandler([x EXCEPT !.got = v]) /\ [x EXCEPT !.got = v].step = x.step
  BY <1>3 DEF IsHandler
<1> QED
  BY <1>1, <1>2, <1>3

\* A new connection has the step of its handler; the others keep theirs.
LEMMA Accepted ==
    ASSUME Connections, NEW c \in (Sessions \X Nat) \X Backends,
           NEW handler, IsHandler(handler), Accept(c, handler)
    PROVE  /\ Connections'
           /\ DOMAIN h' = DOMAIN h \cup {c}
           /\ h'[c].step = handler.step
           /\ \A d \in DOMAIN h \ {c} : h'[d].step = h[d].step
<1>1. PICK new, old : /\ h' = [d \in DOMAIN h \cup {c} |-> IF d = c THEN new ELSE old[d]]
                      /\ IsHandler(new) /\ new.step = handler.step
                      /\ \A d \in DOMAIN h : IsHandler(old[d]) /\ old[d].step = h[d].step
  <2> DEFINE alone == Serving(Peer(c)) = {}
             still(d) == h[d].alone /\ Peer(d) # Peer(c)
             new == [handler EXCEPT !.alone = alone]
             old == [d \in DOMAIN h |-> [h[d] EXCEPT !.alone = still(d)]]
  <2>1. h' = [d \in DOMAIN h \cup {c} |-> IF d = c THEN new ELSE old[d]]
    BY Zenon DEF Accept
  <2> HIDE DEF alone, still
  <2>2. IsHandler(new) /\ new.step = handler.step
    BY DEF IsHandler
  <2>3. \A d \in DOMAIN h : IsHandler(old[d]) /\ old[d].step = h[d].step
    BY DEF IsHandler, Connections
  <2> HIDE DEF new, old
  <2> QED
    BY <2>1, <2>2, <2>3
<1> QED
  BY <1>1 DEF Connections

\* Closed connections are gone; the others stay as they are.
LEMMA Dropped ==
    ASSUME Connections, NEW cs, h' = Without(cs)
    PROVE  /\ Connections'
           /\ DOMAIN h' = DOMAIN h \ cs
           /\ \A d \in DOMAIN h' : h'[d] = h[d]
  BY DEF Without, Connections

\* An answer ends the handler, or drops it with its connection.
LEMMA Answering ==
    ASSUME Connections, NEW c \in DOMAIN h, NEW step, Answer(c, step)
    PROVE  /\ Connections'
           /\ DOMAIN h' \subseteq DOMAIN h
           /\ answered \subseteq answered'
           /\ FinishedAnswered => FinishedAnswered'
<1>1. CASE Heard(c)
  <2>1. h' = [h EXCEPT ![c].step = step] /\ answered' = answered \cup {<<Peer(c), c[1]>>}
    BY <1>1 DEF Answer, To
  <2>2. /\ Connections' /\ DOMAIN h' = DOMAIN h
        /\ \A d \in DOMAIN h \ {c} : h'[d] = h[d]
    BY <2>1 DEF Connections, IsHandler
  <2> QED
    BY <2>1, <2>2 DEF FinishedAnswered, Peer
<1>2. CASE ~Heard(c)
  <2>1. h' = Without({c}) /\ answered' = answered
    BY <1>2 DEF Answer
  <2>2. Connections' /\ DOMAIN h' \subseteq DOMAIN h /\ \A d \in DOMAIN h' : h'[d] = h[d]
    BY <2>1, Dropped
  <2>3. FinishedAnswered => FinishedAnswered'
    BY <2>1, <2>2 DEF FinishedAnswered, Peer
  <2> QED
    BY <2>1, <2>2, <2>3
<1> QED
  BY <1>1, <1>2

\* A handler that goes on does not end.
LEMMA GoingOn ==
    ASSUME Connections, NEW c \in DOMAIN h, UNCHANGED answered,
           NEW x, IsHandler(x), x.step \notin {"ok", "error"}, h' = [h EXCEPT ![c] = x]
    PROVE  /\ Connections'
           /\ DOMAIN h' \subseteq DOMAIN h
           /\ answered \subseteq answered'
           /\ FinishedAnswered => FinishedAnswered'
  BY DEF Connections, FinishedAnswered, Peer

\* Whatever a handler does opens no connection, and if it ends it has answered.
LEMMA Handling ==
    ASSUME Connections, NEW c \in DOMAIN h, handleRequest(c) \/ HandlerError(c)
    PROVE  /\ Connections'
           /\ DOMAIN h' \subseteq DOMAIN h
           /\ answered \subseteq answered'
           /\ FinishedAnswered => FinishedAnswered'
           /\ UNCHANGED feVars
<1>0. IsHandler(h[c]) /\ h = [d \in DOMAIN h |-> h[d]]
  BY DEF Connections
<1> DEFINE At(step) == [h[c] EXCEPT !.step = step]
<1>1. CASE CreateTmp(c) /\ UNCHANGED <<feVars, crashes>>
  <2>1. IsHandler(At("write")) /\ At("write").step = "write" /\ h' = [h EXCEPT ![c] = At("write")]
    BY <1>0, <1>1 DEF CreateTmp, To, IsHandler
  <2> HIDE DEF At
  <2> QED
    BY <1>1, <2>1, GoingOn DEF CreateTmp
<1>2. CASE WriteTmp(c) /\ UNCHANGED <<feVars, crashes>>
  <2>1. IsHandler(At("upload")) /\ At("upload").step = "upload" /\ h' = [h EXCEPT ![c] = At("upload")]
    BY <1>0, <1>2 DEF WriteTmp, To, IsHandler
  <2> HIDE DEF At
  <2> QED
    BY <1>2, <2>1, GoingOn DEF WriteTmp
<1>3. CASE ReadTmp(c) /\ UNCHANGED <<feVars, crashes>>
  <2>1. CASE Answer(c, "ok")
    BY <1>3, <2>1, Answering
  <2>2. CASE ~Answer(c, "ok")
    <3> DEFINE got == Append(h[c].got, tmp_file[Len(h[c].got) + 1])
               x == [h[c] EXCEPT !.got = got]
    <3>1. h' = [h EXCEPT ![c].got = got] /\ UNCHANGED answered
      BY <1>3, <2>2 DEF ReadTmp
    <3> HIDE DEF got
    <3>2. IsHandler(x) /\ x.step = h[c].step /\ h' = [h EXCEPT ![c] = x]
      BY <1>0, <3>1 DEF IsHandler
    <3>3. h[c].step = "upload"
      BY <1>3 DEF ReadTmp
    <3> HIDE DEF x
    <3> QED
      BY <1>3, <3>1, <3>2, <3>3, GoingOn
  <2> QED
    BY <2>1, <2>2
<1>4. CASE CreateOutput(c) /\ UNCHANGED <<feVars, crashes>>
  <2>1. IsHandler(At("fetch")) /\ At("fetch").step = "fetch" /\ h' = [h EXCEPT ![c] = At("fetch")]
    BY <1>0, <1>4 DEF CreateOutput, To, IsHandler
  <2> HIDE DEF At
  <2> QED
    BY <1>4, <2>1, GoingOn DEF CreateOutput
<1>5. CASE FetchPiece(c) /\ UNCHANGED <<feVars, crashes>>
  <2>1. CASE Answer(c, "ok")
    BY <1>5, <2>1, Answering
  <2>2. CASE ~Answer(c, "ok")
    <3> DEFINE k == h[c].size + 1
               x == [h[c] EXCEPT !.size = k]
    <3>1. h' = [h EXCEPT ![c].size = k] /\ UNCHANGED answered /\ h[c].step = "fetch"
      BY <1>5, <2>2 DEF FetchPiece
    <3> HIDE DEF k
    <3>2. IsHandler(x) /\ x.step = h[c].step /\ h' = [h EXCEPT ![c] = x]
      BY <1>0, <3>1 DEF IsHandler
    <3> HIDE DEF x
    <3> QED
      BY <1>5, <3>1, <3>2, GoingOn
  <2> QED
    BY <2>1, <2>2
<1>6. CASE HandlerError(c)
  BY <1>6, Answering DEF HandlerError, HandlerFails
<1> QED
  BY <1>1, <1>2, <1>3, <1>4, <1>5, <1>6 DEF handleRequest

-----------------------------------------------------------------------------
(* One request at a time at each back end *)

\* Before the first session nothing is open.
LEMMA OverlapInit == Init => OverlapInv
<1> SUFFICES ASSUME Init PROVE OverlapInv
  OBVIOUS
<1>1. DOMAIN h = {} /\ h = [c \in DOMAIN h |-> h[c]]
  BY DEF Init
<1>2. FrontTypes
  BY DEF Init, FrontTypes
<1> QED
  BY <1>1, <1>2 DEF OverlapInv, Connections, OpenIsAwaited, OverlapNeedsRestart

\* A session that ends leaves only connections that are open already.
LEMMA Leaving ==
    ASSUME OverlapInv, NEW s \in Sessions, NEW how \in {"done", "dead"}, Leave(s, how)
    PROVE  OverlapInv'
<1> USE DEF OverlapInv, Leave
<1>1. Connections' /\ DOMAIN h' \subseteq DOMAIN h
  BY Dropped
<1>2. FrontTypes'
  BY DEF FrontTypes
<1>3. \A c \in DOMAIN h : c[1][1] \in Sessions
  BY DEF Connections
<1>4. OpenIsAwaited'
  BY <1>1, <1>3 DEF OpenIsAwaited, FrontTypes, Running, Block, Peer
<1>5. OverlapNeedsRestart'
  BY <1>1 DEF OverlapNeedsRestart, Peer
<1> QED
  BY <1>1, <1>2, <1>4, <1>5

\* Every step keeps the invariant.
LEMMA OverlapStep == OverlapInv /\ [Next]_vars => OverlapInv'
<1> SUFFICES ASSUME OverlapInv, [Next]_vars PROVE OverlapInv'
  OBVIOUS
<1> USE DEF OverlapInv
<1>0. \A c \in DOMAIN h : c[1][1] \in Sessions
  BY DEF Connections
<1>1. CASE UNCHANGED vars
  BY <1>1 DEF vars, feVars, beVars, FrontTypes, Connections, OpenIsAwaited, OverlapNeedsRestart,
              Block, Peer
<1>2. ASSUME NEW s \in Sessions, FrontEnd(s) PROVE OverlapInv'
  <2>0. s \in Nat
    BY BroadcastAssumption
  <2>1. CASE Start(s)
    <3>1. CASE Leave(s, "dead")
      BY <3>1, Leaving
    <3>2. CASE pc' = [pc EXCEPT ![s] = "next"] /\ UNCHANGED <<blk, cid, unsent, pending, committed, beVars>>
      <4>1. \A c \in DOMAIN h : c[1][1] # s
        BY <2>1 DEF Start, OpenIsAwaited
      <4> QED
        BY <1>0, <3>2, <4>1 DEF beVars, FrontTypes, Connections, OpenIsAwaited, OverlapNeedsRestart,
                         Running, Block, Peer
    <3> QED
      BY <2>1, <3>1, <3>2 DEF Start
  <2>2. CASE SendAdd(s)
    <3> DEFINE c == AddConn(s)
    <3>1. c \in (Sessions \X Nat) \X Backends /\ c[1] = Block(s) /\ c[1][1] = s /\ Peer(c) = first
      BY DEF AddConn, Block, Backends, FrontTypes, Peer
    <3>2. Connections' /\ DOMAIN h' = DOMAIN h \cup {c}
      <4>1. PICK size \in Sizes : Accept(c, [Handler("add") EXCEPT !.size = size])
        BY <2>2 DEF SendAdd
      <4>2. IsHandler([Handler("add") EXCEPT !.size = size])
        BY NewHandlers
      <4> HIDE DEF c
      <4> QED
        BY <3>1, <4>1, <4>2, Accepted
    <3> HIDE DEF c
    <3>3. \A d \in DOMAIN h : d[1][1] # s
      BY <2>2 DEF SendAdd, OpenIsAwaited
    <3>4. OverlapNeedsRestart'
      BY <3>1, <3>2, <3>3 DEF OverlapNeedsRestart, Peer
    <3>5. FrontTypes'
      BY <2>2 DEF SendAdd, FrontTypes
    <3>6. OpenIsAwaited'
      BY <1>0, <2>2, <3>1, <3>2, <3>3 DEF SendAdd, OpenIsAwaited, FrontTypes, Running, Block, Peer
    <3> QED
      BY <3>2, <3>4, <3>5, <3>6
  <2>3. CASE AddAnswered(s)
    <3> DEFINE c == AddConn(s)
    <3>1. h' = Without({c}) /\ c[1] = Block(s) /\ Peer(c) = first /\ pc[s] = "add"
      BY <2>3 DEF AddAnswered, AddConn, Peer
    <3> HIDE DEF c
    <3>2. Connections' /\ DOMAIN h' = DOMAIN h \ {c}
      BY <3>1, Dropped
    <3>3. \A d \in DOMAIN h' : d[1][1] # s
      <4> SUFFICES ASSUME NEW d \in DOMAIN h', d[1][1] = s PROVE FALSE
        OBVIOUS
      <4>1. d \in DOMAIN h /\ d # c
        BY <3>2
      <4>2. Peer(d) = first /\ d[1] = Block(s)
        BY <3>1, <4>1 DEF OpenIsAwaited, Running
      <4>3. d = c
        BY <3>1, <4>1, <4>2 DEF Connections, Peer, c, AddConn
      <4> QED
        BY <4>1, <4>3
    <3>4. OverlapNeedsRestart'
      BY <3>2 DEF OverlapNeedsRestart, Peer
    <3>5. FrontTypes'
      BY <2>3 DEF AddAnswered, FrontTypes
    <3>6. OpenIsAwaited'
      BY <1>0, <2>3, <3>2, <3>3 DEF AddAnswered, OpenIsAwaited, FrontTypes, Running, Block, Peer
    <3> QED
      BY <3>2, <3>4, <3>5, <3>6
  <2>4. CASE Commit(s)
    <3>1. \A c \in DOMAIN h : c[1][1] # s
      BY <2>4 DEF Commit, OpenIsAwaited
    <3>2. FrontTypes'
      BY <2>0, <2>4 DEF Commit, FrontTypes, Block
    <3> QED
      BY <1>0, <2>4, <3>1, <3>2 DEF Commit, beVars, FrontTypes, Connections, OpenIsAwaited,
                             OverlapNeedsRestart, Running, Block, Peer
  <2>5. CASE End(s)
    BY <2>5, Leaving DEF End
  <2>6. CASE ConnReset(s)
    BY <2>6, Leaving DEF ConnReset
  <2>7. ASSUME NEW p \in Others, SendGet(s, p) PROVE OverlapInv'
    <3> DEFINE c == GetConn(s, p)
    <3>1. c \in (Sessions \X Nat) \X Backends /\ c[1] = Block(s) /\ c[1][1] = s /\ Peer(c) = p
      BY DEF GetConn, Block, Backends, FrontTypes, Peer
    <3>2. Connections' /\ DOMAIN h' = DOMAIN h \cup {c}
      <4>1. Accept(c, [Handler("get") EXCEPT !.got = cid[s]])
        BY <2>7 DEF SendGet
      <4>2. IsHandler([Handler("get") EXCEPT !.got = cid[s]])
        BY NewHandlers
      <4> HIDE DEF c
      <4> QED
        BY <3>1, <4>1, <4>2, Accepted
    <3> HIDE DEF c
    <3>3. \A d \in DOMAIN h : Peer(d) = p => d[1][1] # s
      BY <2>7 DEF SendGet, OpenIsAwaited
    <3>4. OverlapNeedsRestart'
      BY <3>1, <3>2, <3>3 DEF OverlapNeedsRestart, Peer
    <3>5. FrontTypes'
      BY <2>7 DEF SendGet, FrontTypes
    <3>6. p \in pending'[s] \ unsent'[s]
      BY <2>7 DEF SendGet, FrontTypes
    <3>7. OpenIsAwaited'
      BY <1>0, <2>7, <3>1, <3>2, <3>3, <3>6 DEF SendGet, OpenIsAwaited, FrontTypes, Running, Block, Peer
    <3> QED
      BY <3>2, <3>4, <3>5, <3>7
  <2>8. ASSUME NEW p \in Others, GetAnswered(s, p) PROVE OverlapInv'
    <3> DEFINE c == GetConn(s, p)
    <3>1. h' = Without({c}) /\ c[1] = Block(s) /\ Peer(c) = p /\ pc[s] = "get"
      BY <2>8 DEF GetAnswered, GetConn, Peer
    <3> HIDE DEF c
    <3>2. Connections' /\ DOMAIN h' = DOMAIN h \ {c}
      BY <3>1, Dropped
    <3>3. \A d \in DOMAIN h' : d[1][1] = s => Peer(d) # p
      <4> SUFFICES ASSUME NEW d \in DOMAIN h', d[1][1] = s, Peer(d) = p PROVE FALSE
        OBVIOUS
      <4>1. d \in DOMAIN h /\ d # c
        BY <3>2
      <4>2. d[1] = Block(s)
        BY <3>1, <4>1 DEF OpenIsAwaited, Running
      <4>3. d = c
        BY <3>1, <4>1, <4>2 DEF Connections, Peer, c, GetConn
      <4> QED
        BY <4>1, <4>3
    <3>4. OverlapNeedsRestart'
      BY <3>2 DEF OverlapNeedsRestart, Peer
    <3>5. FrontTypes'
      BY <2>8 DEF GetAnswered, FrontTypes
    <3>6. OpenIsAwaited'
      BY <1>0, <2>8, <3>2, <3>3 DEF GetAnswered, OpenIsAwaited, FrontTypes, Running, Block, Peer
    <3> QED
      BY <3>2, <3>4, <3>5, <3>6
  <2> QED
    BY <1>2, <2>1, <2>2, <2>3, <2>4, <2>5, <2>6, <2>7, <2>8 DEF FrontEnd
<1>3. ASSUME NEW s \in Sessions, Breaks(s) PROVE OverlapInv'
  BY <1>3, Leaving DEF Breaks
<1>4. ASSUME NEW c \in DOMAIN h, handleRequest(c) \/ HandlerError(c) PROVE OverlapInv'
  <2>1. Connections' /\ DOMAIN h' \subseteq DOMAIN h /\ UNCHANGED feVars
    BY <1>4, Handling
  <2> QED
    BY <2>1 DEF feVars, FrontTypes, OpenIsAwaited, OverlapNeedsRestart, Block, Peer
<1>5. ASSUME NEW p \in Backends, Crash(p) PROVE OverlapInv'
  <2>1. Connections' /\ DOMAIN h' \subseteq DOMAIN h /\ UNCHANGED feVars
    BY <1>5, Dropped DEF Crash
  <2> QED
    BY <2>1 DEF feVars, FrontTypes, OpenIsAwaited, OverlapNeedsRestart, Block, Peer
<1> QED
  BY <1>1, <1>2, <1>3, <1>4, <1>5 DEF Next

\* Theorem: two handlers at a time at a back end are of two front ends, however many back
\* ends, blocks and restarts there are (blockchain_front_end.go:57-59, 180-182, 224-228).
THEOREM OverlapsAreOfRestarts == Spec => []OverlapNeedsRestart
<1>1. OverlapInv => OverlapNeedsRestart
  BY DEF OverlapInv
<1> QED
  BY <1>1, OverlapInit, OverlapStep, PTL DEF Spec

-----------------------------------------------------------------------------
(* A commit waits for every answer *)

LEMMA CommitInit == Init => CommitInv
  BY DEF Init, CommitInv, FinishedAnswered, PeersAnswered, CommitAfterAll

\* A session that ends takes its blocks and its answers with it.
LEMMA LeavingCommits ==
    ASSUME OverlapInv, CommitInv, NEW s \in Sessions, NEW how \in {"done", "dead"}, Leave(s, how)
    PROVE  CommitInv'
<1> USE DEF OverlapInv, CommitInv, Leave
<1>1. /\ DOMAIN h' \subseteq DOMAIN h
      /\ \A c \in DOMAIN h' : h'[c] = h[c] /\ (c[1][1] = s => ~Finished(c))
  <2> DEFINE cs == {c \in DOMAIN h : c[1][1] = s /\ Finished(c)}
  <2>1. h' = Without(cs)
    OBVIOUS
  <2> HIDE DEF cs
  <2>2. DOMAIN h' = DOMAIN h \ cs /\ \A c \in DOMAIN h' : h'[c] = h[c]
    BY <2>1, Dropped
  <2> QED
    BY <2>2 DEF cs
<1>2. FinishedAnswered'
  BY <1>1 DEF FinishedAnswered, Finished, Peer
<1>3. PeersAnswered'
  BY DEF PeersAnswered, FrontTypes, Block
<1>4. CommitAfterAll'
  BY DEF CommitAfterAll
<1> QED
  BY <1>2, <1>3, <1>4

\* Every step keeps the invariant.
LEMMA CommitStep == OverlapInv /\ CommitInv /\ [Next]_vars => CommitInv'
<1> SUFFICES ASSUME OverlapInv, CommitInv, [Next]_vars PROVE CommitInv'
  OBVIOUS
<1> USE DEF OverlapInv, CommitInv
<1>1. CASE UNCHANGED vars
  BY <1>1 DEF vars, feVars, beVars, FinishedAnswered, PeersAnswered, CommitAfterAll, Block, Peer
<1>2. ASSUME NEW s \in Sessions, FrontEnd(s) PROVE CommitInv'
  <2>1. CASE Start(s)
    <3>1. CASE Leave(s, "dead")
      BY <3>1, LeavingCommits
    <3>2. CASE pc' = [pc EXCEPT ![s] = "next"] /\ UNCHANGED <<blk, cid, unsent, pending, committed, beVars>>
      BY <3>2 DEF beVars, FinishedAnswered, PeersAnswered, CommitAfterAll, FrontTypes, Block, Peer
    <3> QED
      BY <2>1, <3>1, <3>2 DEF Start
  <2>2. CASE SendAdd(s)
    <3> DEFINE c == AddConn(s)
    <3>1. PICK size \in Sizes : Accept(c, [Handler("add") EXCEPT !.size = size])
      BY <2>2 DEF SendAdd
    <3>2. c \in (Sessions \X Nat) \X Backends
      BY DEF AddConn, Block, Backends, FrontTypes
    <3> HIDE DEF c
    <3>3. /\ DOMAIN h' = DOMAIN h \cup {c} /\ h'[c].step = "add"
          /\ \A d \in DOMAIN h \ {c} : h'[d].step = h[d].step
      <4>1. PICK x : IsHandler(x) /\ x.step = "add" /\ Accept(c, x)
        BY <3>1, NewHandlers
      <4> QED
        BY <3>2, <4>1, Accepted
    <3>4. FinishedAnswered'
      BY <2>2, <3>3 DEF SendAdd, FinishedAnswered, Peer
    <3> QED
      BY <2>2, <3>4 DEF SendAdd, PeersAnswered, CommitAfterAll, FrontTypes, Block
  <2>3. CASE AddAnswered(s)
    <3>1. FinishedAnswered'
      <4>1. h' = Without({AddConn(s)}) /\ UNCHANGED answered
        BY <2>3 DEF AddAnswered
      <4> QED
        BY <4>1, Dropped DEF FinishedAnswered, Peer
    <3>2. PeersAnswered'
      BY <2>3 DEF AddAnswered, PeersAnswered, FrontTypes, Block
    <3>3. CommitAfterAll'
      BY <2>3 DEF AddAnswered, CommitAfterAll
    <3> QED
      BY <3>1, <3>2, <3>3
  <2>4. CASE Commit(s)
    <3>1. \A p \in Others : <<p, Block(s)>> \in answered
      BY <2>4 DEF Commit, PeersAnswered
    <3> QED
      BY <2>4, <3>1 DEF Commit, beVars, FinishedAnswered, PeersAnswered, CommitAfterAll, FrontTypes,
                        Block, Peer
  <2>5. CASE End(s)
    BY <2>5, LeavingCommits DEF End
  <2>6. CASE ConnReset(s)
    BY <2>6, LeavingCommits DEF ConnReset
  <2>7. ASSUME NEW p \in Others, SendGet(s, p) PROVE CommitInv'
    <3> DEFINE c == GetConn(s, p)
    <3>1. Accept(c, [Handler("get") EXCEPT !.got = cid[s]])
      BY <2>7 DEF SendGet
    <3>2. c \in (Sessions \X Nat) \X Backends
      BY DEF GetConn, Block, Backends, FrontTypes
    <3> HIDE DEF c
    <3>3. /\ DOMAIN h' = DOMAIN h \cup {c} /\ h'[c].step = "get"
          /\ \A d \in DOMAIN h \ {c} : h'[d].step = h[d].step
      <4>1. PICK x : IsHandler(x) /\ x.step = "get" /\ Accept(c, x)
        BY <3>1, NewHandlers
      <4> QED
        BY <3>2, <4>1, Accepted
    <3>4. FinishedAnswered'
      BY <2>7, <3>3 DEF SendGet, FinishedAnswered, Peer
    <3> QED
      BY <2>7, <3>4 DEF SendGet, PeersAnswered, CommitAfterAll, FrontTypes, Block
  <2>8. ASSUME NEW p \in Others, GetAnswered(s, p) PROVE CommitInv'
    <3>1. <<p, Block(s)>> \in answered
      BY <2>8 DEF GetAnswered, Finished, FinishedAnswered, GetConn, Peer
    <3>2. FinishedAnswered'
      <4>1. h' = Without({GetConn(s, p)}) /\ UNCHANGED answered
        BY <2>8 DEF GetAnswered
      <4> QED
        BY <4>1, Dropped DEF FinishedAnswered, Peer
    <3>3. PeersAnswered'
      BY <2>8, <3>1 DEF GetAnswered, PeersAnswered, FrontTypes, Block
    <3> QED
      BY <2>8, <3>2, <3>3 DEF GetAnswered, CommitAfterAll
  <2> QED
    BY <1>2, <2>1, <2>2, <2>3, <2>4, <2>5, <2>6, <2>7, <2>8 DEF FrontEnd
<1>3. ASSUME NEW s \in Sessions, Breaks(s) PROVE CommitInv'
  BY <1>3, LeavingCommits DEF Breaks
<1>4. ASSUME NEW c \in DOMAIN h, handleRequest(c) \/ HandlerError(c) PROVE CommitInv'
  <2>1. answered \subseteq answered' /\ FinishedAnswered' /\ UNCHANGED feVars
    BY <1>4, Handling
  <2> QED
    BY <2>1 DEF feVars, PeersAnswered, CommitAfterAll, Block
<1>5. ASSUME NEW p \in Backends, Crash(p) PROVE CommitInv'
  <2>1. FinishedAnswered'
    BY <1>5, Dropped DEF Crash, FinishedAnswered, Peer
  <2> QED
    BY <1>5, <2>1 DEF Crash, feVars, PeersAnswered, CommitAfterAll, Block
<1> QED
  BY <1>1, <1>2, <1>3, <1>4, <1>5 DEF Next

\* Theorem: no block is committed before every other back end answered the request for it,
\* whatever crashes and breaks (blockchain_front_end.go:56-62, 224-232).
THEOREM CommitsWaitForAll == Spec => []CommitAfterAll
<1>1. CommitInv => CommitAfterAll
  BY DEF CommitInv
<1> QED
  BY <1>1, OverlapInit, OverlapStep, CommitInit, CommitStep, PTL DEF Spec

-----------------------------------------------------------------------------
(* The content of an answer, when a back end serves one connection *)

Pieces == Sessions \X Nat

\* The handlers of the first back end add, those of the others get.
ContentTypes ==
    /\ tmp_file \in Seq(Pieces)
    /\ cid \in [Sessions -> Seq(Pieces)]
    /\ DOMAIN output_tmp_file = Others
    /\ \A c \in DOMAIN h :
          /\ h[c].size \in Nat /\ h[c].got \in Seq(Pieces)
          /\ Peer(c) = first => h[c].step \in {"add", "write", "upload", "ok", "error"}
          /\ Peer(c) # first => h[c].step \in {"get", "fetch", "ok", "error"}

\* What a handler finds in the file is what it wrote there.
Written(c) == [k \in 1 .. h[c].size |-> c[1]]
Adding(c) ==
    /\ h[c].step \in {"add", "write"} => h[c].got = <<>>
    /\ h[c].step = "write" => tmp_file = <<>>
    /\ h[c].step = "upload" => /\ tmp_file = Written(c) /\ Len(h[c].got) <= h[c].size
                               /\ \A k \in 1 .. Len(h[c].got) : h[c].got[k] = c[1]
    /\ h[c].step = "ok" => h[c].got = Written(c)
Getting(c) ==
    /\ h[c].step = "get" => h[c].size = 0
    /\ h[c].step = "fetch" => /\ h[c].size <= Len(h[c].got)
                              /\ output_tmp_file[Peer(c)] = [k \in 1 .. h[c].size |-> h[c].got[k]]
    /\ h[c].step = "ok" => output_tmp_file[Peer(c)] = h[c].got
LoneContent(c) ==
    h[c].alone =>
       /\ \A d \in DOMAIN h : Peer(d) = Peer(c) => d = c
       /\ Peer(c) = first => Adding(c)
       /\ Peer(c) # first => Getting(c)

ContentInv == ContentTypes /\ \A c \in DOMAIN h : LoneContent(c)

\* A connection that opens while others are open at its back end makes all of them mix.
LEMMA AcceptedContent ==
    ASSUME Connections, NEW c \in (Sessions \X Nat) \X Backends,
           NEW handler, IsHandler(handler), Accept(c, handler)
    PROVE  /\ DOMAIN h' = DOMAIN h \cup {c}
           /\ h'[c].step = handler.step /\ h'[c].size = handler.size /\ h'[c].got = handler.got
           /\ h'[c].alone => Serving(Peer(c)) = {}
           /\ \A d \in DOMAIN h \ {c} :
                 /\ h'[d].step = h[d].step /\ h'[d].size = h[d].size /\ h'[d].got = h[d].got
                 /\ h'[d].alone => h[d].alone /\ Peer(d) # Peer(c)
<1> DEFINE alone == Serving(Peer(c)) = {}
           still(d) == h[d].alone /\ Peer(d) # Peer(c)
           new == [handler EXCEPT !.alone = alone]
           old(d) == [h[d] EXCEPT !.alone = still(d)]
<1>1. h' = [d \in DOMAIN h \cup {c} |-> IF d = c THEN new ELSE old(d)]
  BY Zenon DEF Accept
<1> HIDE DEF alone, still
<1>2. new.step = handler.step /\ new.size = handler.size /\ new.got = handler.got /\ new.alone = alone
  BY DEF IsHandler
<1>3. ASSUME NEW d \in DOMAIN h
      PROVE  /\ old(d).step = h[d].step /\ old(d).size = h[d].size /\ old(d).got = h[d].got
             /\ old(d).alone = still(d)
  BY DEF IsHandler, Connections
<1> HIDE DEF new, old
<1>4. DOMAIN h' = DOMAIN h \cup {c} /\ h'[c] = new /\ \A d \in DOMAIN h \ {c} : h'[d] = old(d)
  BY <1>1
<1>5. ASSUME NEW d \in DOMAIN h \ {c}
      PROVE  /\ h'[d].step = h[d].step /\ h'[d].size = h[d].size /\ h'[d].got = h[d].got
             /\ h'[d].alone => h[d].alone /\ Peer(d) # Peer(c)
  BY <1>3, <1>4 DEF still
<1>6. h'[c].alone => Serving(Peer(c)) = {}
  BY <1>2, <1>4 DEF alone
<1> QED
  BY <1>2, <1>4, <1>5, <1>6

\* A handler is as right as it was when only others' handlers and files change.
LEMMA Undisturbed ==
    ASSUME NEW d, d \in DOMAIN h, LoneContent(d),
           h'[d].step = h[d].step, h'[d].size = h[d].size, h'[d].got = h[d].got,
           h'[d].alone => /\ h[d].alone
                          /\ \A e \in DOMAIN h' : Peer(e) = Peer(d) => e = d
                          /\ Peer(d) = first => tmp_file' = tmp_file
                          /\ Peer(d) # first => output_tmp_file'[Peer(d)] = output_tmp_file[Peer(d)]
    PROVE  LoneContent(d)'
<1> SUFFICES ASSUME h'[d].alone PROVE LoneContent(d)'
  BY DEF LoneContent
<1>1. Written(d)' = Written(d)
  BY DEF Written
<1>2. Peer(d) = first => Adding(d)'
  BY <1>1 DEF LoneContent, Adding
<1>3. Peer(d) # first => Getting(d)'
  BY DEF LoneContent, Getting, Peer
<1> QED
  BY <1>2, <1>3 DEF LoneContent, Peer

\* A handler that changes its file disturbs only those of its back end, which are not alone.
LEMMA OthersUndisturbed ==
    ASSUME ContentInv, Connections, NEW c \in DOMAIN h, DOMAIN h' \subseteq DOMAIN h,
           \A d \in DOMAIN h' \ {c} : h'[d] = h[d],
           tmp_file' = tmp_file \/ Peer(c) = first,
           \A p \in Others \ {Peer(c)} : output_tmp_file'[p] = output_tmp_file[p]
    PROVE  \A d \in DOMAIN h' \ {c} : LoneContent(d)'
<1> SUFFICES ASSUME NEW d \in DOMAIN h' \ {c} PROVE LoneContent(d)'
  OBVIOUS
<1>1. d \in DOMAIN h /\ LoneContent(d) /\ h'[d] = h[d]
  BY DEF ContentInv
<1>2. Peer(d) # first => Peer(d) \in Others
  BY <1>1 DEF Connections, Backends, Peer
<1>3. h[d].alone => Peer(c) # Peer(d)
  BY <1>1 DEF LoneContent
<1>4. h[d].alone => \A e \in DOMAIN h' : Peer(e) = Peer(d) => e = d
  BY <1>1 DEF LoneContent
<1> QED
  BY <1>1, <1>2, <1>3, <1>4, Undisturbed

\* Connections that close disturb none.
LEMMA ClosingContent ==
    ASSUME ContentInv, Connections, NEW cs, h' = Without(cs), UNCHANGED <<tmp_file, output_tmp_file>>,
           cid' \in [Sessions -> Seq(Pieces)]
    PROVE  ContentInv'
<1>1. DOMAIN h' \subseteq DOMAIN h /\ \A d \in DOMAIN h' : h'[d] = h[d]
  BY Dropped
<1>2. ContentTypes'
  BY <1>1 DEF ContentInv, ContentTypes, Peer
<1>3. ASSUME NEW d \in DOMAIN h' PROVE LoneContent(d)'
  <2>1. d \in DOMAIN h /\ LoneContent(d) /\ h'[d] = h[d]
    BY <1>1 DEF ContentInv
  <2>2. h[d].alone => \A e \in DOMAIN h' : Peer(e) = Peer(d) => e = d
    BY <1>1, <2>1 DEF LoneContent
  <2> QED
    BY <2>1, <2>2, Undisturbed
<1> QED
  BY <1>2, <1>3 DEF ContentInv

\* A new handler that has not begun is right, and mixes with those there are.
LEMMA OpeningContent ==
    ASSUME ContentInv, Connections, NEW c \in (Sessions \X Nat) \X Backends, c \notin DOMAIN h,
           NEW handler, IsHandler(handler), Accept(c, handler),
           handler.size \in Nat, handler.got \in Seq(Pieces),
           Peer(c) = first => handler.step = "add" /\ handler.got = <<>>,
           Peer(c) # first => handler.step = "get" /\ handler.size = 0,
           UNCHANGED <<cid, tmp_file, output_tmp_file>>
    PROVE  ContentInv'
<1>1. /\ DOMAIN h' = DOMAIN h \cup {c}
      /\ h'[c].step = handler.step /\ h'[c].size = handler.size /\ h'[c].got = handler.got
      /\ h'[c].alone => Serving(Peer(c)) = {}
      /\ \A d \in DOMAIN h \ {c} :
            /\ h'[d].step = h[d].step /\ h'[d].size = h[d].size /\ h'[d].got = h[d].got
            /\ h'[d].alone => h[d].alone /\ Peer(d) # Peer(c)
  BY AcceptedContent
<1>2. ContentTypes'
  <2>1. ASSUME NEW d \in DOMAIN h'
        PROVE  /\ h'[d].size \in Nat /\ h'[d].got \in Seq(Pieces)
               /\ Peer(d) = first => h'[d].step \in {"add", "write", "upload", "ok", "error"}
               /\ Peer(d) # first => h'[d].step \in {"get", "fetch", "ok", "error"}
    <3>1. CASE d = c
      BY <1>1, <3>1
    <3>2. CASE d # c
      BY <1>1, <3>2 DEF ContentInv, ContentTypes
    <3> QED
      BY <3>1, <3>2
  <2> QED
    BY <2>1 DEF ContentInv, ContentTypes, Peer
<1>3. ASSUME NEW d \in DOMAIN h \ {c} PROVE LoneContent(d)'
  <2>1. LoneContent(d)
    BY DEF ContentInv
  <2>2. h'[d].alone => h[d].alone /\ \A e \in DOMAIN h' : Peer(e) = Peer(d) => e = d
    BY <1>1, <2>1 DEF LoneContent
  <2> QED
    BY <1>1, <2>1, <2>2, Undisturbed
<1>4. LoneContent(c)'
  <2>1. h'[c].alone => \A e \in DOMAIN h' : Peer(e) = Peer(c) => e = c
    BY <1>1 DEF Serving
  <2>2. Peer(c) = first => Adding(c)'
    BY <1>1 DEF Adding
  <2>3. Peer(c) # first => Getting(c)'
    BY <1>1 DEF Getting
  <2> QED
    BY <2>1, <2>2, <2>3 DEF LoneContent, Peer
<1> QED
  BY <1>1, <1>2, <1>3, <1>4 DEF ContentInv

\* A handler that goes on changes its own back end only.
LEMMA GoingOnContent ==
    ASSUME ContentInv, Connections, NEW c \in DOMAIN h, UNCHANGED cid,
           NEW x, h' = [h EXCEPT ![c] = x], x.size \in Nat, x.got \in Seq(Pieces),
           Peer(c) = first => x.step \in {"add", "write", "upload", "ok", "error"},
           Peer(c) # first => x.step \in {"get", "fetch", "ok", "error"},
           x.alone => h[c].alone,
           x.alone /\ Peer(c) = first => Adding(c)',
           x.alone /\ Peer(c) # first => Getting(c)',
           tmp_file' = tmp_file \/ Peer(c) = first, tmp_file' \in Seq(Pieces),
           DOMAIN output_tmp_file' = Others,
           \A p \in Others \ {Peer(c)} : output_tmp_file'[p] = output_tmp_file[p]
    PROVE  ContentInv'
<1>1. DOMAIN h' = DOMAIN h /\ h'[c] = x /\ \A d \in DOMAIN h' \ {c} : h'[d] = h[d]
  BY DEF Connections
<1>2. ContentTypes'
  <2>1. ASSUME NEW d \in DOMAIN h'
        PROVE  /\ h'[d].size \in Nat /\ h'[d].got \in Seq(Pieces)
               /\ Peer(d) = first => h'[d].step \in {"add", "write", "upload", "ok", "error"}
               /\ Peer(d) # first => h'[d].step \in {"get", "fetch", "ok", "error"}
    <3>1. CASE d = c
      BY <1>1, <3>1
    <3>2. CASE d # c
      BY <1>1, <3>2 DEF ContentInv, ContentTypes
    <3> QED
      BY <3>1, <3>2
  <2> QED
    BY <2>1 DEF ContentInv, ContentTypes, Peer
<1>3. \A d \in DOMAIN h' \ {c} : LoneContent(d)'
  BY <1>1, OthersUndisturbed
<1>4. LoneContent(c)'
  <2>1. x.alone => \A d \in DOMAIN h' : Peer(d) = Peer(c) => d = c
    BY <1>1 DEF ContentInv, LoneContent
  <2> QED
    BY <1>1, <2>1 DEF LoneContent, Peer
<1> QED
  BY <1>1, <1>2, <1>3, <1>4 DEF ContentInv

\* An answer "ok" is given for what was read or written.
LEMMA AnsweringContent ==
    ASSUME ContentInv, Connections, NEW c \in DOMAIN h, NEW step \in {"ok", "error"},
           Answer(c, step), UNCHANGED <<cid, tmp_file, output_tmp_file>>,
           h[c].alone /\ step = "ok" /\ Peer(c) = first => h[c].got = Written(c),
           h[c].alone /\ step = "ok" /\ Peer(c) # first => output_tmp_file[Peer(c)] = h[c].got
    PROVE  ContentInv'
<1>1. CASE Heard(c)
  <2> DEFINE x == [h[c] EXCEPT !.step = step]
  <2>1. h' = [h EXCEPT ![c] = x]
    BY <1>1 DEF Answer, To
  <2>2. x.step = step /\ x.size = h[c].size /\ x.got = h[c].got /\ x.alone = h[c].alone
    BY DEF Connections, IsHandler
  <2> HIDE DEF x
  <2>3. h'[c] = x /\ h[c].size \in Nat /\ h[c].got \in Seq(Pieces)
    BY <2>1 DEF ContentInv, ContentTypes
  <2>4. Written(c)' = Written(c)
    BY <2>2, <2>3 DEF Written
  <2>5. x.alone /\ Peer(c) = first => Adding(c)'
    BY <2>2, <2>3, <2>4 DEF Adding
  <2>6. x.alone /\ Peer(c) # first => Getting(c)'
    BY <2>2, <2>3 DEF Getting, Peer
  <2> QED
    BY <2>1, <2>2, <2>3, <2>5, <2>6, GoingOnContent DEF ContentInv, ContentTypes
<1>2. CASE ~Heard(c)
  BY <1>2, ClosingContent DEF Answer, ContentInv, ContentTypes
<1> QED
  BY <1>1, <1>2

\* Every step of a handler: the file is truncated, written or read to its end, and the
\* output file grows by a piece at a time.
LEMMA HandlingContent ==
    ASSUME ContentInv, Connections, NEW c \in DOMAIN h, handleRequest(c) \/ HandlerError(c)
    PROVE  ContentInv'
<1>1. /\ h[c].size \in Nat /\ h[c].got \in Seq(Pieces) /\ IsHandler(h[c]) /\ LoneContent(c)
      /\ c[1] \in Pieces
      /\ Peer(c) = first => h[c].step \in {"add", "write", "upload", "ok", "error"}
      /\ Peer(c) # first => h[c].step \in {"get", "fetch", "ok", "error"} /\ Peer(c) \in Others
      /\ tmp_file \in Seq(Pieces) /\ DOMAIN output_tmp_file = Others
  BY DEF ContentInv, ContentTypes, Connections, Peer, Backends, Pieces
<1>2. UNCHANGED <<cid>>
  BY DEF handleRequest, HandlerError, feVars
<1> DEFINE At(step) == [h[c] EXCEPT !.step = step]
<1>3. ASSUME NEW step
      PROVE  /\ At(step).step = step /\ At(step).size = h[c].size /\ At(step).got = h[c].got
             /\ At(step).alone = h[c].alone
  BY <1>1 DEF IsHandler
<1> HIDE DEF At
<1>4. CASE CreateTmp(c)
  <2>1. /\ h[c].step = "add" /\ Peer(c) = first /\ tmp_file' = <<>>
        /\ h' = [h EXCEPT ![c] = At("write")] /\ UNCHANGED output_tmp_file
    BY <1>1, <1>4 DEF CreateTmp, To, At
  <2>2. h'[c] = At("write") /\ tmp_file' \in Seq(Pieces)
    BY <2>1
  <2>3. At("write").alone => Adding(c)'
    BY <1>1, <1>3, <2>1, <2>2 DEF LoneContent, Adding
  <2> DEFINE x == At("write")
  <2>4. /\ x.size \in Nat /\ x.got \in Seq(Pieces) /\ x.step = "write"
        /\ x.alone => h[c].alone
    BY <1>1, <1>3
  <2>5. x.alone => Adding(c)'
    BY <2>3
  <2>6. h' = [h EXCEPT ![c] = x] /\ UNCHANGED output_tmp_file /\ Peer(c) = first
    BY <2>1
  <2> HIDE DEF x
  <2> QED
    BY <1>1, <1>2, <2>2, <2>4, <2>5, <2>6, GoingOnContent
<1>5. CASE WriteTmp(c)
  <2> DEFINE rest == SubSeq(tmp_file, h[c].size + 1, Len(tmp_file))
  <2>1. /\ h[c].step = "write" /\ Peer(c) = first /\ tmp_file' = Written(c) \o rest
        /\ h' = [h EXCEPT ![c] = At("upload")] /\ UNCHANGED output_tmp_file
    BY <1>1, <1>5 DEF WriteTmp, To, At, Written
  <2>2. Written(c) \in Seq(Pieces) /\ Len(Written(c)) = h[c].size
    BY <1>1 DEF Written
  <2>3. rest \in Seq(Pieces)
    BY <1>1
  <2>4. tmp_file' \in Seq(Pieces)
    BY <2>1, <2>2, <2>3
  <2>5. h'[c] = At("upload")
    BY <2>1
  <2>6. ASSUME At("upload").alone PROVE Adding(c)'
    <3>1. tmp_file = <<>> /\ h[c].got = <<>>
      BY <1>1, <1>3, <2>1, <2>6 DEF LoneContent, Adding
    <3>2. rest = <<>>
      BY <1>1, <3>1
    <3>3. tmp_file' = Written(c)
      BY <2>1, <2>2, <3>2, ConcatEmptySeq
    <3>4. Written(c)' = Written(c)
      BY <1>3, <2>5 DEF Written
    <3> QED
      BY <1>1, <1>3, <2>5, <3>1, <3>3, <3>4 DEF Adding
  <2> DEFINE x == At("upload")
  <2>7. /\ x.size \in Nat /\ x.got \in Seq(Pieces) /\ x.step = "upload"
        /\ x.alone => h[c].alone
    BY <1>1, <1>3
  <2>8. x.alone => Adding(c)'
    BY <2>6
  <2>9. h' = [h EXCEPT ![c] = x] /\ UNCHANGED output_tmp_file /\ Peer(c) = first
    BY <2>1
  <2> HIDE DEF rest, x
  <2> QED
    BY <1>1, <1>2, <2>4, <2>7, <2>8, <2>9, GoingOnContent
<1>6. CASE ReadTmp(c)
  <2> DEFINE k == Len(h[c].got) + 1
             got == Append(h[c].got, tmp_file[k])
             x == [h[c] EXCEPT !.got = got]
  <2>1. h[c].step = "upload" /\ Peer(c) = first /\ UNCHANGED <<tmp_file, output_tmp_file>>
    BY <1>1, <1>6 DEF ReadTmp
  <2>2. h[c].alone => /\ tmp_file = Written(c) /\ Len(h[c].got) <= h[c].size
                      /\ \A j \in 1 .. Len(h[c].got) : h[c].got[j] = c[1]
    BY <1>1, <2>1 DEF LoneContent, Adding
  <2>3. h[c].alone => Len(tmp_file) = h[c].size
    BY <1>1, <2>2 DEF Written
  <2>4. k \in Nat /\ k > 0
    BY <1>1
  <2>5. CASE k <= Len(tmp_file)
    <3>1. h' = [h EXCEPT ![c] = x]
      BY <1>6, <2>5 DEF ReadTmp
    <3>2. got \in Seq(Pieces) /\ Len(got) = k /\ \A j \in 1 .. k : got[j] = IF j = k THEN tmp_file[k] ELSE h[c].got[j]
      BY <1>1, <2>4, <2>5
    <3> HIDE DEF got
    <3>3. x.step = "upload" /\ x.size = h[c].size /\ x.got = got /\ x.alone = h[c].alone
      BY <1>1, <2>1 DEF IsHandler
    <3> HIDE DEF x
    <3>4. h'[c] = x
      BY <3>1
    <3>5. ASSUME x.alone PROVE Adding(c)'
      <4>1. k <= h[c].size /\ tmp_file[k] = c[1]
        BY <2>2, <2>3, <2>4, <2>5, <3>3, <3>5 DEF Written
      <4>2. ASSUME NEW j \in 1 .. k PROVE got[j] = c[1]
        <5>1. j # k => j \in 1 .. Len(h[c].got)
          BY <1>1
        <5>2. got[j] = IF j = k THEN tmp_file[k] ELSE h[c].got[j]
          BY <3>2
        <5> QED
          BY <2>2, <3>3, <3>5, <4>1, <5>1, <5>2
      <4>3. Written(c)' = Written(c)
        BY <3>3, <3>4 DEF Written
      <4> HIDE DEF k
      <4> QED
        BY <2>1, <2>2, <3>2, <3>3, <3>4, <3>5, <4>1, <4>2, <4>3 DEF Adding
    <3> HIDE DEF k
    <3> QED
      BY <1>1, <1>2, <2>1, <3>1, <3>2, <3>3, <3>5, GoingOnContent
  <2>6. CASE k > Len(tmp_file)
    <3>1. Answer(c, "ok")
      BY <1>1, <1>6, <2>6 DEF ReadTmp
    <3>2. ASSUME h[c].alone PROVE h[c].got = Written(c)
      <4>1. Len(h[c].got) = h[c].size
        BY <1>1, <2>2, <2>3, <2>6, <3>2
      <4> QED
        BY <1>1, <2>2, <3>2, <4>1 DEF Written
    <3> QED
      BY <1>2, <2>1, <3>1, <3>2, AnsweringContent
  <2> QED
    BY <1>1, <2>5, <2>6
<1>7. CASE CreateOutput(c)
  <2>1. /\ h[c].step = "get" /\ Peer(c) # first /\ UNCHANGED tmp_file
        /\ output_tmp_file' = [output_tmp_file EXCEPT ![Peer(c)] = <<>>]
        /\ h' = [h EXCEPT ![c] = At("fetch")]
    BY <1>1, <1>7 DEF CreateOutput, To, At
  <2>2. /\ h'[c] = At("fetch") /\ DOMAIN output_tmp_file' = Others
        /\ \A p \in Others \ {Peer(c)} : output_tmp_file'[p] = output_tmp_file[p]
    BY <1>1, <2>1
  <2>3. ASSUME At("fetch").alone PROVE Getting(c)'
    <3>1. h[c].size = 0
      BY <1>1, <1>3, <2>1, <2>3 DEF LoneContent, Getting
    <3>2. output_tmp_file'[Peer(c)] = [j \in 1 .. 0 |-> h[c].got[j]]
      BY <1>1, <2>1
    <3>3. Peer(c)' = Peer(c) /\ h'[c].size = 0 /\ h'[c].got = h[c].got /\ h'[c].step = "fetch"
      BY <1>3, <2>2, <3>1 DEF Peer
    <3> QED
      BY <1>1, <3>2, <3>3 DEF Getting
  <2> QED
    BY <1>1, <1>2, <1>3, <2>1, <2>2, <2>3, GoingOnContent
<1>8. CASE FetchPiece(c)
  <2> DEFINE k == h[c].size + 1
             x == [h[c] EXCEPT !.size = k]
             put == Put(output_tmp_file[Peer(c)], k, h[c].got[k])
  <2>1. h[c].step = "fetch" /\ Peer(c) # first /\ UNCHANGED tmp_file
    BY <1>1, <1>8 DEF FetchPiece
  <2>2. h[c].alone => /\ h[c].size <= Len(h[c].got)
                      /\ output_tmp_file[Peer(c)] = [j \in 1 .. h[c].size |-> h[c].got[j]]
    BY <1>1, <2>1 DEF LoneContent, Getting
  <2>3. CASE k <= Len(h[c].got)
    <3>1. /\ h' = [h EXCEPT ![c] = x]
          /\ output_tmp_file' = [output_tmp_file EXCEPT ![Peer(c)] = put]
      BY <1>8, <2>3 DEF FetchPiece
    <3>2. x.step = "fetch" /\ x.size = k /\ x.got = h[c].got /\ x.alone = h[c].alone
      BY <1>1, <2>1 DEF IsHandler
    <3>3. ASSUME h[c].alone PROVE put = [j \in 1 .. k |-> h[c].got[j]]
      <4>1. Len(output_tmp_file[Peer(c)]) = h[c].size
        BY <1>1, <2>2, <3>3
      <4>2. put = [j \in 1 .. k |->
                     CASE j = k -> h[c].got[k] [] j <= h[c].size -> output_tmp_file[Peer(c)][j]
                       [] OTHER -> Junk]
        BY <1>1, <4>1 DEF Put
      <4>3. ASSUME NEW j \in 1 .. k
            PROVE  (CASE j = k -> h[c].got[k] [] j <= h[c].size -> output_tmp_file[Peer(c)][j]
                      [] OTHER -> Junk) = h[c].got[j]
        <5>1. j # k => j <= h[c].size /\ output_tmp_file[Peer(c)][j] = h[c].got[j]
          BY <1>1, <2>2, <3>3
        <5>2. ~(j = k /\ j <= h[c].size)
          BY <1>1
        <5> HIDE DEF k
        <5>3. CASE j = k
          BY <5>2, <5>3
        <5>4. CASE j # k
          BY <5>1, <5>4
        <5> QED
          BY <5>3, <5>4
      <4> HIDE DEF k, put
      <4> QED
        BY <4>2, <4>3
    <3> HIDE DEF x, put
    <3>4. h'[c] = x /\ output_tmp_file'[Peer(c)] = put
      BY <1>1, <2>1, <3>1
    <3>5. ASSUME x.alone PROVE Getting(c)'
      <4>1. Peer(c)' = Peer(c) /\ h'[c].size = k /\ h'[c].got = h[c].got /\ h'[c].step = "fetch"
        BY <3>2, <3>4 DEF Peer
      <4>2. put = [j \in 1 .. k |-> h[c].got[j]]
        BY <3>2, <3>3, <3>5
      <4> QED
        BY <2>3, <3>4, <4>1, <4>2 DEF Getting
    <3>6. /\ DOMAIN output_tmp_file' = Others /\ k \in Nat
          /\ \A p \in Others \ {Peer(c)} : output_tmp_file'[p] = output_tmp_file[p]
      BY <1>1, <3>1
    <3> HIDE DEF k
    <3> QED
      BY <1>1, <1>2, <2>1, <3>1, <3>2, <3>5, <3>6, GoingOnContent
  <2>4. CASE k > Len(h[c].got)
    <3>1. Answer(c, "ok") /\ UNCHANGED output_tmp_file
      BY <1>1, <1>8, <2>4 DEF FetchPiece
    <3>2. ASSUME h[c].alone PROVE output_tmp_file[Peer(c)] = h[c].got
      <4>1. Len(h[c].got) = h[c].size
        BY <1>1, <2>2, <2>4, <3>2
      <4> QED
        BY <1>1, <2>2, <3>2, <4>1
    <3> QED
      BY <1>2, <2>1, <3>1, <3>2, AnsweringContent
  <2> QED
    BY <1>1, <2>3, <2>4
<1>9. CASE HandlerError(c)
  BY <1>2, <1>9, AnsweringContent DEF HandlerError, HandlerFails
<1> QED
  BY <1>4, <1>5, <1>6, <1>7, <1>8, <1>9 DEF handleRequest

LEMMA ContentInit == Init => ContentInv
<1> SUFFICES ASSUME Init PROVE ContentInv
  OBVIOUS
<1>1. DOMAIN h = {}
  BY DEF Init
<1>2. tmp_file \in Seq(Pieces) /\ cid \in [Sessions -> Seq(Pieces)] /\ DOMAIN output_tmp_file = Others
  BY DEF Init
<1> QED
  BY <1>1, <1>2 DEF ContentInv, ContentTypes

\* Handlers that have not begun.
LEMMA FreshHandlers ==
    ASSUME NEW size \in Nat, NEW got \in Seq(Pieces)
    PROVE  /\ [Handler("add") EXCEPT !.size = size].size = size
           /\ [Handler("add") EXCEPT !.size = size].got = <<>>
           /\ [Handler("get") EXCEPT !.got = got].size = 0
           /\ [Handler("get") EXCEPT !.got = got].got = got
  BY DEF Handler

\* Every step keeps the invariant.
LEMMA ContentStep == OverlapInv /\ ContentInv /\ [Next]_vars => ContentInv'
<1> SUFFICES ASSUME OverlapInv, ContentInv, [Next]_vars PROVE ContentInv'
  OBVIOUS
<1>1. Connections /\ FrontTypes /\ OpenIsAwaited /\ cid \in [Sessions -> Seq(Pieces)]
  BY DEF OverlapInv, ContentInv, ContentTypes
<1>2. CASE UNCHANGED <<h, cid, tmp_file, output_tmp_file>>
  <2>1. ContentTypes'
    BY <1>2 DEF ContentInv, ContentTypes, Peer
  <2>2. \A c \in DOMAIN h : LoneContent(c)'
    BY <1>2 DEF ContentInv, LoneContent, Adding, Getting, Written, Peer
  <2> QED
    BY <1>2, <2>1, <2>2 DEF ContentInv
<1>3. ASSUME NEW s \in Sessions, NEW how, Leave(s, how) PROVE ContentInv'
  <2> DEFINE cs == {c \in DOMAIN h : c[1][1] = s /\ Finished(c)}
  <2>1. h' = Without(cs) /\ UNCHANGED <<tmp_file, output_tmp_file>>
    BY <1>3 DEF Leave
  <2>2. cid' \in [Sessions -> Seq(Pieces)]
    BY <1>1, <1>3 DEF Leave
  <2> HIDE DEF cs
  <2> QED
    BY <1>1, <2>1, <2>2, ClosingContent
<1>4. ASSUME NEW s \in Sessions, FrontEnd(s) PROVE ContentInv'
  <2>1. CASE Start(s)
    BY <1>2, <1>3, <2>1 DEF Start, beVars
  <2>2. CASE SendAdd(s)
    <3> DEFINE c == AddConn(s)
    <3>1. c \in (Sessions \X Nat) \X Backends /\ Peer(c) = first /\ c[1][1] = s
      BY <1>1 DEF AddConn, Block, Backends, FrontTypes, Peer
    <3>2. c \notin DOMAIN h
      BY <1>1, <2>2, <3>1 DEF SendAdd, OpenIsAwaited
    <3>3. PICK size \in Sizes : Accept(c, [Handler("add") EXCEPT !.size = size])
      BY <2>2 DEF SendAdd
    <3>4. UNCHANGED <<cid, tmp_file, output_tmp_file>> /\ size \in Nat /\ <<>> \in Seq(Pieces)
      BY <2>2, BroadcastAssumption DEF SendAdd
    <3>5. PICK x : /\ IsHandler(x) /\ x.step = "add" /\ x.size = size /\ x.got = <<>>
                   /\ Accept(c, x)
      BY <3>3, <3>4, NewHandlers, FreshHandlers
    <3> HIDE DEF c
    <3> QED
      BY <1>1, <3>1, <3>2, <3>4, <3>5, OpeningContent
  <2>3. CASE AddAnswered(s)
    <3> DEFINE c == AddConn(s)
    <3>1. h' = Without({c}) /\ UNCHANGED <<tmp_file, output_tmp_file>> /\ c \in DOMAIN h
      BY <2>3 DEF AddAnswered, Finished
    <3>2. cid' = cid \/ cid' = [cid EXCEPT ![s] = h[c].got]
      BY <2>3 DEF AddAnswered
    <3>3. h[c].got \in Seq(Pieces)
      BY <3>1 DEF ContentInv, ContentTypes
    <3> HIDE DEF c
    <3>4. cid' \in [Sessions -> Seq(Pieces)]
      BY <1>1, <3>2, <3>3
    <3> QED
      BY <1>1, <3>1, <3>4, ClosingContent
  <2>4. CASE Commit(s)
    <3>1. h' = Without({}) /\ UNCHANGED <<tmp_file, output_tmp_file>>
      BY <1>1, <2>4 DEF Commit, beVars, Without, Connections
    <3>2. cid' \in [Sessions -> Seq(Pieces)]
      BY <1>1, <2>4 DEF Commit
    <3> QED
      BY <1>1, <3>1, <3>2, ClosingContent
  <2>5. CASE End(s)
    BY <1>3, <2>5 DEF End
  <2>6. CASE ConnReset(s)
    BY <1>3, <2>6 DEF ConnReset
  <2>7. ASSUME NEW p \in Others, SendGet(s, p) PROVE ContentInv'
    <3> DEFINE c == GetConn(s, p)
    <3>1. /\ c \in (Sessions \X Nat) \X Backends /\ Peer(c) = p /\ c[1][1] = s
          /\ p # first /\ c[1] = Block(s)
      BY <1>1, BroadcastAssumption DEF GetConn, Block, Backends, FrontTypes, Peer
    <3>2. c \notin DOMAIN h
      BY <1>1, <2>7, <3>1 DEF SendGet, OpenIsAwaited
    <3>3. Accept(c, [Handler("get") EXCEPT !.got = cid[s]])
      BY <2>7 DEF SendGet
    <3>4. UNCHANGED <<cid, tmp_file, output_tmp_file>> /\ cid[s] \in Seq(Pieces) /\ 0 \in Nat
      BY <1>1, <2>7 DEF SendGet
    <3>5. PICK x : /\ IsHandler(x) /\ x.step = "get" /\ x.size = 0 /\ x.got = cid[s]
                   /\ Accept(c, x)
      BY <3>3, <3>4, NewHandlers, FreshHandlers
    <3> HIDE DEF c
    <3> QED
      BY <1>1, <3>1, <3>2, <3>4, <3>5, OpeningContent
  <2>8. ASSUME NEW p \in Others, GetAnswered(s, p) PROVE ContentInv'
    <3>1. h' = Without({GetConn(s, p)}) /\ UNCHANGED <<cid, tmp_file, output_tmp_file>>
      BY <2>8 DEF GetAnswered
    <3> QED
      BY <1>1, <3>1, ClosingContent
  <2> QED
    BY <1>4, <2>1, <2>2, <2>3, <2>4, <2>5, <2>6, <2>7, <2>8 DEF FrontEnd
<1>5. ASSUME NEW s \in Sessions, Breaks(s) PROVE ContentInv'
  BY <1>3, <1>5 DEF Breaks
<1>6. ASSUME NEW c \in DOMAIN h, handleRequest(c) \/ HandlerError(c) PROVE ContentInv'
  BY <1>1, <1>6, HandlingContent
<1>7. ASSUME NEW p \in Backends, Crash(p) PROVE ContentInv'
  <2>1. h' = Without(Serving(p)) /\ UNCHANGED <<cid, tmp_file, output_tmp_file>>
    BY <1>7 DEF Crash, feVars
  <2> QED
    BY <1>1, <2>1, ClosingContent
<1> QED
  BY <1>2, <1>4, <1>5, <1>6, <1>7 DEF Next, vars, feVars, beVars

\* Theorem: a back end that served one connection at a time answered for what it was asked:
\* its cid is of the content made for the request, its output file is the block, whatever
\* broke and crashed before (main.go:724-748, 770-776).
THEOREM LoneAnswersAreOwn == Spec => []OwnContent
<1>1. OverlapInv /\ ContentInv => OwnContent
  <2> SUFFICES ASSUME ContentInv, NEW c \in DOMAIN h, h[c].step = "ok", h[c].alone
               PROVE  IF Peer(c) = first THEN h[c].got = [k \in 1 .. h[c].size |-> c[1]]
                      ELSE output_tmp_file[Peer(c)] = h[c].got
    BY DEF OwnContent
  <2> QED
    BY DEF ContentInv, LoneContent, Adding, Getting, Written
<1> QED
  BY <1>1, OverlapInit, OverlapStep, ContentInit, ContentStep, PTL DEF Spec

-----------------------------------------------------------------------------
(* httpfs: what is in the files of the server *)

Origins == Clients \cup {server, Hole}
Handlers == [step : {"none", "create", "copy", "stored", "failed", "lost"}, at : 0 .. Size]

FileTypes ==
    /\ client \in [Clients -> {"next", "post", "done", "dead"}]
    /\ listed \in [Clients -> Nat]
    /\ request \in [Clients -> [Files -> Handlers]]
    /\ file \in [Files -> Seq(Origins)]
    /\ creator \in [Files -> Origins]
    /\ lone \in [Files -> BOOLEAN]
    /\ \A n \in Files : Len(file[n]) <= Size

\* A client asks for one name after the other, and lists it when the handler has ended.
Listing(c, n) ==
    /\ n > listed[c] => Step(c, n) = "none"
    /\ n = listed[c] /\ client[c] = "next" => Step(c, n) = "none"
    /\ n < listed[c] => Step(c, n) \in {"stored", "failed"}
    /\ Step(c, n) \in {"none", "create"} => request[c][n].at = 0

\* The creator wrote all it has passed, and nobody cuts that off.
Creating(n) ==
    /\ creator[n] = Hole => lone[n]
    /\ \A c \in Clients : creator[n] = c =>
          /\ Step(c, n) \notin {"none", "create"}
          /\ Step(c, n) \in {"copy", "stored"} => request[c][n].at <= Len(file[n])
          /\ Step(c, n) \in {"copy", "stored"} =>
                \A k \in 1 .. request[c][n].at : file[n][k] # Hole
          /\ Step(c, n) = "stored" => request[c][n].at = Size

\* Who wrote before cannot write any more.
Alone(n) ==
    lone[n] =>
       /\ \A c \in Clients : Step(c, n) = "copy" => creator[n] = c
       /\ \A k \in 1 .. Len(file[n]) : file[n][k] = creator[n]

FileInv ==
    /\ FileTypes
    /\ \A n \in Files : Creating(n) /\ Alone(n) /\ \A c \in Clients : Listing(c, n)

\* A request takes one step.
LEMMA Turned ==
    ASSUME FileTypes, NEW c \in Clients, NEW n \in Files,
           NEW step \in {"create", "copy", "stored", "failed"}, Turn(c, n, step)
    PROVE  /\ request' \in [Clients -> [Files -> Handlers]]
           /\ Step(c, n)' = step
           /\ \A d \in Clients, m \in Files :
                 /\ request'[d][m].at = request[d][m].at
                 /\ <<d, m>> # <<c, n>> => Step(d, m)' = Step(d, m)
<1>1. request' = [request EXCEPT ![c] = [request[c] EXCEPT ![n] = [request[c][n] EXCEPT !.step = step]]]
  BY Zenon DEF Turn
<1>2. request \in [Clients -> [Files -> Handlers]]
  BY DEF FileTypes
<1> DEFINE new == [request[c][n] EXCEPT !.step = step]
<1>3. new \in Handlers /\ new.step = step /\ new.at = request[c][n].at
  BY <1>2 DEF Handlers
<1> HIDE DEF new
<1>4. /\ request' \in [Clients -> [Files -> Handlers]]
      /\ \A d \in Clients, m \in Files :
            request'[d][m] = IF <<d, m>> = <<c, n>> THEN new ELSE request[d][m]
  BY <1>1, <1>2, <1>3 DEF new
<1> QED
  BY <1>3, <1>4 DEF Step

\* A piece written at an offset.
LEMMA PieceWritten ==
    ASSUME NEW f \in Seq(Origins), NEW k \in Nat \ {0}, NEW piece \in Origins
    PROVE  /\ WriteAt(f, k, piece) \in Seq(Origins)
           /\ Len(WriteAt(f, k, piece)) = IF k > Len(f) THEN k ELSE Len(f)
           /\ WriteAt(f, k, piece)[k] = piece
           /\ \A j \in 1 .. Len(f) : j # k => WriteAt(f, k, piece)[j] = f[j]
<1> DEFINE new(j) == IF j = k THEN piece ELSE IF j <= Len(f) THEN f[j] ELSE Hole
<1>1. Len(f) \in Nat
  OBVIOUS
<1>2. PICK m \in Nat : m = IF k > Len(f) THEN k ELSE Len(f)
  BY <1>1
<1>3. WriteAt(f, k, piece) = [j \in 1 .. m |-> new(j)]
  BY <1>2 DEF WriteAt
<1>4. \A j \in 1 .. m : new(j) \in Origins
  BY <1>1, ElementOfSeq DEF Origins
<1> HIDE DEF new
<1>5. WriteAt(f, k, piece) \in Seq(Origins) /\ Len(WriteAt(f, k, piece)) = m
  BY <1>3, <1>4
<1>6. \A j \in 1 .. m : WriteAt(f, k, piece)[j] = new(j)
  BY <1>3
<1>7. k \in 1 .. m /\ \A j \in 1 .. Len(f) : j \in 1 .. m
  BY <1>1, <1>2
<1>8. new(k) = piece /\ \A j \in 1 .. Len(f) : j # k => new(j) = f[j]
  BY <1>1 DEF new
<1> QED
  BY <1>2, <1>5, <1>6, <1>7, <1>8

\* A file stays as it is, and its creator goes on with it at most to an end.
LEMMA SameFile ==
    ASSUME NEW n \in Files, Creating(n), Alone(n),
           file'[n] = file[n], creator'[n] = creator[n], lone'[n] = lone[n],
           \A c \in Clients :
              /\ Step(c, n)' = "copy" => Step(c, n) = "copy"
              /\ creator[n] = c =>
                    \/ Step(c, n)' = Step(c, n) /\ request'[c][n].at = request[c][n].at
                    \/ Step(c, n)' \in {"failed", "lost"}
    PROVE  Creating(n)' /\ Alone(n)'
<1>1. ASSUME NEW c \in Clients, creator[n] = c
      PROVE  /\ Step(c, n)' \notin {"none", "create"}
             /\ Step(c, n)' \in {"copy", "stored"} =>
                   /\ Step(c, n)' = Step(c, n) /\ request'[c][n].at = request[c][n].at
  BY <1>1 DEF Creating
<1>2. Creating(n)'
  BY <1>1 DEF Creating, Step
<1>3. Alone(n)'
  BY DEF Alone, Step
<1> QED
  BY <1>2, <1>3

\* A handler of which only the step changes, and not to a copy.
LEMMA TurnedFiles ==
    ASSUME FileInv, NEW c \in Clients, NEW n \in Files, NEW step \in {"create", "stored", "failed"},
           Turn(c, n, step), UNCHANGED <<file, creator, lone>>,
           step = "create" => Step(c, n) = "none",
           step = "stored" => Step(c, n) = "copy" /\ request[c][n].at = Size
    PROVE  \A m \in Files : Creating(m)' /\ Alone(m)'
<1>1. FileTypes
  BY DEF FileInv
<1>2. /\ Step(c, n)' = step
      /\ \A d \in Clients, m \in Files :
            /\ request'[d][m].at = request[d][m].at
            /\ <<d, m>> # <<c, n>> => Step(d, m)' = Step(d, m)
  BY <1>1, Turned
<1> SUFFICES ASSUME NEW m \in Files PROVE Creating(m)' /\ Alone(m)'
  OBVIOUS
<1>3. Creating(m) /\ Alone(m) /\ file'[m] = file[m] /\ creator'[m] = creator[m] /\ lone'[m] = lone[m]
  BY DEF FileInv
<1>4. ASSUME NEW d \in Clients PROVE Step(d, m)' = "copy" => Step(d, m) = "copy"
  BY <1>2
<1>5. CASE m = n /\ creator[n] = c /\ step = "stored"
  <2>1. Alone(m)'
    BY <1>3, <1>4 DEF Alone, Step
  <2>2. \A d \in Clients : creator[m] = d => d = c
    BY <1>5
  <2>3. Creating(m)'
    BY <1>2, <1>3, <1>5, <2>2 DEF Creating, Step
  <2> QED
    BY <2>1, <2>3
<1>6. CASE ~(m = n /\ creator[n] = c /\ step = "stored")
  <2>1. ASSUME NEW d \in Clients, creator[m] = d
        PROVE  \/ Step(d, m)' = Step(d, m) /\ request'[d][m].at = request[d][m].at
               \/ Step(d, m)' \in {"failed", "lost"}
    <3>1. CASE <<d, m>> # <<c, n>>
      BY <1>2, <3>1
    <3>2. CASE d = c /\ m = n
      <4>1. Step(c, n) # "none"
        BY <1>3, <2>1, <3>2 DEF Creating
      <4> QED
        BY <1>2, <1>6, <2>1, <3>2, <4>1
    <3> QED
      BY <3>1, <3>2
  <2> QED
    BY <1>3, <1>4, <2>1, SameFile
<1> QED
  BY <1>5, <1>6

LEMMA FileInit == HttpInit => FileInv
<1> SUFFICES ASSUME HttpInit PROVE FileInv
  OBVIOUS
<1> USE HttpAssumption
<1>1. PICK old \in SUBSET Files :
          /\ file = [n \in Files |-> IF n \in old THEN Whole(server) ELSE <<>>]
          /\ creator = [n \in Files |-> IF n \in old THEN server ELSE "none"]
  BY DEF HttpInit
<1>2. \A c \in Clients, n \in Files : Step(c, n) = "none" /\ request[c][n].at = 0
  BY DEF HttpInit, Step
<1>3. /\ Whole(server) \in Seq(Origins) /\ Len(Whole(server)) = Size
      /\ \A k \in 1 .. Size : Whole(server)[k] = server
  BY DEF Whole, Origins
<1>4. <<>> \in Seq(Origins) /\ Len(<<>>) = 0
  OBVIOUS
<1>5. file \in [Files -> Seq(Origins)] /\ \A n \in Files : Len(file[n]) <= Size
  BY <1>1, <1>3, <1>4
<1>6. request \in [Clients -> [Files -> Handlers]]
  BY DEF HttpInit, Handlers
<1>7. FileTypes
  BY <1>1, <1>5, <1>6 DEF HttpInit, FileTypes, Origins, Hole
<1>8. ASSUME NEW n \in Files PROVE Creating(n)
  <2>1. creator[n] \notin Clients /\ lone[n]
    BY <1>1 DEF HttpInit
  <2> QED
    BY <2>1 DEF Creating
<1>9. ASSUME NEW n \in Files PROVE Alone(n)
  <2>1. \A k \in 1 .. Len(file[n]) : file[n][k] = creator[n]
    BY <1>1, <1>3, <1>4
  <2> QED
    BY <1>2, <2>1 DEF Alone
<1>10. \A n \in Files, c \in Clients : Listing(c, n)
  BY <1>2 DEF Listing, HttpInit, Files
<1> QED
  BY <1>7, <1>8, <1>9, <1>10 DEF FileInv

\* os.Create: the file is empty, and so is what its new creator has passed.
LEMMA CreateFileStep ==
    ASSUME FileInv, NEW c \in Clients, NEW n \in Files, CreateFile(c, n), UNCHANGED uploadVars
    PROVE  FileInv'
<1>1. FileTypes
  BY DEF FileInv
<1>2. Step(c, n) = "create" /\ Turn(c, n, "copy") /\ UNCHANGED <<client, listed>>
  BY DEF CreateFile, uploadVars
<1>3. /\ request' \in [Clients -> [Files -> Handlers]]
      /\ Step(c, n)' = "copy"
      /\ \A d \in Clients, m \in Files :
            /\ request'[d][m].at = request[d][m].at
            /\ <<d, m>> # <<c, n>> => Step(d, m)' = Step(d, m)
  BY <1>1, <1>2, Turned
<1>4. /\ file'[n] = <<>> /\ creator'[n] = c /\ lone'[n] = (Writing(n) = {})
      /\ \A m \in Files \ {n} : file'[m] = file[m] /\ creator'[m] = creator[m] /\ lone'[m] = lone[m]
      /\ file' \in [Files -> Seq(Origins)] /\ creator' \in [Files -> Origins]
      /\ lone' \in [Files -> BOOLEAN]
  BY <1>1 DEF CreateFile, FileTypes, Origins
<1>5. \A m \in Files : Len(file'[m]) <= Size
  <2>1. Len(<<>>) = 0 /\ 0 <= Size
    BY HttpAssumption
  <2>2. \A m \in Files : file'[m] = <<>> \/ (Len(file[m]) <= Size /\ file'[m] = file[m])
    BY <1>1, <1>4 DEF FileTypes
  <2> QED
    BY <2>1, <2>2
<1>6. FileTypes'
  BY <1>1, <1>2, <1>3, <1>4, <1>5 DEF FileTypes
<1>7. request[c][n].at = 0
  BY <1>2 DEF FileInv, Listing
<1>8. Creating(n)' /\ Alone(n)'
  <2>1. Creating(n)'
    BY <1>3, <1>4, <1>7, HttpAssumption DEF Creating, Step, Hole
  <2>2. ASSUME NEW d \in Clients, lone'[n], Step(d, n)' = "copy" PROVE d = c
    BY <1>3, <1>4, <2>2 DEF Writing
  <2>3. \A k \in 1 .. Len(file'[n]) : file'[n][k] = creator'[n]
    BY <1>4
  <2> QED
    BY <1>4, <2>1, <2>2, <2>3 DEF Alone, Step
<1>9. ASSUME NEW m \in Files \ {n} PROVE Creating(m)' /\ Alone(m)'
  BY <1>3, <1>4, SameFile DEF FileInv
<1>10. ASSUME NEW m \in Files, NEW d \in Clients PROVE Listing(d, m)'
  <2>1. Listing(d, m)
    BY DEF FileInv
  <2> QED
    BY <1>2, <1>3, <2>1 DEF Listing, Step
<1> QED
  BY <1>6, <1>8, <1>9, <1>10 DEF FileInv

\* io.Copy: a piece of the handler is in its place, and all others stay.
LEMMA CopyPieceStep ==
    ASSUME FileInv, NEW c \in Clients, NEW n \in Files, CopyPiece(c, n), UNCHANGED uploadVars
    PROVE  FileInv'
<1>1. FileTypes
  BY DEF FileInv
<1>2. /\ Step(c, n) = "copy" /\ request[c][n].at < Size
      /\ UNCHANGED <<client, listed, creator, lone>>
  BY DEF CopyPiece, uploadVars
<1>3. request[c][n].at \in Nat /\ request[c][n].at \in 0 .. Size /\ Size \in Nat
  BY <1>1, HttpAssumption DEF FileTypes, Handlers
<1>4. PICK k \in Nat \ {0} : k = request[c][n].at + 1 /\ k <= Size
  BY <1>2, <1>3
<1>5. /\ request' \in [Clients -> [Files -> Handlers]]
      /\ request'[c][n].at = k
      /\ \A d \in Clients, m \in Files :
            /\ Step(d, m)' = Step(d, m)
            /\ <<d, m>> # <<c, n>> => request'[d][m].at = request[d][m].at
  <2>1. request' = [request EXCEPT ![c] = [request[c] EXCEPT ![n] =
                                               [request[c][n] EXCEPT !.at = request[c][n].at + 1]]]
    BY Zenon DEF CopyPiece
  <2>2. request \in [Clients -> [Files -> Handlers]]
    BY <1>1 DEF FileTypes
  <2> DEFINE new == [request[c][n] EXCEPT !.at = request[c][n].at + 1]
  <2>3. new \in Handlers /\ new.at = k /\ new.step = request[c][n].step
    BY <1>3, <1>4, <2>2 DEF Handlers
  <2> HIDE DEF new
  <2>4. /\ request' \in [Clients -> [Files -> Handlers]]
        /\ \A d \in Clients, m \in Files :
              request'[d][m] = IF <<d, m>> = <<c, n>> THEN new ELSE request[d][m]
    BY <2>1, <2>2, <2>3 DEF new
  <2> QED
    BY <2>3, <2>4 DEF Step
<1> DEFINE f == file[n]
           new == WriteAt(f, k, c)
<1>6. f \in Seq(Origins) /\ Len(f) <= Size /\ Len(f) \in Nat
  BY <1>1 DEF FileTypes
<1>7. Hole \in Origins /\ c \in Origins /\ c # Hole
  BY HttpAssumption DEF Origins, Hole
<1>8. /\ new \in Seq(Origins)
      /\ Len(new) = IF k > Len(f) THEN k ELSE Len(f)
      /\ new[k] = c
      /\ \A j \in 1 .. Len(f) : j # k => new[j] = f[j]
  BY <1>6, <1>7, PieceWritten
<1>9. /\ file'[n] = new /\ \A m \in Files \ {n} : file'[m] = file[m]
      /\ file' \in [Files -> Seq(Origins)]
  <2>1. file' = [file EXCEPT ![n] = new]
    BY <1>4 DEF CopyPiece
  <2>2. file \in [Files -> Seq(Origins)]
    BY <1>1 DEF FileTypes
  <2> HIDE DEF new
  <2> QED
    BY <1>8, <2>1, <2>2
<1> HIDE DEF new
<1>10. Len(new) <= Size /\ Len(f) <= Len(new) /\ k <= Len(new) /\ Len(new) \in Nat
  BY <1>4, <1>6, <1>8
<1>11. FileTypes'
  BY <1>1, <1>2, <1>5, <1>9, <1>10 DEF FileTypes
<1>12. Creating(n) /\ Alone(n)
  BY DEF FileInv
<1>13. ASSUME NEW d \in Clients, creator[n] = d
       PROVE  /\ Step(d, n)' \notin {"none", "create"}
              /\ Step(d, n)' \in {"copy", "stored"} => request'[d][n].at <= Len(new)
              /\ Step(d, n)' \in {"copy", "stored"} =>
                    \A j \in 1 .. request'[d][n].at : new[j] # Hole
              /\ Step(d, n)' = "stored" => request'[d][n].at = Size
  <2>1. /\ Step(d, n) \notin {"none", "create"}
        /\ Step(d, n) \in {"copy", "stored"} => request[d][n].at <= Len(f)
        /\ Step(d, n) \in {"copy", "stored"} => \A j \in 1 .. request[d][n].at : f[j] # Hole
        /\ Step(d, n) = "stored" => request[d][n].at = Size
    BY <1>12, <1>13 DEF Creating
  <2>2. Step(d, n)' = Step(d, n) /\ request[d][n].at \in Nat
    BY <1>1, <1>5, HttpAssumption DEF FileTypes, Handlers
  <2>3. CASE d = c
    <3>1. request'[d][n].at = k /\ Step(d, n)' = "copy" /\ request[d][n].at = k - 1
      BY <1>2, <1>3, <1>4, <1>5, <2>3
    <3>2. ASSUME NEW j \in 1 .. k PROVE new[j] # Hole
      <4>1. CASE j = k
        BY <1>7, <1>8, <4>1
      <4>2. CASE j # k
        <5>1. j \in 1 .. request[d][n].at /\ f[j] # Hole /\ j \in 1 .. Len(f)
          BY <1>2, <1>6, <2>1, <2>3, <3>1, <4>2
        <5> QED
          BY <1>8, <4>2, <5>1
      <4> QED
        BY <4>1, <4>2
    <3> QED
      BY <1>10, <3>1, <3>2
  <2>4. CASE d # c
    <3>1. request'[d][n].at = request[d][n].at
      BY <1>5, <2>4
    <3>2. ASSUME NEW j \in 1 .. request[d][n].at, Step(d, n) \in {"copy", "stored"} PROVE new[j] # Hole
      <4>1. j \in 1 .. Len(f)
        BY <1>6, <2>1, <2>2, <3>2
      <4> QED
        BY <1>7, <1>8, <2>1, <3>2, <4>1
    <3> QED
      BY <1>6, <1>10, <2>1, <2>2, <3>1, <3>2
  <2> QED
    BY <2>3, <2>4
<1>14. Creating(n)'
  BY <1>2, <1>9, <1>12, <1>13 DEF Creating, Step
<1>15. Alone(n)'
  <2> SUFFICES ASSUME lone[n] PROVE Alone(n)'
    BY <1>2 DEF Alone
  <2>1. creator[n] = c /\ \A j \in 1 .. Len(f) : f[j] = c
    BY <1>2, <1>12 DEF Alone
  <2>2. request[c][n].at <= Len(f)
    BY <1>2, <1>12, <2>1 DEF Creating
  <2>3. ASSUME NEW j \in 1 .. Len(new) PROVE new[j] = c
    <3>1. j = k \/ (j \in 1 .. Len(f) /\ j # k)
      BY <1>3, <1>4, <1>6, <1>8, <1>10, <2>2
    <3> QED
      BY <1>8, <2>1, <3>1
  <2>4. \A d \in Clients : Step(d, n)' = "copy" => creator[n] = d
    BY <1>5, <1>12 DEF Alone
  <2> QED
    BY <1>2, <1>9, <2>1, <2>3, <2>4 DEF Alone, Step
<1>16. ASSUME NEW m \in Files \ {n} PROVE Creating(m)' /\ Alone(m)'
  BY <1>2, <1>5, <1>9, SameFile DEF FileInv
<1>17. ASSUME NEW m \in Files, NEW d \in Clients PROVE Listing(d, m)'
  <2>1. Listing(d, m)
    BY DEF FileInv
  <2> QED
    BY <1>2, <1>5, <2>1 DEF Listing, Step
<1> QED
  BY <1>11, <1>14, <1>15, <1>16, <1>17 DEF FileInv

\* A handler that ends, or begins: of the lists only that of its client may be concerned.
LEMMA TurnStep ==
    ASSUME FileInv, NEW c \in Clients, NEW n \in Files, NEW step \in {"create", "stored", "failed"},
           Turn(c, n, step), UNCHANGED <<listed, file, creator, lone>>,
           client' \in [Clients -> {"next", "post", "done", "dead"}],
           \A d \in Clients : client'[d] = "next" => client[d] = "next" /\ (d = c => step # "create"),
           step = "create" => Step(c, n) = "none" /\ listed[c] = n,
           step = "stored" => Step(c, n) = "copy" /\ request[c][n].at = Size,
           step = "failed" => Step(c, n) \in {"create", "copy"}
    PROVE  FileInv'
<1>1. FileTypes
  BY DEF FileInv
<1>2. /\ request' \in [Clients -> [Files -> Handlers]]
      /\ Step(c, n)' = step
      /\ \A d \in Clients, m \in Files :
            /\ request'[d][m].at = request[d][m].at
            /\ <<d, m>> # <<c, n>> => Step(d, m)' = Step(d, m)
  BY <1>1, Turned
<1>3. FileTypes'
  BY <1>1, <1>2 DEF FileTypes
<1>4. \A m \in Files : Creating(m)' /\ Alone(m)'
  BY TurnedFiles
<1>5. ASSUME NEW m \in Files, NEW d \in Clients PROVE Listing(d, m)'
  <2>1. Listing(d, m) /\ listed'[d] = listed[d] /\ (client'[d] = "next" => client[d] = "next")
    BY DEF FileInv
  <2>2. listed[d] \in Nat /\ m \in Int
    BY <1>1 DEF FileTypes, Files
  <2>3. CASE <<d, m>> # <<c, n>>
    BY <1>2, <2>1, <2>3 DEF Listing, Step
  <2>4. CASE d = c /\ m = n
    <3>1. step = "create" => client'[d] # "next" /\ request[d][m].at = 0
      BY <2>1, <2>4 DEF Listing
    <3>2. ~(m > listed[d]) /\ ~(m = listed[d] /\ client'[d] = "next")
      BY <2>1, <2>2, <2>4, <3>1 DEF Listing
    <3>3. m < listed[d] => step \in {"stored", "failed"}
      BY <2>2, <2>4
    <3> QED
      BY <1>2, <2>1, <2>4, <3>1, <3>2, <3>3 DEF Listing, Step
  <2> QED
    BY <2>3, <2>4
<1> QED
  BY <1>3, <1>4, <1>5 DEF FileInv

\* The clients alone take a step.
LEMMA ListStep ==
    ASSUME FileInv, UNCHANGED serverVars, NEW c \in Clients,
           client' \in [Clients -> {"next", "post", "done", "dead"}],
           \/ UNCHANGED listed /\ \A d \in Clients : client'[d] = "next" => client[d] = "next"
           \/ /\ listed' = [listed EXCEPT ![c] = @ + 1]
              /\ Step(c, listed[c]) \in {"stored", "failed"}
              /\ \A d \in Clients \ {c} : client'[d] = client[d]
    PROVE  FileInv'
<1>1. FileTypes /\ UNCHANGED <<request, file, creator, lone>>
  BY DEF FileInv, serverVars
<1>2. FileTypes'
  BY <1>1 DEF FileTypes
<1>3. ASSUME NEW m \in Files PROVE Creating(m)' /\ Alone(m)'
  BY <1>1 DEF FileInv, Creating, Alone, Step
<1>4. ASSUME NEW m \in Files, NEW d \in Clients PROVE Listing(d, m)'
  <2>1. Listing(d, m) /\ listed[d] \in Nat /\ m \in Int
    BY <1>1 DEF FileInv, FileTypes, Files
  <2>2. CASE UNCHANGED listed /\ (client'[d] = "next" => client[d] = "next")
    BY <1>1, <2>1, <2>2 DEF Listing, Step
  <2>3. CASE listed'[d] = listed[d] + 1 /\ Step(d, listed[d]) \in {"stored", "failed"}
    <3>1. (m < listed'[d] => m < listed[d] \/ m = listed[d]) /\ (m >= listed'[d] => m > listed[d])
      BY <2>1, <2>3
    <3>2. m < listed'[d] => Step(d, m) \in {"stored", "failed"}
      BY <2>1, <2>3, <3>1 DEF Listing
    <3>3. m >= listed'[d] => Step(d, m) = "none"
      BY <2>1, <3>1 DEF Listing
    <3> QED
      BY <1>1, <2>1, <2>3, <3>2, <3>3 DEF Listing, Step
  <2>4. CASE listed'[d] = listed[d] /\ client'[d] = client[d]
    BY <1>1, <2>1, <2>4 DEF Listing, Step
  <2> QED
    BY <1>1, <2>2, <2>3, <2>4 DEF FileTypes
<1> QED
  BY <1>2, <1>3, <1>4 DEF FileInv

LEMMA RestartStep == ASSUME FileInv, Restart PROVE FileInv'
<1>1. FileTypes /\ UNCHANGED <<client, listed, file, creator, lone>>
  BY DEF FileInv, Restart, uploadVars
<1> DEFINE step(c, n) == IF Step(c, n) \in {"create", "copy"} THEN "lost" ELSE Step(c, n)
           new(c, n) == [request[c][n] EXCEPT !.step = step(c, n)]
<1>2. request' = [c \in Clients |-> [n \in Files |-> new(c, n)]]
  BY Zenon DEF Restart, Step
<1>3. ASSUME NEW c \in Clients, NEW n \in Files
      PROVE  new(c, n) \in Handlers /\ new(c, n).step = step(c, n) /\ new(c, n).at = request[c][n].at
  <2>1. request[c][n] \in Handlers
    BY <1>1 DEF FileTypes
  <2> QED
    BY <2>1 DEF Handlers, Step
<1> HIDE DEF new
<1>4. /\ request' \in [Clients -> [Files -> Handlers]]
      /\ \A c \in Clients, n \in Files :
            Step(c, n)' = step(c, n) /\ request'[c][n].at = request[c][n].at
  BY <1>2, <1>3 DEF Step
<1>5. FileTypes'
  BY <1>1, <1>4 DEF FileTypes
<1>6. ASSUME NEW m \in Files PROVE Creating(m)' /\ Alone(m)'
  <2>1. Creating(m) /\ Alone(m)
    BY DEF FileInv
  <2>2. ASSUME NEW c \in Clients
        PROVE  /\ Step(c, m)' = "copy" => Step(c, m) = "copy"
               /\ \/ Step(c, m)' = Step(c, m) /\ request'[c][m].at = request[c][m].at
                  \/ Step(c, m)' \in {"failed", "lost"}
    BY <1>4
  <2> QED
    BY <1>1, <2>1, <2>2, SameFile
<1>7. ASSUME NEW m \in Files, NEW d \in Clients PROVE Listing(d, m)'
  <2>1. Listing(d, m)
    BY DEF FileInv
  <2> QED
    BY <1>1, <1>4, <2>1 DEF Listing, Step
<1> QED
  BY <1>5, <1>6, <1>7 DEF FileInv

LEMMA FileStep == FileInv /\ [HttpNext]_httpVars => FileInv'
<1> SUFFICES ASSUME FileInv, [HttpNext]_httpVars PROVE FileInv'
  OBVIOUS
<1>1. FileTypes
  BY DEF FileInv
<1>2. ASSUME NEW c \in Clients, NEW n \in Files, uploadHandler(c, n) PROVE FileInv'
  <2>1. UNCHANGED uploadVars
    BY <1>2 DEF uploadHandler
  <2>2. CASE CreateFile(c, n)
    BY <2>1, <2>2, CreateFileStep
  <2>3. CASE CopyPiece(c, n)
    BY <2>1, <2>3, CopyPieceStep
  <2>4. CASE EndCopy(c, n)
    <3>1. /\ Turn(c, n, "stored") /\ UNCHANGED <<file, creator, lone>>
          /\ Step(c, n) = "copy" /\ request[c][n].at = Size
      BY <2>4 DEF EndCopy
    <3>2. UNCHANGED listed /\ client' = client
      BY <2>1 DEF uploadVars
    <3> QED
      BY <1>1, <3>1, <3>2, TurnStep DEF FileTypes
  <2> QED
    BY <1>2, <2>2, <2>3, <2>4 DEF uploadHandler
<1>3. ASSUME NEW c \in Clients, NEW n \in Files, CopyFails(c, n) PROVE FileInv'
  <2>1. /\ Turn(c, n, "failed") /\ UNCHANGED <<listed, file, creator, lone>>
        /\ Step(c, n) \in {"create", "copy"} /\ client' = client
    BY <1>3 DEF CopyFails, uploadVars
  <2> QED
    BY <1>1, <2>1, TurnStep DEF FileTypes
<1>4. ASSUME NEW c \in Clients, Post(c) PROVE FileInv'
  <2>1. /\ client[c] = "next" /\ listed[c] < filenumber
        /\ client' = [client EXCEPT ![c] = "post"]
        /\ Turn(c, listed[c], "create") /\ UNCHANGED <<listed, file, creator, lone>>
    BY <1>4 DEF Post
  <2>2. PICK n \in Files : n = listed[c]
    BY <1>1, <2>1, HttpAssumption DEF FileTypes, Files
  <2>3. Step(c, n) = "none"
    BY <2>1, <2>2 DEF FileInv, Listing
  <2>4. /\ client' \in [Clients -> {"next", "post", "done", "dead"}]
        /\ \A d \in Clients : client'[d] = "next" => client[d] = "next" /\ d # c
    BY <1>1, <2>1 DEF FileTypes
  <2>5. Turn(c, n, "create")
    BY <2>1, <2>2
  <2> QED
    BY <2>1, <2>2, <2>3, <2>4, <2>5, TurnStep
<1>5. ASSUME NEW c \in Clients, Answered(c) PROVE FileInv'
  <2>1. /\ listed' = [listed EXCEPT ![c] = @ + 1] /\ client' = [client EXCEPT ![c] = "next"]
        /\ Step(c, listed[c]) \in {"stored", "failed"} /\ UNCHANGED serverVars
    BY <1>5 DEF Answered
  <2>2. /\ client' \in [Clients -> {"next", "post", "done", "dead"}]
        /\ \A d \in Clients \ {c} : client'[d] = client[d]
    BY <1>1, <2>1 DEF FileTypes
  <2> QED
    BY <2>1, <2>2, ListStep
<1>6. ASSUME NEW c \in Clients, EndUpload(c) \/ Unanswered(c) \/ ClientEnds(c) PROVE FileInv'
  <2>1. /\ \E end \in {"done", "dead"} : client' = [client EXCEPT ![c] = end]
        /\ UNCHANGED <<listed, serverVars>>
    BY <1>6 DEF EndUpload, Unanswered, ClientEnds
  <2>2. /\ client' \in [Clients -> {"next", "post", "done", "dead"}]
        /\ \A d \in Clients : client'[d] = "next" => client[d] = "next"
    BY <1>1, <2>1 DEF FileTypes
  <2> QED
    BY <2>1, <2>2, ListStep
<1>7. ASSUME UNCHANGED <<uploadVars, serverVars>> PROVE FileInv'
  BY <1>7 DEF uploadVars, serverVars, FileInv, FileTypes, Creating, Alone, Listing, Step
<1>8. ASSUME NEW c \in Clients, ReadList(c) PROVE FileInv'
  BY <1>7, <1>8 DEF ReadList
<1>9. CASE Download
  BY <1>7, <1>9 DEF Download
<1>10. ASSUME NEW t \in Getters, GetFails(t) PROVE FileInv'
  BY <1>7, <1>10 DEF GetFails
<1>11. CASE UNCHANGED httpVars
  BY <1>7, <1>11 DEF httpVars
<1> QED
  BY <1>2, <1>3, <1>4, <1>5, <1>6, <1>8, <1>9, <1>10, <1>11, RestartStep DEF HttpNext, Upload

LEMMA FilesInvariant == HttpSpec => []FileInv
<1>1. HttpInit => FileInv
  BY FileInit
<1>2. FileInv /\ [HttpNext]_httpVars => FileInv'
  BY FileStep
<1> QED
  BY <1>1, <1>2, PTL DEF HttpSpec

\* Theorem: a file whose creator has stored it has all its pieces, whatever other uploads of
\* its name do, and one nobody else wrote when it was created has only pieces of its creator,
\* wherever they or the server are stopped (server.go:36-46).
THEOREM FilesAreOfCreators == HttpSpec => []CreatorPrevails
<1>1. FileInv => StoredIsWhole
  <2> SUFFICES ASSUME FileInv, NEW n \in Files, NEW c \in Clients, creator[n] = c, Step(c, n) = "stored"
               PROVE  Len(file[n]) = Size /\ \A k \in 1 .. Size : file[n][k] # Hole
    BY DEF StoredIsWhole
  <2>1. /\ request[c][n].at = Size /\ request[c][n].at <= Len(file[n])
        /\ \A k \in 1 .. request[c][n].at : file[n][k] # Hole
    BY DEF FileInv, Creating
  <2>2. Len(file[n]) <= Size /\ Len(file[n]) \in Nat /\ Size \in Nat
    BY HttpAssumption DEF FileInv, FileTypes
  <2> QED
    BY <2>1, <2>2
<1>2. FileInv => LoneIsOwn
  BY DEF FileInv, Alone, LoneIsOwn
<1>3. FileInv => CreatorPrevails
  BY <1>1, <1>2 DEF CreatorPrevails
<1> QED
  BY <1>3, FilesInvariant, PTL

-----------------------------------------------------------------------------
(* httpfs: what is downloaded *)

\* Since its upload ended nobody touched the file.
Settled(n) == creator[n] = source /\ lone[n] /\ Step(source, n) = "stored"

Receiving(t) ==
    getter[t] = "body" =>
       /\ name[t] < toget
       /\ Settled(name[t]) =>
             /\ body[t].length = Size /\ Len(body[t].got) <= Size
             /\ \A k \in 1 .. Len(body[t].got) : body[t].got[k] = source

ListBound(c) == listed[c] <= filenumber /\ (client[c] = "post" => listed[c] < filenumber)

DownloadTypes ==
    /\ source \in Clients \cup {"none"} /\ toget \in Nat
    /\ DOMAIN getter = Getters
    /\ name \in [Getters -> Nat]
    /\ body \in [Getters -> [length : Nat, got : Seq(Origins)]]
    /\ \A d \in downloaded : d[1] \in 0 .. toget - 1

DownloadInv ==
    /\ DownloadTypes
    /\ source = "none" => toget = 0 /\ downloaded = {} /\ \A t \in Getters : getter[t] = "none"
    /\ source # "none" => toget <= listed[source]
    /\ \A c \in Clients : ListBound(c)
    /\ \A t \in Getters : Receiving(t)
    /\ DownloadedAsStored

\* A request that has ended does not change any more.
LEMMA EndedStays ==
    ASSUME FileInv, [HttpNext]_httpVars, NEW c \in Clients, NEW n \in Files,
           Step(c, n) \in {"stored", "failed"}
    PROVE  Step(c, n)' = Step(c, n)
<1>1. FileTypes
  BY DEF FileInv
<1>2. ASSUME NEW d \in Clients, NEW m \in Files, NEW step \in {"create", "copy", "stored", "failed"},
             Turn(d, m, step), Step(d, m) \notin {"stored", "failed"}
      PROVE  Step(c, n)' = Step(c, n)
  BY <1>1, <1>2, Turned
<1>3. ASSUME NEW d \in Clients, NEW m \in Files, CopyPiece(d, m) PROVE Step(c, n)' = Step(c, n)
  <2>1. Step(d, m) = "copy" /\ request' = [request EXCEPT ![d][m].at = @ + 1]
    BY <1>3 DEF CopyPiece
  <2>2. <<c, n>> # <<d, m>>
    BY <2>1
  <2>3. request'[c][n] = request[c][n]
    BY <1>1, <2>1, <2>2 DEF FileTypes
  <2> QED
    BY <2>3 DEF Step
<1>4. ASSUME NEW d \in Clients, NEW m \in Files, uploadHandler(d, m) \/ CopyFails(d, m)
      PROVE  Step(c, n)' = Step(c, n)
  BY <1>2, <1>3, <1>4 DEF uploadHandler, CopyFails, CreateFile, EndCopy
<1>5. ASSUME NEW d \in Clients, Post(d) PROVE Step(c, n)' = Step(c, n)
  <2>1. client[d] = "next" /\ listed[d] < filenumber /\ Turn(d, listed[d], "create")
    BY <1>5 DEF Post
  <2>2. listed[d] \in Files
    BY <1>1, <2>1, HttpAssumption DEF FileTypes, Files
  <2>3. Step(d, listed[d]) = "none"
    BY <2>1, <2>2 DEF FileInv, Listing
  <2> QED
    BY <1>2, <2>1, <2>2, <2>3
<1>6. CASE Restart
  <2>1. Step(c, n)' = IF Step(c, n) \in {"create", "copy"} THEN "lost" ELSE Step(c, n)
    BY <1>1, <1>6 DEF Restart, Step, FileTypes, Handlers
  <2> QED
    BY <2>1
<1>7. CASE UNCHANGED request
  BY <1>7 DEF Step
<1>8. ASSUME NEW d \in Clients, Upload(d) \/ ClientEnds(d) \/ ReadList(d)
      PROVE  Step(c, n)' = Step(c, n)
  BY <1>5, <1>7, <1>8 DEF Upload, Answered, EndUpload, Unanswered, ClientEnds, ReadList, serverVars
<1>9. CASE Download \/ (\E t \in Getters : GetFails(t)) \/ UNCHANGED httpVars
  BY <1>7, <1>9 DEF Download, GetFails, serverVars, httpVars
<1> QED
  BY <1>4, <1>6, <1>8, <1>9 DEF HttpNext

\* Only an upload that begins replaces the creator of a file, and says who else wrote.
LEMMA SettledBefore ==
    ASSUME FileInv, [HttpNext]_httpVars, source \in Clients, source' = source,
           NEW n \in Files, n < listed[source], Settled(n)'
    PROVE  Settled(n)
<1>1. FileTypes /\ Step(source, n) \in {"stored", "failed"}
  BY DEF FileInv, Listing
<1>2. Step(source, n)' = Step(source, n)
  BY <1>1, EndedStays
<1>3. Step(source, n)' = "stored" /\ creator'[n] = source /\ lone'[n]
  BY DEF Settled, Step
<1>4. ASSUME NEW c \in Clients, NEW m \in Files, CreateFile(c, m)
      PROVE  creator'[n] = creator[n] /\ lone'[n] = lone[n]
  <2>1. /\ creator' = [creator EXCEPT ![m] = c] /\ lone' = [lone EXCEPT ![m] = Writing(m) = {}]
        /\ Step(c, m) = "create"
    BY <1>4 DEF CreateFile
  <2>2. m # n
    BY <1>1, <1>2, <1>3, <2>1 DEF FileTypes
  <2> QED
    BY <1>1, <2>1, <2>2 DEF FileTypes
<1>5. UNCHANGED <<creator, lone>> \/ \E c \in Clients, m \in Files : CreateFile(c, m)
  BY DEF HttpNext, Upload, ClientEnds, ReadList, uploadHandler, CopyPiece, EndCopy, CopyFails, GetFails,
         Download, Restart, Post, Answered, EndUpload, Unanswered, serverVars, httpVars
<1>6. creator'[n] = creator[n] /\ lone'[n] = lone[n]
  BY <1>4, <1>5
<1> QED
  BY <1>2, <1>3, <1>6 DEF Settled

\* A settled file is what its creator uploaded.
LEMMA SettledWhole ==
    ASSUME FileInv, source \in Clients, NEW n \in Files, Settled(n)
    PROVE  Exists(n) /\ file[n] = Whole(source)
<1>1. creator[n] = source /\ lone[n] /\ Step(source, n) = "stored"
  BY DEF Settled
<1>2. request[source][n].at = Size /\ request[source][n].at <= Len(file[n])
  BY <1>1 DEF FileInv, Creating
<1>3. file[n] \in Seq(Origins) /\ Len(file[n]) = Size /\ Size \in Nat
  BY <1>2, HttpAssumption DEF FileInv, FileTypes
<1>4. \A k \in 1 .. Size : file[n][k] = source
  BY <1>1, <1>3 DEF FileInv, Alone
<1>5. file[n] = [k \in 1 .. Size |-> file[n][k]]
  BY <1>3
<1> QED
  BY <1>1, <1>4, <1>5, HttpAssumption DEF Whole, Exists

LEMMA DownloadInit == HttpInit => DownloadInv
<1> SUFFICES ASSUME HttpInit PROVE DownloadInv
  OBVIOUS
<1>1. /\ source = "none" /\ toget = 0 /\ downloaded = {}
      /\ getter = [t \in Getters |-> "none"] /\ name = [t \in Getters |-> t]
      /\ body = [t \in Getters |-> [length |-> 0, got |-> <<>>]]
      /\ listed = [c \in Clients |-> 0]
  BY DEF HttpInit
<1>2. DownloadTypes
  BY <1>1, HttpAssumption DEF DownloadTypes, Getters
<1>3. \A t \in Getters : Receiving(t)
  BY <1>1 DEF Receiving
<1>4. \A c \in Clients : ListBound(c)
  BY <1>1, HttpAssumption DEF ListBound, HttpInit
<1> QED
  BY <1>1, <1>2, <1>3, <1>4 DEF DownloadInv, DownloadedAsStored

\* The lists only grow, up to their length.
LEMMA ListsGrow ==
    ASSUME FileInv, DownloadInv, [HttpNext]_httpVars, NEW c \in Clients
    PROVE  listed[c] <= listed'[c] /\ ListBound(c)'
<1> DEFINE grows == listed[c] <= listed'[c] /\ ListBound(c)'
<1>1. /\ listed \in [Clients -> Nat] /\ client \in [Clients -> {"next", "post", "done", "dead"}]
      /\ ListBound(c) /\ filenumber \in Nat
  BY HttpAssumption DEF FileInv, FileTypes, DownloadInv
<1>2. ASSUME NEW d \in Clients, Answered(d) PROVE grows
  <2>1. /\ listed' = [listed EXCEPT ![d] = @ + 1] /\ client[d] = "post"
        /\ client' = [client EXCEPT ![d] = "next"]
    BY <1>2 DEF Answered
  <2>2. c = d => listed[c] < filenumber
    BY <1>1, <2>1 DEF ListBound
  <2>3. listed[c] <= listed'[c] /\ (c = d => client'[c] = "next")
    BY <1>1, <2>1
  <2> QED
    BY <1>1, <2>1, <2>2, <2>3 DEF ListBound
<1>3. ASSUME NEW d \in Clients, Post(d) PROVE grows
  <2>1. client' = [client EXCEPT ![d] = "post"] /\ listed[d] < filenumber /\ UNCHANGED listed
    BY <1>3 DEF Post
  <2> QED
    BY <1>1, <2>1 DEF ListBound
<1>4. ASSUME UNCHANGED listed, client'[c] = "post" => client[c] = "post" PROVE grows
  BY <1>1, <1>4 DEF ListBound
<1>5. ASSUME NEW d \in Clients, EndUpload(d) \/ Unanswered(d) \/ ClientEnds(d) PROVE grows
  <2>1. UNCHANGED listed /\ \E end \in {"done", "dead"} : client' = [client EXCEPT ![d] = end]
    BY <1>5 DEF EndUpload, Unanswered, ClientEnds
  <2> QED
    BY <1>1, <1>4, <2>1
<1>6. ASSUME UNCHANGED uploadVars PROVE grows
  BY <1>4, <1>6 DEF uploadVars
<1>7. ASSUME NEW d \in Clients, NEW n \in Files, uploadHandler(d, n) \/ CopyFails(d, n) PROVE grows
  BY <1>6, <1>7 DEF uploadHandler, CopyFails
<1>8. ASSUME NEW d \in Clients, ReadList(d) PROVE grows
  BY <1>6, <1>8 DEF ReadList
<1>9. CASE Download \/ Restart \/ (\E t \in Getters : GetFails(t)) \/ UNCHANGED httpVars
  BY <1>6, <1>9 DEF Download, Restart, GetFails, httpVars
<1> QED
  BY <1>2, <1>3, <1>5, <1>7, <1>8, <1>9 DEF HttpNext, Upload

\* What is settled and listed was so before the step, also if the step is of an upload.
LEMMA SettledListed ==
    ASSUME FileInv, DownloadInv, [HttpNext]_httpVars, source' = source, NEW n \in 0 .. toget - 1, Settled(n)'
    PROVE  Settled(n)
<1>1. toget \in Nat /\ source \in Clients
  BY DEF DownloadInv, DownloadTypes
<1>2. toget <= listed[source] /\ listed[source] <= filenumber
  BY <1>1, HttpAssumption DEF DownloadInv, ListBound
<1>3. n \in Files /\ n < listed[source]
  BY <1>1, <1>2, HttpAssumption DEF Files, FileInv, FileTypes
<1> QED
  BY <1>1, <1>3, SettledBefore

\* The clients that upload and the server leave the download alone, unless the server is killed.
LEMMA UploadsKeepDownload ==
    ASSUME FileInv, DownloadInv, [HttpNext]_httpVars,
           UNCHANGED <<source, toget, name, body, downloaded, returned>>, DOMAIN getter' = Getters,
           \A t \in Getters : \/ getter'[t] = getter[t]
                              \/ getter[t] = "body" /\ getter'[t] \in {"lost", "done"}
    PROVE  DownloadInv'
<1>1. DownloadTypes'
  BY DEF DownloadInv, DownloadTypes
<1>2. ASSUME NEW c \in Clients PROVE listed[c] <= listed'[c] /\ ListBound(c)'
  BY ListsGrow
<1>3. source # "none" => toget <= listed'[source]
  <2>1. source # "none" => source \in Clients /\ toget <= listed[source] /\ toget \in Nat
    BY DEF DownloadInv, DownloadTypes
  <2>2. \A c \in Clients : listed[c] \in Nat /\ listed'[c] \in Nat
    BY FileStep DEF FileInv, FileTypes
  <2> QED
    BY <1>2, <2>1, <2>2
<1>4. source = "none" => toget = 0 /\ downloaded = {} /\ \A t \in Getters : getter'[t] = "none"
  BY DEF DownloadInv
<1>5. ASSUME NEW n \in 0 .. toget - 1, Settled(n)' PROVE Settled(n)
  BY <1>5, SettledListed
<1>6. ASSUME NEW t \in Getters PROVE Receiving(t)'
  <2> SUFFICES ASSUME getter'[t] = "body" PROVE Receiving(t)'
    BY DEF Receiving
  <2>1. getter[t] = "body" /\ Receiving(t)
    BY DEF DownloadInv
  <2>2. name[t] < toget /\ name[t] \in 0 .. toget - 1
    BY <2>1 DEF Receiving, DownloadInv, DownloadTypes
  <2> QED
    BY <1>5, <2>1, <2>2 DEF Receiving
<1>7. DownloadedAsStored'
  <2> SUFFICES ASSUME NEW d \in downloaded, Settled(d[1])' PROVE d[2] = Whole(source)
    BY DEF DownloadedAsStored, Settled, Step
  <2>1. d[1] \in 0 .. toget - 1
    BY DEF DownloadInv, DownloadTypes
  <2>2. Settled(d[1])
    BY <1>5, <2>1
  <2> QED
    BY <2>2 DEF DownloadInv, DownloadedAsStored, Settled
<1> QED
  BY <1>1, <1>2, <1>3, <1>4, <1>6, <1>7 DEF DownloadInv

\* A thread takes a step.
LEMMA ThreadStep ==
    ASSUME DownloadInv, UNCHANGED <<source, toget, uploadVars, serverVars>>, source # "none",
           NEW t \in Getters, DOMAIN getter' = Getters,
           name' \in [Getters -> Nat], body' \in [Getters -> [length : Nat, got : Seq(Origins)]],
           \A u \in Getters \ {t} : getter'[u] = getter[u] /\ name'[u] = name[u] /\ body'[u] = body[u],
           Receiving(t)',
           \A d \in downloaded' \ downloaded :
              d[1] \in 0 .. toget - 1 /\ (Settled(d[1]) => d[2] = Whole(source))
    PROVE  DownloadInv'
<1>1. /\ \A n : Settled(n)' = Settled(n)
      /\ \A c \in Clients : ListBound(c)' = ListBound(c)
  BY DEF Settled, Step, ListBound, uploadVars, serverVars
<1>2. DownloadTypes'
  BY DEF DownloadInv, DownloadTypes
<1>3. ASSUME NEW u \in Getters \ {t} PROVE Receiving(u)'
  <2>1. Receiving(u) /\ getter'[u] = getter[u] /\ name'[u] = name[u] /\ body'[u] = body[u]
    BY DEF DownloadInv
  <2> QED
    BY <1>1, <2>1 DEF Receiving
<1>4. DownloadedAsStored'
  <2> SUFFICES ASSUME NEW d \in downloaded', Settled(d[1])' PROVE d[2] = Whole(source)
    BY DEF DownloadedAsStored, Settled, Step
  <2>1. Settled(d[1])
    BY <1>1
  <2> QED
    BY <2>1 DEF DownloadInv, DownloadedAsStored, Settled
<1> QED
  BY <1>1, <1>2, <1>3, <1>4 DEF DownloadInv, uploadVars

\* The response begins: it announces the length of the file.
LEMMA GetStep ==
    ASSUME FileInv, DownloadInv, NEW t \in Getters, Get(t),
           UNCHANGED <<source, toget, uploadVars, serverVars>>
    PROVE  DownloadInv'
<1>1. /\ getter[t] = "next" /\ name[t] < toget
      /\ getter' = [getter EXCEPT ![t] = "body"] /\ UNCHANGED <<name, downloaded>>
      /\ body' = [body EXCEPT ![t] = [length |-> Len(file[name[t]]), got |-> <<>>]]
  BY DEF Get
<1>2. DownloadTypes /\ source # "none"
  BY <1>1 DEF DownloadInv
<1>3. PICK n \in Files : n = name[t] /\ n \in 0 .. toget - 1
  <2>1. name[t] \in 0 .. toget - 1 /\ source \in Clients
    BY <1>1, <1>2 DEF DownloadTypes
  <2>2. toget <= listed[source] /\ listed[source] <= filenumber /\ listed[source] \in Nat /\ toget \in Nat
    BY <1>2, <2>1 DEF DownloadInv, ListBound, DownloadTypes, FileInv, FileTypes
  <2> QED
    BY <2>1, <2>2, HttpAssumption DEF Files
<1> DEFINE new == [length |-> Len(file[n]), got |-> <<>>]
<1>4. new \in [length : Nat, got : Seq(Origins)] /\ new.length = Len(file[n]) /\ new.got = <<>>
  BY DEF FileInv, FileTypes
<1>5. body' = [body EXCEPT ![t] = new]
  BY <1>1, <1>3
<1> HIDE DEF new
<1>6. /\ body' \in [Getters -> [length : Nat, got : Seq(Origins)]] /\ body'[t] = new
      /\ \A u \in Getters \ {t} : body'[u] = body[u] /\ getter'[u] = getter[u] /\ name'[u] = name[u]
      /\ DOMAIN getter' = Getters /\ name' \in [Getters -> Nat]
  BY <1>1, <1>2, <1>4, <1>5 DEF DownloadTypes
<1>7. Receiving(t)'
  <2>1. Settled(n)' => Settled(n)
    BY DEF Settled, Step, serverVars
  <2>2. Settled(n) => Len(file[n]) = Size
    <3>1. source \in Clients
      BY <1>2 DEF DownloadTypes
    <3>2. Settled(n) => file[n] = Whole(source)
      BY <3>1, SettledWhole
    <3> QED
      BY <3>2, HttpAssumption DEF Whole
  <2>3. Len(<<>>) = 0 /\ 0 <= Size
    BY HttpAssumption
  <2> QED
    BY <1>1, <1>3, <1>4, <1>6, <2>1, <2>2, <2>3 DEF Receiving
<1> QED
  BY <1>1, <1>2, <1>6, <1>7, ThreadStep

\* A page is stored only for a name that is not settled.
LEMMA GetNothingStep ==
    ASSUME FileInv, DownloadInv, NEW t \in Getters, GetNothing(t),
           UNCHANGED <<source, toget, uploadVars, serverVars>>
    PROVE  DownloadInv'
<1>1. /\ getter[t] = "next" /\ name[t] < toget /\ ~Exists(name[t])
      /\ downloaded' = downloaded \cup {<<name[t], Page>>} /\ name' = [name EXCEPT ![t] = @ + Gets]
      /\ UNCHANGED <<getter, body>>
  BY DEF GetNothing, Stored
<1>2. DownloadTypes /\ source # "none"
  BY <1>1 DEF DownloadInv
<1>3. name[t] \in 0 .. toget - 1 /\ source \in Clients
  BY <1>1, <1>2 DEF DownloadTypes
<1>4. ~Settled(name[t])
  BY <1>1, <1>3, HttpAssumption DEF Settled, Exists
<1>5. /\ name' \in [Getters -> Nat] /\ \A u \in Getters \ {t} : name'[u] = name[u]
      /\ Receiving(t)'
  BY <1>1, <1>2, HttpAssumption DEF DownloadTypes, Receiving
<1>6. \A d \in downloaded' \ downloaded :
         d[1] \in 0 .. toget - 1 /\ (Settled(d[1]) => d[2] = Whole(source))
  BY <1>1, <1>3, <1>4
<1> QED
  BY <1>1, <1>2, <1>5, <1>6, ThreadStep DEF DownloadTypes

\* What is read of a settled file is its creator's.
LEMMA ReadPieceStep ==
    ASSUME FileInv, DownloadInv, NEW t \in Getters, ReadPiece(t),
           UNCHANGED <<source, toget, uploadVars, serverVars>>
    PROVE  DownloadInv'
<1>1. /\ getter[t] = "body" /\ Len(body[t].got) < body[t].length
      /\ Len(body[t].got) < Len(file[name[t]]) /\ UNCHANGED <<getter, name, downloaded>>
      /\ body' = [body EXCEPT ![t].got = Append(@, file[name[t]][Len(@) + 1])]
  BY DEF ReadPiece, Behind, More
<1>2. DownloadTypes /\ source # "none" /\ Receiving(t)
  BY <1>1 DEF DownloadInv
<1>3. PICK n \in Files : n = name[t] /\ n \in 0 .. toget - 1
  <2>1. name[t] \in 0 .. toget - 1 /\ source \in Clients
    BY <1>1, <1>2 DEF DownloadTypes, Receiving
  <2>2. toget <= listed[source] /\ listed[source] <= filenumber /\ listed[source] \in Nat /\ toget \in Nat
    BY <1>2, <2>1 DEF DownloadInv, ListBound, DownloadTypes, FileInv, FileTypes
  <2> QED
    BY <2>1, <2>2, HttpAssumption DEF Files
<1> DEFINE old == body[t].got
           piece == file[n][Len(old) + 1]
           got == Append(old, piece)
<1>4. old \in Seq(Origins) /\ body[t] \in [length : Nat, got : Seq(Origins)] /\ Len(old) \in Nat
  BY <1>2 DEF DownloadTypes
<1>5. file[n] \in Seq(Origins) /\ Len(old) < Len(file[n])
  BY <1>1, <1>3 DEF FileInv, FileTypes
<1>6. Len(old) + 1 \in 1 .. Len(file[n])
  BY <1>4, <1>5
<1>7. piece \in Origins
  BY <1>5, <1>6, ElementOfSeq
<1>8. /\ got \in Seq(Origins) /\ Len(got) = Len(old) + 1
      /\ \A k \in 1 .. Len(old) : got[k] = old[k]
      /\ got[Len(old) + 1] = piece
  BY <1>4, <1>7, AppendProperties
<1>9. body' = [body EXCEPT ![t] = [body[t] EXCEPT !.got = got]]
  BY <1>1, <1>3
<1> HIDE DEF got
<1> DEFINE new == [body[t] EXCEPT !.got = got]
<1>10. new \in [length : Nat, got : Seq(Origins)] /\ new.length = body[t].length /\ new.got = got
  BY <1>4, <1>8
<1> HIDE DEF new
<1>11. /\ body' \in [Getters -> [length : Nat, got : Seq(Origins)]] /\ body'[t] = new
       /\ \A u \in Getters \ {t} : body'[u] = body[u] /\ getter'[u] = getter[u] /\ name'[u] = name[u]
  BY <1>1, <1>2, <1>9, <1>10 DEF DownloadTypes, new
<1>12. Receiving(t)'
  <2>1. /\ UNCHANGED <<creator, lone, request>> /\ source' = source
        /\ name'[t] = n /\ n < toget /\ toget' = toget
    BY <1>1, <1>2, <1>3 DEF serverVars, DownloadTypes
  <2> SUFFICES ASSUME Settled(n)
               PROVE  /\ new.length = Size /\ Len(new.got) <= Size
                      /\ \A k \in 1 .. Len(new.got) : new.got[k] = source
    BY <1>11, <2>1 DEF Receiving, Settled, Step
  <2>2. /\ body[t].length = Size /\ \A k \in 1 .. Len(old) : old[k] = source
    BY <1>1, <1>2, <1>3 DEF Receiving
  <2>3. file[n] = Whole(source)
    BY <1>2, SettledWhole DEF DownloadTypes
  <2>4. piece = source /\ Len(old) + 1 <= Size
    BY <1>6, <2>3, HttpAssumption DEF Whole
  <2>5. ASSUME NEW k \in 1 .. Len(got) PROVE got[k] = source
    BY <1>4, <1>8, <2>2, <2>4
  <2> QED
    BY <1>8, <1>10, <2>2, <2>4, <2>5
<1> QED
  BY <1>1, <1>2, <1>11, <1>12, ThreadStep DEF DownloadTypes

\* A response that is complete has the length of the file, and its pieces.
LEMMA CopyReturnsStep ==
    ASSUME FileInv, DownloadInv, NEW t \in Getters, CopyReturns(t),
           UNCHANGED <<source, toget, uploadVars, serverVars>>
    PROVE  DownloadInv'
<1>1. /\ getter[t] = "body" /\ ~(Len(body[t].got) < body[t].length)
      /\ downloaded' = downloaded \cup {<<name[t], body[t].got>>} /\ name' = [name EXCEPT ![t] = @ + Gets]
      /\ getter' = [getter EXCEPT ![t] = "next"] /\ UNCHANGED body
  BY DEF CopyReturns, Stored, Behind
<1>2. DownloadTypes /\ source # "none" /\ Receiving(t)
  BY <1>1 DEF DownloadInv
<1>3. name[t] \in 0 .. toget - 1
  BY <1>1, <1>2 DEF DownloadTypes, Receiving
<1>4. Settled(name[t]) => body[t].got = Whole(source)
  <2> SUFFICES ASSUME Settled(name[t]) PROVE body[t].got = Whole(source)
    OBVIOUS
  <2>1. body[t].got \in Seq(Origins) /\ Len(body[t].got) \in Nat /\ Size \in Nat
    BY <1>2, HttpAssumption DEF DownloadTypes
  <2>2. /\ body[t].length = Size /\ Len(body[t].got) <= Size
        /\ \A k \in 1 .. Len(body[t].got) : body[t].got[k] = source
    BY <1>1, <1>2 DEF Receiving
  <2>3. Len(body[t].got) = Size
    BY <1>1, <2>1, <2>2
  <2>4. body[t].got = [k \in 1 .. Size |-> body[t].got[k]]
    BY <2>1, <2>3
  <2> QED
    BY <2>2, <2>3, <2>4 DEF Whole
<1>5. /\ name' \in [Getters -> Nat] /\ DOMAIN getter' = Getters
      /\ \A u \in Getters \ {t} : name'[u] = name[u] /\ getter'[u] = getter[u]
      /\ Receiving(t)'
  BY <1>1, <1>2, HttpAssumption DEF DownloadTypes, Receiving
<1>6. \A d \in downloaded' \ downloaded :
         d[1] \in 0 .. toget - 1 /\ (Settled(d[1]) => d[2] = Whole(source))
  BY <1>1, <1>3, <1>4
<1> QED
  BY <1>1, <1>2, <1>5, <1>6, ThreadStep DEF DownloadTypes

LEMMA DownloadStep == FileInv /\ DownloadInv /\ [HttpNext]_httpVars => DownloadInv'
<1> SUFFICES ASSUME FileInv, DownloadInv, [HttpNext]_httpVars PROVE DownloadInv'
  OBVIOUS
<1>1. DOMAIN getter = Getters /\ DownloadTypes
  BY DEF DownloadInv, DownloadTypes
<1>2. ASSUME UNCHANGED downloadVars PROVE DownloadInv'
  BY <1>1, <1>2, UploadsKeepDownload DEF downloadVars
<1>3. CASE Restart
  <2>1. /\ getter' = [t \in Getters |-> IF getter[t] = "body" THEN "lost" ELSE getter[t]]
        /\ UNCHANGED <<source, toget, name, body, downloaded, returned>>
    BY <1>3 DEF Restart
  <2>2. \A t \in Getters : \/ getter'[t] = getter[t]
                           \/ getter[t] = "body" /\ getter'[t] \in {"lost", "done"}
    BY <2>1
  <2> QED
    BY <2>1, <2>2, UploadsKeepDownload
<1>4. ASSUME NEW c \in Clients, Upload(c) \/ ClientEnds(c) PROVE DownloadInv'
  BY <1>2, <1>4 DEF Upload, ClientEnds
<1>5. ASSUME NEW c \in Clients, NEW n \in Files, uploadHandler(c, n) \/ CopyFails(c, n) PROVE DownloadInv'
  BY <1>2, <1>5 DEF uploadHandler, CopyFails
<1>6. ASSUME NEW c \in Clients, ReadList(c) PROVE DownloadInv'
  <2>1. /\ source = "none" /\ source' = c /\ toget' = listed[c]
        /\ getter' = [t \in Getters |-> "next"]
        /\ UNCHANGED <<name, body, downloaded, uploadVars>>
    BY <1>6 DEF ReadList
  <2>2. downloaded = {} /\ c # "none" /\ listed[c] \in Nat
    BY <2>1, HttpAssumption DEF DownloadInv, FileInv, FileTypes
  <2>3. DownloadTypes'
    BY <1>1, <2>1, <2>2 DEF DownloadTypes
  <2>4. \A t \in Getters : Receiving(t)'
    BY <2>1 DEF Receiving
  <2>5. DownloadedAsStored'
    BY <2>1, <2>2 DEF DownloadedAsStored
  <2>6. \A d \in Clients : ListBound(d)'
    BY <2>1 DEF DownloadInv, ListBound, uploadVars
  <2>7. toget' <= listed'[source'] /\ source' # "none"
    BY <2>1, <2>2 DEF uploadVars
  <2> QED
    BY <2>3, <2>4, <2>5, <2>6, <2>7 DEF DownloadInv
<1>7. ASSUME NEW t \in Getters, GetterEnds(t) \/ GetFails(t), UNCHANGED <<source, toget, uploadVars, serverVars>>
      PROVE  DownloadInv'
  <2>1. /\ getter[t] # "none" /\ getter' = [getter EXCEPT ![t] = "done"]
        /\ UNCHANGED <<name, body, downloaded>>
    BY <1>7 DEF GetterEnds, GetFails
  <2>2. source # "none"
    BY <2>1 DEF DownloadInv
  <2>3. Receiving(t)' /\ DOMAIN getter' = Getters /\ \A u \in Getters \ {t} : getter'[u] = getter[u]
    BY <1>1, <2>1 DEF Receiving
  <2> QED
    BY <1>1, <1>7, <2>1, <2>2, <2>3, ThreadStep DEF DownloadTypes
<1>8. CASE Download
  <2>1. UNCHANGED <<source, toget, uploadVars, serverVars, restarts>>
    BY <1>8 DEF Download
  <2>2. CASE DownloadReturns
    <3>1. UNCHANGED <<getter, name, body, downloaded>>
      BY <2>2 DEF DownloadReturns
    <3> QED
      BY <2>1, <3>1 DEF DownloadInv, DownloadTypes, ListBound, Receiving, Settled, Step, DownloadedAsStored,
                        uploadVars, serverVars
  <2> QED
    BY <1>7, <1>8, <2>1, <2>2, GetStep, GetNothingStep, ReadPieceStep, CopyReturnsStep DEF Download
<1>9. ASSUME NEW t \in Getters, GetFails(t) PROVE DownloadInv'
  BY <1>7, <1>9 DEF GetFails
<1>10. CASE UNCHANGED httpVars
  BY <1>2, <1>10 DEF httpVars
<1> QED
  BY <1>3, <1>4, <1>5, <1>6, <1>8, <1>9, <1>10 DEF HttpNext

\* Theorem: what one upload stored, and no other touched, is downloaded as it is by who reads
\* its list, for any number of threads and restarts (client.go:168-175, 216-258).
THEOREM SettledFilesDownloaded == HttpSpec => []DownloadedAsStored
<1>1. HttpInit => DownloadInv
  BY DownloadInit
<1>2. FileInv /\ DownloadInv /\ [HttpNext]_httpVars => DownloadInv'
  BY DownloadStep
<1>3. DownloadInv => DownloadedAsStored
  BY DEF DownloadInv
<1> QED
  BY <1>1, <1>2, <1>3, FilesInvariant, PTL DEF HttpSpec
=============================================================================
