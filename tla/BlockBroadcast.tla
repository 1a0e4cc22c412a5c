--------------------------- MODULE BlockBroadcast ---------------------------
(***************************************************************************)
(* tools/blockchain_front_end.go and the back end of local-node/main.go:   *)
(* a front end asks the first back end to add a block of random content,   *)
(* then all others to fetch it, and commits the block when all answered.   *)
(* A back end serves each connection in a goroutine, but all of them write *)
(* the same tmp_file or output_tmp_file.  Front ends and back ends may be  *)
(* killed, and connections break; handlers go on without their front end.  *)
(*                                                                         *)
(* A block is <<session, number>>.  Content is a sequence of pieces, named *)
(* by the block they were made for; a cid is the content it stands for.    *)
(***************************************************************************)
EXTENDS Integers, FiniteSets, Sequences

CONSTANTS
    Sessions,           \* runs of the front end, numbered
    Endless,            \* those without a trace and without -n: for {}
    first, Others,      \* addrs[0] and addrs[1:]
    Sizes,              \* pieces of a block
    MaxBlocks,          \* bound: blocks of a session, where also an endless one stops
    MaxCrashes          \* bound: crashes of back ends

ASSUME BroadcastAssumption ==
    /\ Sessions \subseteq Nat /\ Endless \subseteq Sessions
    /\ first \notin Others /\ IsFiniteSet(Others) /\ Sizes \subseteq Nat

Backends == {first} \cup Others
Blocks == Sessions \X (1 .. MaxBlocks)
Junk == <<>>            \* a piece of a file nobody wrote

VARIABLES
    pc, blk,            \* front end: control point, number of the block
    cid,                \* what the answer to its ADD says
    unsent, pending,    \* back ends not asked yet, and those wg waits for
    h,                  \* open connection <<block, back end>> -> its handler
    tmp_file,           \* of first
    output_tmp_file,    \* of each of Others
    committed,          \* blocks counted in BlockNum, of front ends that run
    answered,           \* <<peer, block>>: the request for the block was served (ghost)
    crashes             \* of back ends

feVars == <<pc, blk, cid, unsent, pending, committed>>
beVars == <<h, tmp_file, output_tmp_file, answered>>
vars == <<feVars, beVars, crashes>>

Block(s) == <<s, blk[s]>>
Peer(c) == c[2]
Handler(step) == [step |-> step, size |-> 0, got |-> <<>>, alone |-> TRUE]
Serving(p) == {c \in DOMAIN h : Peer(c) = p}
Without(cs) == [c \in DOMAIN h \ cs |-> h[c]]
Finished(c) == c \in DOMAIN h /\ h[c].step \in {"ok", "error"}

Init ==
    /\ pc = [s \in Sessions |-> "none"]
    /\ blk = [s \in Sessions |-> 1]
    /\ cid = [s \in Sessions |-> <<>>]
    /\ unsent = [s \in Sessions |-> {}] /\ pending = [s \in Sessions |-> {}]
    /\ h = <<>>
    /\ tmp_file = <<>> /\ output_tmp_file = [p \in Others |-> <<>>]
    /\ committed = {} /\ answered = {} /\ crashes = 0

-----------------------------------------------------------------------------
(* Back end: handleRequest *)

\* Accept: a new handler, with whatever others the back end has.
Accept(c, handler) ==
    h' = [d \in DOMAIN h \cup {c} |->
            IF d = c THEN [handler EXCEPT !.alone = Serving(Peer(c)) = {}]
            ELSE [h[d] EXCEPT !.alone = @ /\ Peer(d) # Peer(c)]]

To(c, step) == h' = [h EXCEPT ![c].step = step]

Heard(c) == pc[c[1][1]] \notin {"dead", "done"}

\* The answer is written, and the connection closed; perhaps nobody listens.
Answer(c, step) ==
    IF Heard(c)
    THEN /\ To(c, step)
         /\ answered' = answered \cup {<<Peer(c), c[1]>>}
    ELSE /\ h' = Without({c})
         /\ UNCHANGED answered

\* The request "1 size": os.Create truncates ...
CreateTmp(c) ==
    /\ h[c].step = "add"
    /\ tmp_file' = <<>>
    /\ To(c, "write")
    /\ UNCHANGED <<output_tmp_file, answered>>

BugNotFlushed(c) ==
    /\ h[c].step = "write"
    /\ To(c, "upload")
    /\ UNCHANGED <<tmp_file, output_tmp_file, answered>>

\* ... and writes all pieces from the beginning of the file, over those there are.
WriteTmp(c) ==
    /\ h[c].step = "write"
    /\ tmp_file' = [k \in 1 .. h[c].size |-> c[1]]
                     \o SubSeq(tmp_file, h[c].size + 1, Len(tmp_file))
    /\ To(c, "upload")
    /\ UNCHANGED <<output_tmp_file, answered>>

\* UploadFile reads the file by its name, piece by piece, to its end.
ReadTmp(c) ==
    /\ h[c].step = "upload"
    /\ LET k == Len(h[c].got) + 1
       IN IF k <= Len(tmp_file)
          THEN h' = [h EXCEPT ![c].got = Append(@, tmp_file[k])] /\ UNCHANGED answered
          ELSE Answer(c, "ok")
    /\ UNCHANGED <<tmp_file, output_tmp_file>>

\* The request "2 cid": the root is fetched, and the file created ...
CreateOutput(c) ==
    /\ h[c].step = "get"
    /\ output_tmp_file' = [output_tmp_file EXCEPT ![Peer(c)] = <<>>]
    /\ To(c, "fetch")
    /\ UNCHANGED <<tmp_file, answered>>

\* ... and each piece is written as it arrives, at the offset of this handler.
Put(f, k, piece) ==
    [j \in 1 .. (IF k > Len(f) THEN k ELSE Len(f)) |->
       CASE j = k -> piece [] j <= Len(f) -> f[j] [] OTHER -> Junk]

FetchPiece(c) ==
    /\ h[c].step = "fetch"
    /\ LET k == h[c].size + 1
       IN IF k <= Len(h[c].got)
          THEN /\ output_tmp_file' = [output_tmp_file EXCEPT ![Peer(c)] = Put(@, k, h[c].got[k])]
               /\ h' = [h EXCEPT ![c].size = k]
               /\ UNCHANGED answered
          ELSE Answer(c, "ok") /\ UNCHANGED output_tmp_file
    /\ UNCHANGED tmp_file

\* Any error is answered with "1 ".
HandlerFails(c) ==
    /\ h[c].step \in {"add", "write", "upload", "get", "fetch"}
    /\ Answer(c, "error")
    /\ UNCHANGED <<tmp_file, output_tmp_file>>

handleRequest(c) ==
    /\ CreateTmp(c) \/ WriteTmp(c) \/ ReadTmp(c) \/ CreateOutput(c) \/ FetchPiece(c)
    /\ UNCHANGED <<feVars, crashes>>

HandlerError(c) == HandlerFails(c) /\ UNCHANGED <<feVars, crashes>>

\* A back end dies and is started again: its files and its blocks stay.
Crash(p) ==
    /\ crashes < MaxCrashes /\ crashes' = crashes + 1
    /\ Serving(p) # {} /\ h' = Without(Serving(p))
    /\ UNCHANGED <<feVars, tmp_file, output_tmp_file, answered>>

-----------------------------------------------------------------------------
(* Front end *)

AddConn(s) == <<Block(s), first>>
GetConn(s, p) == <<Block(s), p>>

\* The process ends, and with it what it had in memory; its handlers go on.
Leave(s, how) ==
    /\ pc' = [pc EXCEPT ![s] = how]
    /\ blk' = [blk EXCEPT ![s] = 1]
    /\ cid' = [cid EXCEPT ![s] = <<>>]
    /\ unsent' = [unsent EXCEPT ![s] = {}] /\ pending' = [pending EXCEPT ![s] = {}]
    /\ committed' = {b \in committed : b[1] # s}
    /\ answered' = {a \in answered : a[2][1] # s}
    /\ h' = Without({c \in DOMAIN h : c[1][1] = s /\ Finished(c)})
    /\ UNCHANGED <<tmp_file, output_tmp_file>>

\* No list of peers, or -n without a trace, which panics at file_size[0].
\* A front end is started when the one before it has ended.
Start(s) ==
    /\ pc[s] = "none"
    /\ \A o \in Sessions : o < s => pc[o] \in {"done", "dead"}
    /\ \/ Leave(s, "dead")
       \/ /\ pc' = [pc EXCEPT ![s] = "next"]
          /\ UNCHANGED <<blk, cid, unsent, pending, committed, beVars>>

SendAdd(s) ==
    /\ pc[s] = "next" /\ blk[s] <= MaxBlocks
    /\ pc' = [pc EXCEPT ![s] = "add"]
    /\ \E size \in Sizes :
          Accept(AddConn(s), [Handler("add") EXCEPT !.size = size])
    /\ UNCHANGED <<blk, cid, unsent, pending, committed,
                   tmp_file, output_tmp_file, answered>>

\* "0 cid " is broadcast; after "1 " the block is dropped, and the next is made.
AddAnswered(s) ==
    /\ pc[s] = "add" /\ Finished(AddConn(s))
    /\ LET c == AddConn(s)
       IN \/ /\ h[c].step = "ok"
             /\ pc' = [pc EXCEPT ![s] = "get"]
             /\ cid' = [cid EXCEPT ![s] = h[c].got]
             /\ unsent' = [unsent EXCEPT ![s] = Others]
             /\ pending' = [pending EXCEPT ![s] = Others]
             /\ h' = Without({c})
             /\ UNCHANGED blk
          \/ /\ h[c].step = "error"
             /\ pc' = [pc EXCEPT ![s] = "next"]
             /\ blk' = [blk EXCEPT ![s] = @ + 1]
             /\ h' = Without({c})
             /\ UNCHANGED <<cid, unsent, pending>>
    /\ UNCHANGED <<committed, tmp_file, output_tmp_file, answered>>

\* makeRequests, a goroutine per peer
SendGet(s, p) ==
    /\ pc[s] = "get" /\ p \in unsent[s]
    /\ unsent' = [unsent EXCEPT ![s] = @ \ {p}]
    /\ Accept(GetConn(s, p), [Handler("get") EXCEPT !.got = cid[s]])
    /\ UNCHANGED <<pc, blk, cid, pending, committed,
                   tmp_file, output_tmp_file, answered>>

\* Any answer will do: result # nil, whatever it says.
GetAnswered(s, p) ==
    /\ pc[s] = "get" /\ p \in pending[s] \ unsent[s]
    /\ Finished(GetConn(s, p))
    /\ h' = Without({GetConn(s, p)})
    /\ pending' = [pending EXCEPT ![s] = @ \ {p}]
    /\ UNCHANGED <<pc, blk, cid, unsent, committed,
                   tmp_file, output_tmp_file, answered>>

BugNoWait(s) ==
    /\ pc[s] = "get" /\ unsent[s] = {}
    /\ committed' = committed \cup {Block(s)}
    /\ pc' = [pc EXCEPT ![s] = "next"]
    /\ blk' = [blk EXCEPT ![s] = @ + 1]
    /\ pending' = [pending EXCEPT ![s] = {}]
    /\ UNCHANGED <<cid, unsent, beVars>>

\* wg.Wait; BlockNum++
Commit(s) ==
    /\ pc[s] = "get" /\ pending[s] = {}
    /\ committed' = committed \cup {Block(s)}
    /\ pc' = [pc EXCEPT ![s] = "next"]
    /\ blk' = [blk EXCEPT ![s] = @ + 1]
    /\ cid' = [cid EXCEPT ![s] = <<>>]
    /\ UNCHANGED <<unsent, pending, beVars>>

\* i = total_blks, however many the trace has, which is at least one.  The loop
\* without a trace has no end.
End(s) ==
    /\ pc[s] = "next" /\ s \notin Endless
    /\ blk[s] > 1
    /\ Leave(s, "done")

BugForgotten(s) ==
    /\ pc[s] = "add" /\ AddConn(s) \notin DOMAIN h
    /\ Leave(s, "dead")

\* The connection is closed by a back end that is gone: main returns, or os.Exit(0).
ConnReset(s) ==
    /\ \/ pc[s] = "add" /\ AddConn(s) \notin DOMAIN h
       \/ pc[s] = "get" /\ \E p \in pending[s] \ unsent[s] : GetConn(s, p) \notin DOMAIN h
    /\ Leave(s, "dead")

BugGoesOn(s) ==
    /\ pc[s] \in {"add", "get"}
    /\ pc' = [pc EXCEPT ![s] = "next"] /\ blk' = [blk EXCEPT ![s] = @ + 1]
    /\ UNCHANGED <<cid, unsent, pending, committed, beVars, crashes>>

\* A connection cannot be made, or breaks, or the front end is killed.
Breaks(s) ==
    /\ pc[s] \in {"next", "add", "get"}
    /\ Leave(s, "dead") /\ UNCHANGED crashes

FrontEnd(s) ==
    /\ \/ Start(s) \/ SendAdd(s) \/ AddAnswered(s) \/ Commit(s) \/ End(s) \/ ConnReset(s)
       \/ \E p \in Others : SendGet(s, p) \/ GetAnswered(s, p)
    /\ UNCHANGED crashes

Next ==
    \/ \E s \in Sessions : FrontEnd(s) \/ Breaks(s)
    \/ \E c \in DOMAIN h : handleRequest(c) \/ HandlerError(c)
    \/ \E p \in Backends : Crash(p)

\* What a goroutine does without calling into the node: these steps the scheduler owes.
\* UploadFile, Get and WriteTo may take any time (ctx has no time-out), or for ever, and
\* conn.Read has no deadline: it waits for the answer as long as the handler does.
HandlerRuns(c) == (CreateTmp(c) \/ WriteTmp(c)) /\ UNCHANGED <<feVars, crashes>>

Runs == (\E s \in Sessions : FrontEnd(s)) \/ (\E c \in DOMAIN h : HandlerRuns(c))

\* Of the goroutines that can run one does.
Spec == Init /\ [][Next]_vars /\ WF_vars(Runs)

-----------------------------------------------------------------------------
(* Properties *)

\* The cid of an answer stands for the content made for this request, and when a back end
\* answers that it has the block its output file is the block, unless it had two
\* connections at a time (main.go:724-748, 770-776).
OwnContent ==
    \A c \in DOMAIN h : h[c].step = "ok" /\ h[c].alone =>
        IF Peer(c) = first THEN h[c].got = [k \in 1 .. h[c].size |-> c[1]]
        ELSE output_tmp_file[Peer(c)] = h[c].got

\* One front end never has two handlers at one back end, whatever breaks: contents mix
\* only after a restart
\* (blockchain_front_end.go:57-59, 180-182, 224-228).
OverlapNeedsRestart ==
    \A c, d \in DOMAIN h :
        c # d /\ Peer(c) = Peer(d) => c[1][1] # d[1][1]

\* A block is committed only after every peer fetched it or answered with an error. The
\* front end does not tell these answers apart (blockchain_front_end.go:56-62, 224-232).
CommitAfterAll ==
    \A b \in committed, p \in Others : <<p, b>> \in answered

\* A handler of the block the session is at is inside a call of the node.
InIpfs(s) == \E c \in DOMAIN h : c[1] = Block(s) /\ h[c].step \in {"upload", "get", "fetch"}

\* Each block a front end began is over, or the front end has left: no answer, error,
\* crash or lost connection leaves conn.Read or wg.Wait waiting, in either loop.  The one
\* thing that does is a call of a node for this very block which never returns
\* (blockchain_front_end.go:33, 54-63, 175-232; main.go:741-778).
BlocksEnd ==
    \A s \in Sessions :
        (pc[s] \in {"add", "get"}) ~> (pc[s] \in {"next", "done", "dead"} \/ []InIpfs(s))
=============================================================================
