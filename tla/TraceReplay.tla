---------------------------- MODULE TraceReplay ----------------------------
(***************************************************************************)
(* TraceUpload and TraceDownload of local-node/main.go, and the reporters  *)
(* of metrics.go they start.  Servers share the items of a trace and add   *)
(* them to IPFS; a downloader replays requests for them.  Meanwhile one    *)
(* loop writes PeriodLog, another prints from whom blocks came, and both   *)
(* reset what they read while others add to it without a lock.             *)
(*                                                                         *)
(* A download is its number; DownloadedFileSize and the timers are the     *)
(* sets of downloads they hold.  The range over RecvFrom is one step.      *)
(***************************************************************************)
EXTENDS Integers, Sequences, FiniteSets, Functions

CONSTANTS
    NumItems, NumServers,   \* lines of the trace, servers
    Senders, Recorders,     \* peers that send blocks, goroutines that record them
    MaxRequests,            \* bound: requests of a replay
    MaxReports, MaxRecords  \* bounds: rounds of a reporter, blocks recorded

Items == 0 .. NumItems - 1
Indices == 0 .. NumServers - 1
Downloads == 1 .. MaxRequests

VARIABLES
    spc, item, mapping,     \* server: control point, i, lines of ItemID-CID
    replay,                 \* downloader: [enabled, names, n], its flags and trace
    dpc, req, copy, held,   \* its control point, i, slice and timer it adds to
    DownloadedFileSize, ALL_DownloadedFileSize, AvgDownloadLatency,
    RecvFrom, provided,
    call,                   \* recorder -> call of RecordRecv or RecordProvide
    log, back,              \* the reporters: control point, rounds, what they read
    loggedSizes, loggedLatencies, reportedRecv, reportedProvided,  \* sums of reports (ghost)
    received, provides,     \* calls of RecordRecv and RecordProvide (ghost)
    raced                   \* what was recorded and reported at a time (ghost)

serverVars == <<spc, item, mapping>>
replayVars == <<replay, dpc, req, copy, held, ALL_DownloadedFileSize>>
sizeVars == <<DownloadedFileSize, AvgDownloadLatency>>
recvVars == <<RecvFrom, provided, call, received, provides>>
logVars == <<log, loggedSizes, loggedLatencies>>
backVars == <<back, reportedRecv, reportedProvided>>

Running == dpc \notin {"none", "done", "panic"}
NoCall == [step |-> "none", from |-> {}, val |-> 0]
None == [p \in Senders |-> 0]

Init ==
    /\ spc = [k \in Indices |-> "upload"] /\ item = [k \in Indices |-> 0]
    /\ mapping = [k \in Indices |-> {}]
    /\ replay \in [enabled : BOOLEAN, names : UNION {[1 .. l -> Items] : l \in Downloads},
                   n : Downloads]
    /\ dpc = "none" /\ req = 1 /\ copy = {} /\ held = 0
    /\ DownloadedFileSize = {} /\ ALL_DownloadedFileSize = {} /\ AvgDownloadLatency = {}
    /\ RecvFrom = None /\ provided = 0
    /\ call = [g \in Recorders |-> NoCall]
    /\ log = [pc |-> "sum", rounds |-> 0, sizes |-> {}]
    /\ back = [pc |-> "range", rounds |-> 0]
    /\ loggedSizes = [d \in Downloads |-> 0] /\ loggedLatencies = 0
    /\ reportedRecv = None /\ reportedProvided = 0
    /\ received = None /\ provides = 0 /\ raced = {}

-----------------------------------------------------------------------------
(* TraceUpload: server k adds the items i with i % servers = k. *)

Server(k, to, added) ==
    /\ spc' = [spc EXCEPT ![k] = to]
    /\ item' = [item EXCEPT ![k] = @ + 1]
    /\ mapping' = [mapping EXCEPT ![k] = @ \cup added]
    /\ UNCHANGED <<replayVars, sizeVars, recvVars, logVars, backVars, raced>>

SkipItem(k) ==
    /\ spc[k] = "upload" /\ item[k] < NumItems /\ item[k] % NumServers # k
    /\ Server(k, "upload", {})

UploadItem(k) ==
    /\ spc[k] = "upload" /\ item[k] < NumItems /\ item[k] % NumServers = k
    /\ Server(k, "upload", {item[k]})

\* The file or the line cannot be written; after an error of UploadFile cid is nil, and
\* cid.String() panics.
UploadItemFails(k) ==
    /\ spc[k] = "upload" /\ item[k] < NumItems /\ item[k] % NumServers = k
    /\ Server(k, "failed", {})

\* The server stays up until it is interrupted.
EndTraceUpload(k) ==
    /\ spc[k] = "upload" /\ item[k] = NumItems
    /\ Server(k, "stall", {})

-----------------------------------------------------------------------------
(* TraceDownload *)

ItemCid == UNION {mapping[k] : k \in Indices}

DownGoto(to) == dpc' = to /\ UNCHANGED <<replay, serverVars, recvVars, logVars, backVars>>

Race(what, happens) == raced' = IF happens THEN raced \cup {what} ELSE raced

\* The lists of all servers are put together before. The reporters start.
BeginReplay ==
    /\ dpc = "none" /\ \A k \in Indices : spc[k] # "upload"
    /\ DownGoto("get")
    /\ UNCHANGED <<req, copy, held, ALL_DownloadedFileSize, sizeVars, raced>>

\* BDMonitor and GetNode exist only with -enablemetrics; -dn may ask for more requests
\* than the trace has; an item may have no cid; and every error panics.
Get ==
    /\ dpc = "get" /\ req <= replay.n
    /\ \/ DownGoto("panic")
       \/ /\ replay.enabled
          /\ req <= Len(replay.names) /\ replay.names[req] \in ItemCid
          /\ DownGoto("load")
    /\ UNCHANGED <<req, copy, held, ALL_DownloadedFileSize, sizeVars, raced>>

\* DownloadedFileSize = append(DownloadedFileSize, size)
LoadSizes ==
    /\ dpc = "load"
    /\ copy' = DownloadedFileSize
    /\ DownGoto("append")
    /\ UNCHANGED <<req, held, ALL_DownloadedFileSize, sizeVars, raced>>

StoreSizes ==
    /\ dpc = "append"
    /\ DownloadedFileSize' = copy \cup {req}
    /\ copy' = {}
    /\ DownGoto("timer")
    /\ Race("sizes", log.pc \in {"line", "reset"})
    /\ UNCHANGED <<req, held, ALL_DownloadedFileSize, AvgDownloadLatency>>

\* AvgDownloadLatency.UpdateSince(start): the timer is fetched, and updated; timers are
\* numbered by the rounds of the reporter.
LoadTimer ==
    /\ dpc = "timer"
    /\ held' = log.rounds
    /\ DownGoto("update")
    /\ UNCHANGED <<req, copy, ALL_DownloadedFileSize, sizeVars, raced>>

UpdateTimer ==
    /\ dpc = "update"
    /\ AvgDownloadLatency' = IF held = log.rounds THEN AvgDownloadLatency \cup {req}
                             ELSE AvgDownloadLatency
    /\ DownGoto("all")
    /\ Race("latencies", held # log.rounds \/ log.pc \in {"reset", "timer"})
    /\ UNCHANGED <<req, copy, held, ALL_DownloadedFileSize, DownloadedFileSize>>

AppendAll ==
    /\ dpc = "all"
    /\ ALL_DownloadedFileSize' = ALL_DownloadedFileSize \cup {req}
    /\ req' = req + 1
    /\ held' = 0
    /\ DownGoto("get")
    /\ UNCHANGED <<copy, sizeVars, raced>>

\* The totals are printed, and the program ends.
EndReplay ==
    /\ dpc = "get" /\ req > replay.n
    /\ DownGoto("done")
    /\ UNCHANGED <<req, copy, held, ALL_DownloadedFileSize, sizeVars, raced>>

TraceDownload ==
    \/ BeginReplay \/ Get \/ LoadSizes \/ StoreSizes \/ LoadTimer \/ UpdateTimer \/ AppendAll
    \/ EndReplay

-----------------------------------------------------------------------------
(* The loop that writes PeriodLog (TraceDownMetricsInit) *)

LogGoto(to) == log' = [log EXCEPT !.pc = to]

LogSum ==
    /\ log.pc = "sum" /\ log.rounds < MaxReports
    /\ log' = [log EXCEPT !.pc = "line", !.sizes = DownloadedFileSize]
    /\ UNCHANGED <<sizeVars, loggedSizes, loggedLatencies, raced>>

LogLine ==
    /\ log.pc = "line"
    /\ loggedSizes' = [d \in Downloads |-> loggedSizes[d] + IF d \in log.sizes THEN 1 ELSE 0]
    /\ loggedLatencies' = loggedLatencies + Cardinality(AvgDownloadLatency)
    /\ LogGoto("reset")
    /\ UNCHANGED <<sizeVars, raced>>

BugKeepsSizes ==
    /\ log.pc = "reset"
    /\ LogGoto("timer")
    /\ Race("sizes", dpc = "append")
    /\ UNCHANGED <<sizeVars, loggedSizes, loggedLatencies>>

ResetSizes ==
    /\ log.pc = "reset"
    /\ DownloadedFileSize' = {}
    /\ LogGoto("timer")
    /\ Race("sizes", dpc = "append")
    /\ UNCHANGED <<AvgDownloadLatency, loggedSizes, loggedLatencies>>

NewLatencyTimer ==
    /\ log.pc = "timer"
    /\ AvgDownloadLatency' = {}
    /\ log' = [pc |-> "sum", rounds |-> log.rounds + 1, sizes |-> {}]
    /\ UNCHANGED <<DownloadedFileSize, loggedSizes, loggedLatencies, raced>>

PeriodLog ==
    /\ Running
    /\ LogSum \/ LogLine \/ ResetSizes \/ NewLatencyTimer
    /\ UNCHANGED <<serverVars, replayVars, recvVars, backVars>>

-----------------------------------------------------------------------------
(* RecordRecv, called by bitswap, and RecordProvide, called by the routing *)

Calls(what) == {g \in Recorders : call[g].step = what}

\* The bound on the calls.
MayCall(g) == call[g] = NoCall /\ FoldFunction(+, provides, received) < MaxRecords

LoadRecv(g, p) ==
    /\ MayCall(g)
    /\ call' = [call EXCEPT ![g] = [step |-> "recv", from |-> {p}, val |-> RecvFrom[p]]]
    /\ received' = [received EXCEPT ![p] = @ + 1]
    /\ Race("recv", \E o \in Calls("recv") : call[o].from = {p})
    /\ UNCHANGED <<RecvFrom, provided, provides>>

BugIncTwice(g, p) ==
    /\ call[g].step = "recv" /\ call[g].from = {p}
    /\ RecvFrom' = [RecvFrom EXCEPT ![p] = call[g].val + 2]
    /\ call' = [call EXCEPT ![g] = NoCall]
    /\ Race("recv", back.pc = "replace")
    /\ UNCHANGED <<provided, received, provides>>

StoreRecv(g, p) ==
    /\ call[g].step = "recv" /\ call[g].from = {p}
    /\ RecvFrom' = [RecvFrom EXCEPT ![p] = call[g].val + 1]
    /\ call' = [call EXCEPT ![g] = NoCall]
    /\ Race("recv", back.pc = "replace")
    /\ UNCHANGED <<provided, received, provides>>

LoadProvided(g) ==
    /\ MayCall(g)
    /\ call' = [call EXCEPT ![g] = [step |-> "provide", from |-> {}, val |-> provided]]
    /\ provides' = provides + 1
    /\ Race("provide", Calls("provide") # {})
    /\ UNCHANGED <<RecvFrom, provided, received>>

StoreProvided(g) ==
    /\ call[g].step = "provide"
    /\ provided' = call[g].val + 1
    /\ call' = [call EXCEPT ![g] = NoCall]
    /\ Race("provide", back.pc = "zero")
    /\ UNCHANGED <<RecvFrom, received, provides>>

Record ==
    /\ Running
    /\ \E g \in Recorders :
          \/ \E p \in Senders : LoadRecv(g, p) \/ StoreRecv(g, p)
          \/ LoadProvided(g) \/ StoreProvided(g)
    /\ UNCHANGED <<serverVars, replayVars, sizeVars, logVars, backVars>>

-----------------------------------------------------------------------------
(* The loop of StartBackReport *)

ReportRecv ==
    /\ back.pc = "range" /\ back.rounds < MaxReports
    /\ reportedRecv' = [p \in Senders |-> reportedRecv[p] + RecvFrom[p]]
    /\ back' = [back EXCEPT !.pc = "replace"]
    /\ UNCHANGED <<replayVars, recvVars, reportedProvided, raced>>

\* RecvFrom = sync.Map{}
ReplaceRecvFrom ==
    /\ back.pc = "replace"
    /\ RecvFrom' = None
    /\ back' = [back EXCEPT !.pc = "print"]
    /\ Race("recv", Calls("recv") # {})
    /\ UNCHANGED <<replayVars, provided, call, received, provides, reportedRecv, reportedProvided>>

\* The map is replaced with its mutex: when a Store holds it, its Unlock is fatal.
ReplaceLocked ==
    /\ back.pc = "replace" /\ Calls("recv") # {}
    /\ dpc' = "panic"
    /\ UNCHANGED <<replay, req, copy, held, ALL_DownloadedFileSize, recvVars, backVars, raced>>

ReportProvided ==
    /\ back.pc = "print"
    /\ reportedProvided' = reportedProvided + provided
    /\ back' = [back EXCEPT !.pc = "zero"]
    /\ UNCHANGED <<replayVars, recvVars, reportedRecv, raced>>

ZeroProvided ==
    /\ back.pc = "zero"
    /\ provided' = 0
    /\ back' = [pc |-> "range", rounds |-> back.rounds + 1]
    /\ Race("provide", Calls("provide") # {})
    /\ UNCHANGED <<replayVars, RecvFrom, call, received, provides, reportedRecv, reportedProvided>>

BackReport ==
    /\ Running
    /\ ReportRecv \/ ReplaceRecvFrom \/ ReplaceLocked \/ ReportProvided \/ ZeroProvided
    /\ UNCHANGED <<serverVars, sizeVars, logVars>>

Next ==
    \/ \E k \in Indices : SkipItem(k) \/ UploadItem(k) \/ UploadItemFails(k) \/ EndTraceUpload(k)
    \/ TraceDownload \/ PeriodLog \/ Record \/ BackReport

vars == <<serverVars, replayVars, sizeVars, recvVars, logVars, backVars, raced>>

Spec == Init /\ [][Next]_vars

-----------------------------------------------------------------------------
(* Properties *)

\* Downloads whose size, and whose latency, was recorded.
Sized == 1 .. IF dpc \in {"timer", "update", "all"} THEN req ELSE req - 1
Timed == 1 .. IF dpc = "all" THEN req ELSE req - 1

\* While no size is recorded between a report and the reset that follows it, each size is
\* reported once; the same of the latencies, the blocks and the provides, each kind by
\* itself. Whatever is recorded in between, no latency is reported twice (a size may be),
\* and the totals of the end are exact (metrics.go:138-157, 509-543, main.go:672-675).
ReportsAddUp ==
    /\ log.pc = "sum" /\ dpc # "panic" /\ "sizes" \notin raced =>
          \A d \in Downloads :
              loggedSizes[d] + (IF d \in DownloadedFileSize THEN 1 ELSE 0)
                  = IF d \in Sized THEN 1 ELSE 0
    /\ log.pc = "sum" /\ dpc # "panic" =>
          /\ loggedLatencies + Cardinality(AvgDownloadLatency) <= Cardinality(Timed)
          /\ "latencies" \notin raced =>
                loggedLatencies + Cardinality(AvgDownloadLatency) = Cardinality(Timed)
    /\ back.pc = "range" /\ Calls("recv") = {} /\ "recv" \notin raced =>
          \A p \in Senders : reportedRecv[p] + RecvFrom[p] = received[p]
    /\ back.pc = "range" /\ Calls("provide") = {} /\ "provide" \notin raced =>
          reportedProvided + provided = provides
    /\ dpc = "done" => ALL_DownloadedFileSize = 1 .. replay.n

\* Of the servers of a trace that end without an error, each item is added by exactly one
\* (main.go:550): the lists put together give every item its cid.
EachItemOnce ==
    /\ \A k, o \in Indices : k # o => mapping[k] \cap mapping[o] = {}
    /\ (\A k \in Indices : spc[k] = "stall") => ItemCid = Items
=============================================================================
