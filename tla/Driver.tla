------------------------------- MODULE Driver -------------------------------
(***************************************************************************)
(* The switch of main of local-node/main.go over -c, for the commands that *)
(* add files and replay traces: an Upload, or a TraceUpload on servers of  *)
(* its own and a TraceDownload of what they added.                         *)
(***************************************************************************)
EXTENDS Upload, Sequences

CONSTANTS NumItems, NumServers, Senders, Recorders, MaxRequests, MaxReports, MaxRecords

VARIABLES
    cmd,
    spc, item, mapping, replay, dpc, req, copy, held,
    DownloadedFileSize, ALL_DownloadedFileSize, AvgDownloadLatency,
    RecvFrom, provided, call, log, back,
    loggedSizes, loggedLatencies, reportedRecv, reportedProvided, received, provides, raced

T == INSTANCE TraceReplay

traceVars == <<spc, item, mapping, replay, dpc, req, copy, held,
               DownloadedFileSize, ALL_DownloadedFileSize, AvgDownloadLatency,
               RecvFrom, provided, call, log, back, loggedSizes, loggedLatencies,
               reportedRecv, reportedProvided, received, provides, raced>>
driverVars == <<cmd, vars, traceVars>>

\* The part that is not run has one initial state.
DriverInit ==
    /\ Init /\ T!Init
    /\ \/ /\ cmd = "upload"
          /\ ~replay.enabled /\ replay.n = 1 /\ replay.names = <<0>>
       \/ /\ cmd = "trace"
          /\ flags = [cores |-> 1, redun |-> FALSE, reGenerate |-> FALSE, provide |-> "none"]
          /\ \A i \in Cores : dir[i] = {}

UploadStep(i) == cmd = "upload" /\ sendFunc(i) /\ UNCHANGED <<cmd, traceVars>>

DriverNext ==
    \/ \E i \in Cores : UploadStep(i)
    \/ cmd = "trace" /\ T!Next /\ UNCHANGED <<cmd, vars>>

\* A goroutine of Upload runs while it can.
DriverSpec ==
    DriverInit /\ [][DriverNext]_driverVars /\ \A i \in Cores : WF_driverVars(UploadStep(i))

-----------------------------------------------------------------------------
(* Properties *)

\* Upload returns, whatever fails (main.go:248-344, 356-371).
UploadReturns == cmd = "upload" => <>closed

\* What the reporters of a replay print adds up to what happened, but for what was
\* recorded between a report and its reset (metrics.go:138-157, 509-543).
ReportsAddUp == T!ReportsAddUp

\* The servers of a trace add each of its items exactly once (main.go:550).
EachItemOnce == T!EachItemOnce
=============================================================================
