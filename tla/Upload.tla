------------------------------- MODULE Upload -------------------------------
(***************************************************************************)
(* Upload of local-node/main.go: one goroutine per core generates files in *)
(* a directory of its own and adds them to IPFS; the main goroutine counts *)
(* the cores that reported on stallchan and closes the list of cids.  The  *)
(* durations of an UploadFile are package variables of metrics, added to   *)
(* and reset by all goroutines, and TimersInit replaces the timers they    *)
(* end in.  Metrics are enabled; FlatfsHasDura and FlatfsPutDura, treated  *)
(* like PersistDura, are left out.                                         *)
(*                                                                         *)
(* A file is its number, 0 the sub-file "temp" of the redundancy option.   *)
(* An Add costs 1, one more to persist, and one more to provide.           *)
(***************************************************************************)
EXTENDS Integers, FiniteSets

CONSTANTS
    MaxCores,       \* cores are 1 to MaxCores (bound)
    number          \* number of files asked for

ASSUME UploadAssumption == MaxCores \in Nat \ {0} /\ number \in Nat

temp == 0
Cores == 0 .. MaxCores - 1
Files == {temp, 1} \cup 1 .. number      \* those a core may find or generate
Zero == [add |-> 0, provide |-> 0, persist |-> 0]

VARIABLES
    flags,              \* the command line
    pc, dir, todo,      \* core: control point, files of tempDir, files to upload
    firstupload,
    up,                 \* its UploadFile
    stalls, closed,     \* main goroutine: cores to wait for, cidFile is closed
    Dura,               \* metrics.AddDura, ProvideDura, PersistDura
    AddTimer,           \* number of durations in metrics.AddTimer
    listed,             \* lines of the cid file: <<core, file>> -> number
    failed,             \* cores that stopped at an error (ghost)
    uploads,            \* uploads of the second loop that ended (ghost)
    lone                \* cores whose UploadFile overlapped no other (ghost)

mainVars == <<flags, stalls, closed>>
dirVars == <<dir, todo, firstupload>>
upVars == <<up, Dura, AddTimer, lone>>
vars == <<mainVars, pc, dirVars, upVars, listed, failed, uploads>>

coreNumber == flags.cores
PerCore == number \div coreNumber
Running == 0 .. coreNumber - 1

NoUpload == [step |-> "none", provide |-> FALSE, ok |-> TRUE, read |-> 0, reported |-> Zero]
Uploading(i) == up[i].step \notin {"none", "returned"}

Init ==
    /\ flags \in [cores : 1 .. MaxCores, redun : BOOLEAN, reGenerate : BOOLEAN,
                  provide : {"none", "first", "each"}]
    /\ pc = [i \in Cores |-> IF i < flags.cores THEN "start" ELSE "none"]
    /\ \E old \in SUBSET {temp, 1} : dir = [i \in Cores |-> old]
    /\ todo = [i \in Cores |-> {}]
    /\ firstupload = [i \in Cores |-> TRUE]
    /\ up = [i \in Cores |-> NoUpload]
    /\ stalls = flags.cores /\ closed = FALSE
    /\ Dura = Zero
    /\ AddTimer = 0
    /\ listed = [x \in Cores \X Files |-> 0]
    /\ failed = {} /\ uploads = 0 /\ lone = {}

Goto(i, to) == pc' = [pc EXCEPT ![i] = to]

-----------------------------------------------------------------------------
(* UploadFile, called at "sub" and at "real" *)

Call(i, provide) ==
    /\ up' = [up EXCEPT ![i] = [NoUpload EXCEPT !.step = "add", !.provide = provide]]
    /\ lone' = IF \E o \in Cores \ {i} : Uploading(o)
               THEN {o \in lone \ {i} : ~Uploading(o)} ELSE lone \cup {i}
    /\ UNCHANGED <<Dura, AddTimer>>

\* The time an Add takes, and what go-ipfs adds to the package variables meanwhile.
Cost(i) ==
    LET provide == IF up[i].provide THEN 1 ELSE 0
    IN [add |-> 2 + provide, provide |-> provide, persist |-> 1]

Add(i) ==
    /\ up[i].step = "add"
    /\ up' = [up EXCEPT ![i].step = "load"]
    /\ Dura' = [Dura EXCEPT !.provide = @ + Cost(i).provide, !.persist = @ + 1]
    /\ UNCHANGED <<AddTimer, lone>>

\* The file cannot be read, or Add fails before or after it wrote.
AddFails(i) ==
    /\ up[i].step = "add"
    /\ up' = [up EXCEPT ![i].step = "report", ![i].ok = FALSE]
    /\ \E wrote \in {0, 1} : Dura' = [Dura EXCEPT !.persist = @ + wrote]
    /\ UNCHANGED <<AddTimer, lone>>

\* metrics.AddDura += ...
LoadAddDura(i) ==
    /\ up[i].step = "load"
    /\ up' = [up EXCEPT ![i].step = "store", ![i].read = Dura.add]
    /\ UNCHANGED <<Dura, AddTimer, lone>>

StoreAddDura(i) ==
    /\ up[i].step = "store"
    /\ up' = [up EXCEPT ![i].step = "report"]
    /\ Dura' = [Dura EXCEPT !.add = up[i].read + Cost(i).add]
    /\ UNCHANGED <<AddTimer, lone>>

\* The deferred function: update the timers ...
Report(i) ==
    /\ up[i].step = "report"
    /\ up' = [up EXCEPT ![i].step = "reset", ![i].reported = Dura]
    /\ AddTimer' = AddTimer + 1
    /\ UNCHANGED <<Dura, lone>>

BugForgetsProvide(i) ==
    /\ up[i].step = "reset"
    /\ up' = [up EXCEPT ![i].step = "returned"]
    /\ Dura' = [Zero EXCEPT !.provide = Dura.provide]
    /\ UNCHANGED <<AddTimer, lone>>

\* ... and set the durations to 0.
Reset(i) ==
    /\ up[i].step = "reset"
    /\ up' = [up EXCEPT ![i].step = "returned"]
    /\ Dura' = Zero
    /\ UNCHANGED <<AddTimer, lone>>

UploadFile(i) ==
    /\ Add(i) \/ AddFails(i) \/ LoadAddDura(i) \/ StoreAddDura(i) \/ Report(i) \/ Reset(i)
    /\ UNCHANGED <<mainVars, pc, dirVars, listed, failed, uploads>>

Returned(i) == up[i].step = "returned" /\ up' = [up EXCEPT ![i] = NoUpload]

-----------------------------------------------------------------------------
(* sendFunc *)

\* Any error: print it, stallchan <- i, return.
Fail(i) ==
    /\ Goto(i, "send")
    /\ failed' = failed \cup {i}

\* RemoveAll and MkdirAll.
Prepare(i) ==
    /\ pc[i] = "start"
    /\ \/ ~flags.reGenerate /\ Goto(i, "init") /\ UNCHANGED <<dir, failed>>
       \/ /\ flags.reGenerate
          /\ dir' = [dir EXCEPT ![i] = {}]
          /\ Goto(i, "generate") /\ UNCHANGED failed
       \/ flags.reGenerate /\ Fail(i) /\ UNCHANGED dir
    /\ UNCHANGED <<mainVars, todo, firstupload, upVars, listed, uploads>>

Generated(i) == Cardinality(dir[i] \ {temp})

EndGenerate(i) ==
    /\ pc[i] = "generate" /\ Generated(i) = PerCore
    /\ Goto(i, "init")
    /\ UNCHANGED <<mainVars, dirVars, upVars, listed, failed, uploads>>

\* The first part of the content is written to temp and uploaded.
UploadSub(i) ==
    /\ pc[i] = "generate" /\ Generated(i) < PerCore
    /\ flags.redun
    /\ dir' = [dir EXCEPT ![i] = @ \cup {temp}]
    /\ Goto(i, "sub")
    /\ Call(i, flags.provide = "each")
    /\ UNCHANGED <<mainVars, todo, firstupload, listed, failed, uploads>>

EndSub(i) ==
    /\ pc[i] = "sub"
    /\ Returned(i)
    /\ IF up[i].ok THEN Goto(i, "write") /\ UNCHANGED failed ELSE Fail(i)
    /\ UNCHANGED <<mainVars, dirVars, Dura, AddTimer, lone, listed, uploads>>

WriteFile(i) ==
    /\ \/ pc[i] = "write"
       \/ pc[i] = "generate" /\ ~flags.redun /\ Generated(i) < PerCore
    /\ dir' = [dir EXCEPT ![i] = @ \cup {Generated(i) + 1}]
    /\ Goto(i, "generate")
    /\ UNCHANGED <<mainVars, todo, firstupload, upVars, listed, failed, uploads>>

WriteFails(i) ==
    /\ pc[i] = "write" \/ (pc[i] = "generate" /\ Generated(i) < PerCore)
    /\ Fail(i)
    /\ UNCHANGED <<mainVars, dirVars, upVars, listed, uploads>>

BugTimersNotInit(i) ==
    /\ pc[i] = "init"
    /\ Goto(i, "readdir")
    /\ UNCHANGED <<mainVars, dirVars, upVars, listed, failed, uploads>>

\* TimersInit replaces all timers, for every goroutine of the process.
TimersInit(i) ==
    /\ pc[i] = "init"
    /\ AddTimer' = IF flags.redun THEN 0 ELSE AddTimer
    /\ Goto(i, "readdir")
    /\ UNCHANGED <<mainVars, dirVars, up, Dura, lone, listed, failed, uploads>>

ReadDir(i) ==
    /\ pc[i] = "readdir"
    /\ todo' = [todo EXCEPT ![i] = dir[i]]
    /\ Goto(i, "next")
    /\ UNCHANGED <<mainVars, dir, firstupload, upVars, listed, failed, uploads>>

BugReturnsSilently(i) ==
    /\ pc[i] = "readdir"
    /\ Goto(i, "gone")
    /\ failed' = failed \cup {i}
    /\ UNCHANGED <<mainVars, dirVars, upVars, listed, uploads>>

\* There is no directory.
ReadDirFails(i) ==
    /\ pc[i] = "readdir"
    /\ Fail(i)
    /\ UNCHANGED <<mainVars, dirVars, upVars, listed, uploads>>

\* The names are random, so the order of the files is.
UploadNext(i) ==
    /\ pc[i] = "next"
    /\ todo[i] # {}
    /\ Goto(i, "real")
    /\ LET provide == flags.provide = "each" \/ (flags.provide = "first" /\ firstupload[i])
       IN /\ Call(i, provide)
          /\ firstupload' = [firstupload EXCEPT ![i] =
                               @ /\ ~(flags.provide = "first" /\ provide)]
    /\ UNCHANGED <<mainVars, dir, todo, listed, failed, uploads>>

BugNextAnyway(i) ==
    /\ pc[i] = "real"
    /\ Returned(i)
    /\ uploads' = uploads + 1
    /\ \E f \in todo[i] :
          /\ todo' = [todo EXCEPT ![i] = @ \ {f}]
          /\ listed' = IF up[i].ok THEN [listed EXCEPT ![<<i, f>>] = @ + 1] ELSE listed
    /\ Goto(i, "next")
    /\ UNCHANGED <<mainVars, dir, firstupload, Dura, AddTimer, lone, failed>>

\* The cid is written to the list; an error of the upload or the write ends the core.
EndUpload(i) ==
    /\ pc[i] = "real"
    /\ Returned(i)
    /\ uploads' = uploads + 1
    /\ \/ \E f \in todo[i] :
             /\ up[i].ok
             /\ todo' = [todo EXCEPT ![i] = @ \ {f}]
             /\ listed' = [listed EXCEPT ![<<i, f>>] = @ + 1]
             /\ Goto(i, "next")
             /\ UNCHANGED failed
       \/ Fail(i) /\ UNCHANGED <<todo, listed>>
    /\ UNCHANGED <<mainVars, dir, firstupload, Dura, AddTimer, lone>>

EndLoop(i) ==
    /\ pc[i] = "next" /\ todo[i] = {}
    /\ Goto(i, "send")
    /\ UNCHANGED <<mainVars, dirVars, upVars, listed, failed, uploads>>

BugSendsTwice(i) ==
    /\ pc[i] = "send" /\ ~closed
    /\ \/ Goto(i, "done")
       \/ i \in failed /\ Goto(i, "send")
    /\ stalls' = stalls - 1
    /\ closed' = (stalls <= 1)
    /\ UNCHANGED <<flags, dirVars, upVars, listed, failed, uploads>>

\* stallchan <- i meets the loop of Upload, which closes cidFile after the last.
Stall(i) ==
    /\ pc[i] = "send" /\ ~closed
    /\ Goto(i, "done")
    /\ stalls' = stalls - 1
    /\ closed' = (stalls <= 1)
    /\ UNCHANGED <<flags, dirVars, upVars, listed, failed, uploads>>

sendFunc(i) ==
    \/ Prepare(i) \/ EndGenerate(i) \/ UploadSub(i) \/ EndSub(i) \/ WriteFile(i) \/ WriteFails(i)
    \/ TimersInit(i) \/ ReadDir(i) \/ ReadDirFails(i)
    \/ UploadNext(i) \/ EndUpload(i) \/ EndLoop(i) \/ UploadFile(i) \/ Stall(i)

Next == \E i \in Cores : sendFunc(i)

-----------------------------------------------------------------------------
(* Properties *)

\* Upload returns, and closes the list of cids, only when every core has ended, however it
\* ended; no file is listed twice, and a core that met no error listed all of its files:
\* those it generated and those it found (main.go:266-345, 351-372).
ListedOnce ==
    /\ \A x \in DOMAIN listed : listed[x] <= 1
    /\ closed => \A i \in Running : pc[i] = "done"
    /\ closed => \A i \in Running \ failed :
          \A f \in dir[i] \cup (IF flags.reGenerate THEN 1 .. PerCore ELSE {}) :
              listed[<<i, f>>] = 1

\* An upload that overlapped no other reports its own durations: nothing is left from the
\* additions and resets of earlier uploads, however they interleaved. One that failed
\* reports no time of Add, so that Dag is negative (main.go:195-235).
LoneUploadExact ==
    \A i \in lone :
        up[i].step = "reset" =>
            IF up[i].ok THEN up[i].reported = Cost(i)
            ELSE up[i].reported.add = 0 /\ up[i].reported.provide = 0

\* At the end AddTimer, from which the report is made, holds as many durations as uploads of
\* the second loop ended, temp among them.  With the redundancy option the sub-files never
\* count, if no core failed; but TimersInit of one core may drop what another has uploaded
\* (main.go:299-302).
CountsRealUploads ==
    closed =>
        /\ ~flags.redun \/ (coreNumber = 1 /\ failed = {}) => AddTimer = uploads
        /\ failed = {} => AddTimer <= uploads
==============================================================================
