---------------------------- MODULE DriverProofs ----------------------------
(***************************************************************************)
(* The servers of a trace share its items without gap or overlap.  Upload  *)
(* lists each file once, and its timer and durations are those of its own  *)
(* uploads.  What the reporters of a replay print adds up to what happened *)
(* but for the races the model names.  For any numbers of items, servers,  *)
(* cores, files, recorders and requests, and whatever overlaps.            *)
(***************************************************************************)
EXTENDS Driver, TLAPS, FiniteSetTheorems

Share(k) == {i \in T!Items : i % NumServers = k}

\* A server has added what it passed of its share, and all of it when it is through.
ShareInv ==
    /\ spc \in [T!Indices -> {"upload", "failed", "stall"}]
    /\ item \in [T!Indices -> Nat]
    /\ mapping \in [T!Indices -> SUBSET T!Items]
    /\ \A k \in T!Indices :
          /\ mapping[k] \subseteq Share(k)
          /\ spc[k] = "upload" => \A i \in Share(k) : i < item[k] => i \in mapping[k]
          /\ spc[k] = "stall" => Share(k) \subseteq mapping[k]

LEMMA ShareInit == DriverInit => ShareInv
  BY DEF DriverInit, T!Init, ShareInv, T!Items, Share

\* Only servers write the lists, and they go through the items in order.
LEMMA ReplayStep ==
    ASSUME NumItems \in Nat, ShareInv, T!Next
    PROVE  ShareInv'
<1> USE DEF ShareInv
<1>1. CASE UNCHANGED T!serverVars
  BY <1>1 DEF T!serverVars, Share
<1>2. ASSUME NEW k \in T!Indices, T!SkipItem(k) PROVE ShareInv'
  BY <1>2 DEF T!SkipItem, T!Server, Share, T!Items
<1>3. ASSUME NEW k \in T!Indices, T!UploadItem(k) PROVE ShareInv'
  <2>1. item[k] \in Share(k)
    BY <1>3 DEF T!UploadItem, Share, T!Items
  <2> QED
    BY <1>3, <2>1 DEF T!UploadItem, T!Server, Share, T!Items
<1>4. ASSUME NEW k \in T!Indices, T!UploadItemFails(k) PROVE ShareInv'
  BY <1>4 DEF T!UploadItemFails, T!Server, Share
<1>5. ASSUME NEW k \in T!Indices, T!EndTraceUpload(k) PROVE ShareInv'
  <2>1. \A i \in Share(k) : i < item[k]
    BY <1>5 DEF T!EndTraceUpload, Share, T!Items
  <2> QED
    BY <1>5, <2>1 DEF T!EndTraceUpload, T!Server, Share
<1>6. CASE T!TraceDownload
  BY <1>1, <1>6 DEF T!TraceDownload, T!DownGoto, T!BeginReplay, T!Get, T!LoadSizes,
                    T!StoreSizes, T!LoadTimer, T!UpdateTimer, T!AppendAll, T!EndReplay
<1>7. CASE T!PeriodLog \/ T!Record \/ T!BackReport
  BY <1>1, <1>7 DEF T!PeriodLog, T!Record, T!BackReport
<1> QED
  BY <1>2, <1>3, <1>4, <1>5, <1>6, <1>7 DEF T!Next

\* Uploads leave the replay alone.
LEMMA ShareStep ==
    ASSUME NumItems \in Nat, ShareInv, [DriverNext]_driverVars
    PROVE  ShareInv'
<1>1. CASE UNCHANGED traceVars
  BY <1>1 DEF traceVars, ShareInv, Share
<1>2. CASE UNCHANGED driverVars
  BY <1>1, <1>2 DEF driverVars
<1> QED
  BY <1>1, <1>2, ReplayStep DEF DriverNext, UploadStep

\* Every item is in the share of a server.
LEMMA SharesCover ==
    ASSUME NumItems \in Nat, NumServers \in Nat \ {0}
    PROVE  \A i \in T!Items : i % NumServers \in T!Indices
<1>1. \A i, n \in Nat : n # 0 => i % n \in 0 .. n - 1
  OBVIOUS
<1> QED
  BY <1>1 DEF T!Items, T!Indices

\* Theorem: the lists of the servers of a trace have no item in common, and together all
\* of them when no server failed (main.go:545-577).
THEOREM ItemsAddedOnce ==
    ASSUME NumItems \in Nat, NumServers \in Nat \ {0}
    PROVE  DriverSpec => []EachItemOnce
<1>1. ShareInv => EachItemOnce
  <2> SUFFICES ASSUME ShareInv PROVE T!EachItemOnce
    BY DEF EachItemOnce
  <2>1. \A k, o \in T!Indices : k # o => mapping[k] \cap mapping[o] = {}
    BY DEF ShareInv, Share
  <2>2. ASSUME \A k \in T!Indices : spc[k] = "stall" PROVE T!ItemCid = T!Items
    <3>1. \A i \in T!Items : i \in mapping[i % NumServers]
      BY <2>2, SharesCover DEF ShareInv, Share
    <3>2. \A k \in T!Indices : mapping[k] \subseteq T!Items
      BY DEF ShareInv
    <3> QED
      BY <3>1, <3>2, SharesCover DEF T!ItemCid
  <2> QED
    BY <2>1, <2>2 DEF T!EachItemOnce
<1>2. ShareInv /\ [DriverNext]_driverVars => ShareInv'
  BY ShareStep
<1> QED
  BY <1>1, <1>2, ShareInit, PTL DEF DriverSpec

-----------------------------------------------------------------------------
(* Upload *)

Points == {"none", "start", "generate", "sub", "write", "init", "readdir", "next", "real",
           "send", "done"}
Steps == {"none", "add", "load", "store", "report", "reset", "returned"}
Durations == [add : Nat, provide : Nat, persist : Nat]

UploadType ==
    /\ flags \in [cores : 1 .. MaxCores, redun : BOOLEAN, reGenerate : BOOLEAN,
                  provide : {"none", "first", "each"}]
    /\ pc \in [Cores -> Points]
    /\ dir \in [Cores -> SUBSET Files] /\ todo \in [Cores -> SUBSET Files]
    /\ up \in [Cores -> [step : Steps, provide : BOOLEAN, ok : BOOLEAN, read : Nat,
                         reported : Durations]]
    /\ stalls \in Int /\ closed \in BOOLEAN
    /\ Dura \in Durations
    /\ AddTimer \in Nat /\ uploads \in Nat
    /\ listed \in [Cores \X Files -> Nat]
    /\ failed \subseteq Cores /\ lone \subseteq Cores

\* The cores the main goroutine waits for; a core is in an UploadFile at two points.
Unreported == {i \in Running : pc[i] # "done"}
StallInv ==
    /\ \A i \in Cores : pc[i] # "none" <=> i \in Running
    /\ \A i \in Cores : up[i].step # "none" <=> pc[i] \in {"sub", "real"}
    /\ \A i \in failed : pc[i] \in {"send", "done"}
    /\ closed => Unreported = {}
    /\ ~closed => stalls = Cardinality(Unreported)

\* The directory of a core that generates holds the files it has generated.
DirInv ==
    \A i \in Cores :
       /\ pc[i] \in {"generate", "sub", "write"} =>
             \E n \in 0 .. PerCore : /\ dir[i] \ {temp} = 1 .. n
                                     /\ pc[i] # "generate" => n < PerCore
       /\ pc[i] \in {"init", "readdir", "next", "real", "send", "done"} =>
             (flags.reGenerate /\ i \notin failed => 1 .. PerCore \subseteq dir[i])

\* A file is to be uploaded or listed, once the directory was read.
ListInv ==
    \A i \in Cores :
       /\ todo[i] \subseteq dir[i]
       /\ \A f \in Files : /\ listed[<<i, f>>] <= 1
                           /\ f \in todo[i] => listed[<<i, f>>] = 0
       /\ pc[i] \in {"start", "generate", "sub", "write", "init", "readdir"} =>
             todo[i] = {} /\ \A f \in Files : listed[<<i, f>>] = 0
       /\ pc[i] \in {"next", "real", "send", "done"} /\ i \notin failed =>
             \A f \in dir[i] : f \in todo[i] \/ listed[<<i, f>>] = 1
       /\ pc[i] \in {"send", "done"} /\ i \notin failed => todo[i] = {}

\* While an upload is alone, the durations are its own from the start; when none is
\* under way, the last of them has reset them.
Alone(i) ==
    /\ Uploading(i) => \A o \in Cores \ {i} : ~Uploading(o)
    /\ up[i].step = "add" => Dura = Zero
    /\ up[i].step \in {"load", "store"} =>
          Dura.add = 0 /\ Dura.provide = Cost(i).provide /\ Dura.persist = 1
    /\ up[i].step = "store" => up[i].read = 0
    /\ up[i].step = "report" =>
          IF up[i].ok THEN Dura = Cost(i) ELSE Dura.add = 0 /\ Dura.provide = 0
    /\ up[i].step = "reset" =>
          IF up[i].ok THEN up[i].reported = Cost(i)
          ELSE up[i].reported.add = 0 /\ up[i].reported.provide = 0
LoneInv ==
    /\ (\A i \in Cores : ~Uploading(i)) => Dura = Zero
    /\ \A i \in Cores : up[i].step \in {"add", "load", "store"} => up[i].ok
    /\ \A i \in lone : Alone(i)

\* Uploads that are in the timer, and not yet among those that ended.
Ending == {i \in Cores : pc[i] = "real" /\ up[i].step \in {"reset", "returned"}}
Before == {"start", "generate", "sub", "write", "init"}
Exactly == ~flags.redun \/ (coreNumber = 1 /\ 0 \notin failed /\ pc[0] \notin Before)
\* All cores are behind their TimersInit, and behind the uploads of sub-files.
PastInit == failed = {} /\ \A i \in Cores : pc[i] \notin Before
TimerInv ==
    /\ ~flags.redun => \A i \in Cores : pc[i] # "sub"
    /\ coreNumber = 1 /\ pc[0] \in Before => uploads = 0
    /\ Exactly => AddTimer = uploads + Cardinality(Ending)
    /\ PastInit => AddTimer <= uploads + Cardinality(Ending)

UploadInv == UploadType /\ StallInv /\ DirInv /\ ListInv /\ LoneInv /\ TimerInv

LEMMA PerCoreType ==
    ASSUME UploadAssumption, UploadType
    PROVE  /\ coreNumber \in 1 .. MaxCores
           /\ PerCore \in Nat /\ PerCore <= number
           /\ Running \subseteq Cores
<1>1. coreNumber \in 1 .. MaxCores /\ number \in Nat /\ MaxCores \in Nat
  BY DEF UploadType, UploadAssumption, coreNumber
<1>2. \A n, c \in Nat : c # 0 => n \div c \in Nat /\ n \div c <= n
  OBVIOUS
<1> QED
  BY <1>1, <1>2 DEF PerCore, Running, Cores

\* The files of a core that generates are numbered as they come.
LEMMA GeneratedFiles ==
    ASSUME UploadAssumption, UploadType, DirInv,
           NEW i \in Cores, pc[i] \in {"generate", "sub", "write"}
    PROVE  /\ Generated(i) \in 0 .. PerCore
           /\ dir[i] \ {temp} = 1 .. Generated(i)
           /\ pc[i] # "generate" => Generated(i) < PerCore
<1>1. PICK n \in 0 .. PerCore : /\ dir[i] \ {temp} = 1 .. n
                                /\ pc[i] # "generate" => n < PerCore
  BY DEF DirInv
<1>2. Cardinality(1 .. n) = n
  BY PerCoreType, FS_Interval
<1>3. Generated(i) = n
  BY <1>1, <1>2 DEF Generated
<1> QED
  BY <1>1, <1>3

\* What a core writes next is a file it was asked for.
LEMMA WrittenFile ==
    ASSUME UploadAssumption, UploadType, DirInv, NEW i \in Cores, WriteFile(i)
    PROVE  /\ Generated(i) + 1 \in 1 .. PerCore
           /\ dir' = [dir EXCEPT ![i] = @ \cup {Generated(i) + 1}]
           /\ Generated(i) + 1 \in Files
<1>1. Generated(i) \in 0 .. PerCore /\ Generated(i) < PerCore
  BY GeneratedFiles DEF WriteFile
<1> QED
  BY <1>1, PerCoreType DEF WriteFile, Files, UploadAssumption

LEMMA UploadInit ==
    ASSUME UploadAssumption, Init
    PROVE  UploadInv
<1>1. UploadType
  <2>1. /\ flags \in [cores : 1 .. MaxCores, redun : BOOLEAN, reGenerate : BOOLEAN,
                      provide : {"none", "first", "each"}]
        /\ stalls \in Int
    BY DEF Init, UploadAssumption
  <2>2. dir \in [Cores -> SUBSET Files]
    BY DEF Init, Files
  <2>3. up \in [Cores -> [step : Steps, provide : BOOLEAN, ok : BOOLEAN, read : Nat,
                         reported : Durations]]
    BY DEF Init, NoUpload, Steps, Durations, Zero
  <2>4. listed \in [Cores \X Files -> Nat] /\ Dura \in Durations
    BY DEF Init, Durations, Zero
  <2> QED
    BY <2>1, <2>2, <2>3, <2>4 DEF Init, UploadType, Points
<1>2. StallInv
  <2>1. Unreported = 0 .. coreNumber - 1
    BY <1>1, PerCoreType DEF Init, Unreported, Running, Cores, coreNumber
  <2>2. Cardinality(0 .. coreNumber - 1) = coreNumber
    BY <1>1, PerCoreType, FS_Interval
  <2> QED
    BY <1>1, <2>1, <2>2, PerCoreType DEF Init, StallInv, Running, Cores, NoUpload, coreNumber
<1>3. DirInv /\ ListInv
  BY DEF Init, DirInv, ListInv, Points
<1>4. LoneInv
  BY DEF Init, LoneInv, NoUpload, Uploading
<1>5. TimerInv
  <2>1. Ending = {}
    BY DEF Init, Ending
  <2>2. 0 \in Cores
    BY DEF UploadAssumption, Cores
  <2> QED
    BY <2>1, <2>2, FS_EmptySet DEF Init, TimerInv, Exactly, PastInit, Before, coreNumber
<1> QED
  BY <1>1, <1>2, <1>3, <1>4, <1>5 DEF UploadInv

\* A function whose value at one point is replaced by another of its type keeps its type.
LEMMA UploadRecord ==
    ASSUME NEW I, NEW R, NEW f, f \in [I -> R], NEW g, NEW i \in I, NEW r \in R,
           g = [f EXCEPT ![i] = r]
    PROVE  g \in [I -> R]
OBVIOUS

\* The record of an UploadFile, and the assignments made to it.
UploadRecords == [step : Steps, provide : BOOLEAN, ok : BOOLEAN, read : Nat, reported : Durations]

LEMMA UploadFields ==
    ASSUME NEW u \in UploadRecords, NEW st \in Steps, NEW n \in Nat, NEW d \in Durations
    PROVE  /\ [u EXCEPT !.step = st] \in UploadRecords
           /\ [u EXCEPT !.step = st, !.ok = FALSE] \in UploadRecords
           /\ [u EXCEPT !.step = st, !.read = n] \in UploadRecords
           /\ [u EXCEPT !.step = st, !.reported = d] \in UploadRecords
<1> HIDE DEF Steps, Durations
<1>1. [u EXCEPT !.step = st] \in UploadRecords
  BY DEF UploadRecords
<1>2. [u EXCEPT !.step = st, !.ok = FALSE] \in UploadRecords
  BY DEF UploadRecords
<1>3. [u EXCEPT !.step = st, !.read = n] \in UploadRecords
  BY DEF UploadRecords
<1>4. [u EXCEPT !.step = st, !.reported = d] \in UploadRecords
  BY DEF UploadRecords
<1> QED
  BY <1>1, <1>2, <1>3, <1>4

\* The package variables of metrics, and the assignments made to them.
LEMMA DurationFields ==
    ASSUME NEW d \in Durations, NEW a \in Nat, NEW p \in Nat, NEW w \in Nat
    PROVE  /\ [d EXCEPT !.add = a] \in Durations
           /\ [d EXCEPT !.persist = @ + w] \in Durations
           /\ [d EXCEPT !.provide = @ + p, !.persist = @ + 1] \in Durations
           /\ Zero \in Durations
<1>1. [d EXCEPT !.add = a] \in Durations
  BY DEF Durations
<1>2. [d EXCEPT !.persist = @ + w] \in Durations
  <2>1. d.persist + w \in Nat
    BY DEF Durations
  <2> QED
    BY <2>1 DEF Durations
<1>3. [d EXCEPT !.provide = @ + p, !.persist = @ + 1] \in Durations
  <2>1. d.provide + p \in Nat /\ d.persist + 1 \in Nat
    BY DEF Durations
  <2> QED
    BY <2>1 DEF Durations
<1>4. Zero \in Durations
  BY DEF Zero, Durations
<1> QED
  BY <1>1, <1>2, <1>3, <1>4

LEMMA CostFields ==
    ASSUME NEW i
    PROVE  Cost(i).add \in Nat /\ Cost(i).provide \in Nat
<1>1. CASE up[i].provide
  BY <1>1 DEF Cost
<1>2. CASE ~up[i].provide
  BY <1>2 DEF Cost
<1> QED
  BY <1>1, <1>2

\* What an UploadFile does to its record and to the durations keeps their types.
LEMMA UploadFileType ==
    ASSUME UploadType, NEW i \in Cores, UploadFile(i)
    PROVE  UploadType'
<1>1. UNCHANGED <<mainVars, pc, dirVars, listed, failed, uploads>>
  BY DEF UploadFile
<1>2. SUFFICES /\ up' \in [Cores -> UploadRecords]
               /\ Dura' \in Durations /\ AddTimer' \in Nat /\ lone' = lone
  BY <1>1 DEF mainVars, dirVars, UploadType, UploadRecords
<1>3. up \in [Cores -> UploadRecords] /\ Dura \in Durations /\ AddTimer \in Nat
  BY DEF UploadType, UploadRecords
<1>4. up[i] \in UploadRecords
  BY <1>3
<1>5. Dura.add \in Nat
  BY <1>3 DEF Durations
<1>6. up[i].read \in Nat
  BY <1>4 DEF UploadRecords
<1>7. \A u \in UploadRecords : up' = [up EXCEPT ![i] = u] => up' \in [Cores -> UploadRecords]
  BY <1>3, UploadRecord
<1>8. CASE Add(i)
  <2>1. /\ up' = [up EXCEPT ![i] = [up[i] EXCEPT !.step = "load"]]
        /\ Dura' = [Dura EXCEPT !.provide = @ + Cost(i).provide, !.persist = @ + 1]
        /\ AddTimer' = AddTimer /\ lone' = lone
    BY <1>8 DEF Add
  <2>2. "load" \in Steps
    BY DEF Steps
  <2>3. [up[i] EXCEPT !.step = "load"] \in UploadRecords
    BY <1>3, <1>4, <1>5, <2>2, UploadFields
  <2>4. Dura' \in Durations
    BY <1>3, <1>5, <2>1, CostFields, DurationFields
  <2> QED
    BY <1>3, <1>7, <2>1, <2>3, <2>4
<1>9. CASE AddFails(i)
  <2>1. /\ up' = [up EXCEPT ![i] = [up[i] EXCEPT !.step = "report", !.ok = FALSE]]
        /\ AddTimer' = AddTimer /\ lone' = lone
    BY <1>9 DEF AddFails
  <2>2. "report" \in Steps
    BY DEF Steps
  <2>3. [up[i] EXCEPT !.step = "report", !.ok = FALSE] \in UploadRecords
    BY <1>3, <1>4, <1>5, <2>2, UploadFields
  <2>4. PICK wrote \in {0, 1} : Dura' = [Dura EXCEPT !.persist = @ + wrote]
    BY <1>9 DEF AddFails
  <2>5. wrote \in Nat
    OBVIOUS
  <2>6. Dura' \in Durations
    BY <1>3, <1>5, <2>4, <2>5, DurationFields
  <2> QED
    BY <1>3, <1>7, <2>1, <2>3, <2>6
<1>10. CASE LoadAddDura(i)
  <2>1. /\ up' = [up EXCEPT ![i] = [up[i] EXCEPT !.step = "store", !.read = Dura.add]]
        /\ Dura' = Dura /\ AddTimer' = AddTimer /\ lone' = lone
    BY <1>10 DEF LoadAddDura
  <2>2. "store" \in Steps
    BY DEF Steps
  <2>3. [up[i] EXCEPT !.step = "store", !.read = Dura.add] \in UploadRecords
    BY <1>3, <1>4, <1>5, <2>2, UploadFields
  <2> QED
    BY <1>3, <1>7, <2>1, <2>3
<1>11. CASE StoreAddDura(i)
  <2>1. /\ up' = [up EXCEPT ![i] = [up[i] EXCEPT !.step = "report"]]
        /\ Dura' = [Dura EXCEPT !.add = up[i].read + Cost(i).add]
        /\ AddTimer' = AddTimer /\ lone' = lone
    BY <1>11 DEF StoreAddDura
  <2>2. "report" \in Steps
    BY DEF Steps
  <2>3. [up[i] EXCEPT !.step = "report"] \in UploadRecords
    BY <1>3, <1>4, <1>5, <2>2, UploadFields
  <2>4. Cost(i).add \in Nat
    BY CostFields
  <2>5. up[i].read + Cost(i).add \in Nat
    BY <1>6, <2>4
  <2>6. Dura' \in Durations
    BY <1>3, <1>5, <2>1, <2>5, DurationFields
  <2> QED
    BY <1>3, <1>7, <2>1, <2>3, <2>6
<1>12. CASE Report(i)
  <2>1. /\ up' = [up EXCEPT ![i] = [up[i] EXCEPT !.step = "reset", !.reported = Dura]]
        /\ Dura' = Dura /\ AddTimer' = AddTimer + 1 /\ lone' = lone
    BY <1>12 DEF Report
  <2>2. "reset" \in Steps
    BY DEF Steps
  <2>3. [up[i] EXCEPT !.step = "reset", !.reported = Dura] \in UploadRecords
    BY <1>3, <1>4, <1>5, <2>2, UploadFields
  <2>4. AddTimer' \in Nat
    BY <1>3, <2>1
  <2> QED
    BY <1>3, <1>7, <2>1, <2>3, <2>4
<1>13. CASE Reset(i)
  <2>1. /\ up' = [up EXCEPT ![i] = [up[i] EXCEPT !.step = "returned"]]
        /\ Dura' = Zero /\ AddTimer' = AddTimer /\ lone' = lone
    BY <1>13 DEF Reset
  <2>2. "returned" \in Steps
    BY DEF Steps
  <2>3. [up[i] EXCEPT !.step = "returned"] \in UploadRecords
    BY <1>3, <1>4, <1>5, <2>2, UploadFields
  <2>4. Dura' \in Durations
    BY <1>3, <1>5, <2>1, DurationFields
  <2> QED
    BY <1>3, <1>7, <2>1, <2>3, <2>4
<1> QED
  BY <1>8, <1>9, <1>10, <1>11, <1>12, <1>13 DEF UploadFile

LEMMA UploadTypeStep ==
    ASSUME UploadAssumption, UploadType, DirInv, NEW i \in Cores, sendFunc(i)
    PROVE  UploadType'
<1> USE DEF UploadType, Points, Goto, Fail, mainVars, dirVars, upVars
<1>1. CASE Prepare(i)
  <2>1. /\ pc' = [pc EXCEPT ![i] = pc'[i]] /\ pc'[i] \in Points
        /\ dir' = dir \/ dir' = [dir EXCEPT ![i] = {}]
        /\ failed' \subseteq failed \cup {i}
    BY <1>1 DEF Prepare
  <2>2. pc' \in [Cores -> Points] /\ dir' \in [Cores -> SUBSET Files] /\ failed' \subseteq Cores
    BY <2>1
  <2> QED
    BY <1>1, <2>2 DEF Prepare
<1>2. CASE EndGenerate(i)
  BY <1>2 DEF EndGenerate
<1>3. CASE UploadSub(i)
  BY <1>3 DEF UploadSub, Call, NoUpload, Steps, Durations, Zero, Files
<1>4. CASE EndSub(i)
  <2>1. NoUpload \in [step : Steps, provide : BOOLEAN, ok : BOOLEAN, read : Nat,
                     reported : Durations]
    BY DEF NoUpload, Steps, Durations, Zero
  <2>2. /\ up' = [up EXCEPT ![i] = NoUpload]
        /\ pc' = [pc EXCEPT ![i] = pc'[i]] /\ pc'[i] \in Points
        /\ failed' \subseteq failed \cup {i}
        /\ UNCHANGED <<mainVars, dirVars, Dura, AddTimer, lone, listed, uploads>>
    BY <1>4 DEF EndSub, Returned
  <2>3. up' \in [Cores -> [step : Steps, provide : BOOLEAN, ok : BOOLEAN, read : Nat,
                          reported : Durations]]
    BY <2>1, <2>2, UploadRecord
  <2>4. pc' \in [Cores -> Points] /\ failed' \subseteq Cores
    BY <2>2
  <2> QED
    BY <2>2, <2>3, <2>4
<1>5. CASE WriteFile(i)
  <2>1. dir' \in [Cores -> SUBSET Files]
    <3>1. /\ dir' = [dir EXCEPT ![i] = @ \cup {Generated(i) + 1}]
          /\ Generated(i) + 1 \in Files
      BY <1>5, WrittenFile
    <3>2. dir[i] \cup {Generated(i) + 1} \in SUBSET Files
      BY <3>1
    <3> HIDE DEF UploadType
    <3>3. dir \in [Cores -> SUBSET Files]
      BY DEF UploadType
    <3> QED
      BY <3>1, <3>2, <3>3, UploadRecord
  <2> QED
    BY <1>5, <2>1 DEF WriteFile
<1>6. CASE WriteFails(i)
  BY <1>6 DEF WriteFails
<1>7. CASE TimersInit(i)
  BY <1>7 DEF TimersInit
<1>8. CASE ReadDir(i)
  BY <1>8 DEF ReadDir
<1>9. CASE ReadDirFails(i)
  BY <1>9 DEF ReadDirFails
<1>10. CASE UploadNext(i)
  <2>1. flags.provide = "each" \/ (flags.provide = "first" /\ firstupload[i]) \in BOOLEAN
    OBVIOUS
  <2> QED
    BY <1>10, <2>1 DEF UploadNext, Call, NoUpload, Steps, Durations, Zero
<1>11. CASE EndUpload(i)
  <2>1. up' \in [Cores -> [step : Steps, provide : BOOLEAN, ok : BOOLEAN, read : Nat,
                         reported : Durations]]
    BY <1>11 DEF EndUpload, Returned, NoUpload, Steps, Durations, Zero
  <2>2. CASE UNCHANGED <<todo, listed>> /\ Fail(i)
    BY <1>11, <2>1, <2>2 DEF EndUpload
  <2>3. ASSUME NEW f \in todo[i],
               todo' = [todo EXCEPT ![i] = @ \ {f}],
               listed' = [listed EXCEPT ![<<i, f>>] = @ + 1],
               Goto(i, "next"), UNCHANGED failed
        PROVE  UploadType'
    <3>1. <<i, f>> \in Cores \X Files
      BY <2>3
    <3>2. listed' \in [Cores \X Files -> Nat]
      BY <2>3, <3>1
    <3> QED
      BY <1>11, <2>1, <2>3, <3>2 DEF EndUpload
  <2> QED
    BY <1>11, <2>2, <2>3 DEF EndUpload
<1>12. CASE EndLoop(i)
  BY <1>12 DEF EndLoop
<1>13. CASE UploadFile(i)
  BY <1>13, UploadFileType
<1>14. CASE Stall(i)
  BY <1>14 DEF Stall
<1> QED
  BY <1>1, <1>2, <1>3, <1>4, <1>5, <1>6, <1>7, <1>8, <1>9, <1>10, <1>11, <1>12, <1>13, <1>14
     DEF sendFunc

\* A core reports on stallchan once, so the main goroutine waits for exactly the others.
LEMMA StallStep ==
    ASSUME UploadAssumption, UploadType, StallInv, NEW i \in Cores, sendFunc(i)
    PROVE  StallInv'
<1>1. IsFiniteSet(Unreported)
  <2>1. IsFiniteSet(0 .. coreNumber - 1)
    BY PerCoreType, FS_Interval
  <2>2. Unreported \subseteq 0 .. coreNumber - 1
    BY DEF Unreported, Running
  <2> QED
    BY <2>1, <2>2, FS_Subset
<1> USE DEF UploadType, Points, Goto, Fail, mainVars, dirVars, upVars
<1>2. CASE Stall(i)
  <2>1. Unreported' = Unreported \ {i} /\ i \in Unreported /\ Running' = Running
    BY <1>2, PerCoreType DEF Stall, StallInv, Unreported, Running, coreNumber
  <2>2. IsFiniteSet(Unreported') /\ Cardinality(Unreported') = Cardinality(Unreported) - 1
    BY <1>1, <2>1, FS_RemoveElement
  <2>3. Cardinality(Unreported') \in Nat /\ (Cardinality(Unreported') = 0 <=> Unreported' = {})
    BY <2>2, FS_CardinalityType, FS_EmptySet
  <2>4. stalls = Cardinality(Unreported)
    BY <1>2 DEF Stall, StallInv
  <2>5. /\ closed' => Unreported' = {}
        /\ ~closed' => stalls' = Cardinality(Unreported')
    BY <1>2, <2>2, <2>3, <2>4 DEF Stall
  <2> QED
    BY <1>2, <2>1, <2>5 DEF Stall, StallInv
<1>3. ASSUME ~Stall(i) PROVE UNCHANGED <<flags, stalls, closed>>
  BY <1>3 DEF sendFunc, Prepare, EndGenerate, UploadSub, EndSub, WriteFile, WriteFails, TimersInit,
              ReadDir, ReadDirFails, UploadNext, EndUpload, EndLoop, UploadFile
<1>4. ASSUME UNCHANGED <<flags, stalls, closed>>,
             /\ \A o \in Cores \ {i} : pc'[o] = pc[o] /\ up'[o].step = up[o].step
             /\ pc[i] \notin {"none", "done"} /\ pc'[i] \notin {"none", "done"}
             /\ up'[i].step # "none" <=> pc'[i] \in {"sub", "real"}
             /\ failed' \ {i} = failed \ {i}
             /\ i \in failed' => pc'[i] = "send"
      PROVE  StallInv'
  <2>1. Running' = Running /\ Unreported' = Unreported
    BY <1>4, PerCoreType DEF Unreported, Running, coreNumber
  <2> QED
    BY <1>4, <2>1 DEF StallInv
<1>5. CASE UploadFile(i)
  BY <1>3, <1>4, <1>5 DEF UploadFile, Add, AddFails, LoadAddDura, StoreAddDura, Report, Reset,
                          StallInv, Steps
<1>6. ASSUME UploadSub(i) \/ UploadNext(i) PROVE StallInv'
  <2>1. \E provide : Call(i, provide)
    BY <1>6 DEF UploadSub, UploadNext
  <2>2. up' = [up EXCEPT ![i] = up'[i]] /\ up'[i].step = "add"
    BY <2>1 DEF Call, NoUpload
  <2>3. /\ pc' = [pc EXCEPT ![i] = pc'[i]] /\ pc[i] \in {"generate", "next"}
        /\ pc'[i] \in {"sub", "real"}
        /\ UNCHANGED <<flags, stalls, closed, failed>>
    BY <1>6 DEF UploadSub, UploadNext
  <2> QED
    BY <1>4, <2>2, <2>3 DEF StallInv
<1>7. ASSUME EndSub(i) \/ EndUpload(i) PROVE StallInv'
  <2>1. /\ up' = [up EXCEPT ![i] = NoUpload] /\ UNCHANGED <<flags, stalls, closed>>
    BY <1>7 DEF EndSub, EndUpload, Returned
  <2>2. /\ pc' = [pc EXCEPT ![i] = pc'[i]] /\ pc[i] \in {"sub", "real"}
        /\ \/ pc'[i] \in {"write", "next"} /\ failed' = failed
           \/ pc'[i] = "send" /\ failed' = failed \cup {i}
    BY <1>7 DEF EndSub, EndUpload
  <2> QED
    BY <1>4, <2>1, <2>2 DEF StallInv, NoUpload
<1>8. CASE \/ Prepare(i) \/ EndGenerate(i) \/ WriteFile(i) \/ WriteFails(i) \/ TimersInit(i)
           \/ ReadDir(i) \/ ReadDirFails(i) \/ EndLoop(i)
  BY <1>3, <1>4, <1>8 DEF Prepare, EndGenerate, WriteFile, WriteFails, TimersInit, ReadDir,
                          ReadDirFails, EndLoop, StallInv
<1> QED
  BY <1>2, <1>5, <1>6, <1>7, <1>8 DEF sendFunc

\* A core writes to its own directory, which it alone generates.
LEMMA DirStep ==
    ASSUME UploadAssumption, UploadType, StallInv, DirInv, NEW i \in Cores, sendFunc(i)
    PROVE  DirInv'
<1>1. PerCore' = PerCore /\ PerCore \in Nat
  <2>1. flags' = flags
    BY DEF sendFunc, Prepare, EndGenerate, UploadSub, EndSub, WriteFile, WriteFails, TimersInit,
           ReadDir, ReadDirFails, UploadNext, EndUpload, EndLoop, UploadFile, Stall, mainVars
  <2> QED
    BY <2>1, PerCoreType DEF PerCore, coreNumber
<1> USE DEF Goto, Fail, mainVars, dirVars, upVars
\* What the invariant says of a core, before and after.
<1> DEFINE Generating(p, d) ==
              p \in {"generate", "sub", "write"} =>
                 \E n \in 0 .. PerCore : d \ {temp} = 1 .. n /\ (p # "generate" => n < PerCore)
           Generates(o, p, d, fails) ==
              p \in {"init", "readdir", "next", "real", "send", "done"} =>
                 (flags.reGenerate /\ o \notin fails => 1 .. PerCore \subseteq d)
<1>2. \A o \in Cores : Generating(pc[o], dir[o]) /\ Generates(o, pc[o], dir[o], failed)
  BY Zenon DEF DirInv
<1>3. /\ flags' = flags
      /\ \A o \in Cores \ {i} : pc'[o] = pc[o] /\ dir'[o] = dir[o]
      /\ failed' = failed \/ failed' = failed \cup {i}
  BY DEF sendFunc, Prepare, EndGenerate, UploadSub, EndSub, WriteFile, WriteFails, TimersInit,
         ReadDir, ReadDirFails, UploadNext, EndUpload, EndLoop, UploadFile, Stall, UploadType
<1>4. SUFFICES Generating(pc'[i], dir'[i]) /\ Generates(i, pc'[i], dir'[i], failed')
  <2>1. \A o \in Cores : Generating(pc'[o], dir'[o]) /\ Generates(o, pc'[o], dir'[o], failed')
    BY <1>2, <1>3, <1>4
  <2> QED
    BY <1>1, <1>3, <2>1 DEF DirInv
<1>5. CASE Prepare(i)
  BY <1>1, <1>2, <1>5 DEF Prepare, UploadType
<1>6. CASE EndGenerate(i)
  BY <1>1, <1>2, <1>6, GeneratedFiles DEF EndGenerate, UploadType
<1>7. CASE UploadSub(i)
  BY <1>1, <1>2, <1>7, GeneratedFiles DEF UploadSub, UploadType
<1>8. CASE WriteFile(i)
  <2>1. /\ Generated(i) + 1 \in 1 .. PerCore
        /\ dir'[i] = dir[i] \cup {Generated(i) + 1}
        /\ dir[i] \ {temp} = 1 .. Generated(i)
        /\ Generated(i) \in Nat
    BY <1>1, <1>8, WrittenFile, GeneratedFiles DEF WriteFile, UploadType
  <2>2. dir'[i] \ {temp} = 1 .. Generated(i) + 1
    BY <2>1 DEF temp
  <2>3. pc'[i] = "generate"
    BY <1>8 DEF WriteFile, UploadType
  <2> QED
    BY <1>1, <2>1, <2>2, <2>3
<1>9. CASE \/ EndSub(i) \/ WriteFails(i) \/ TimersInit(i) \/ ReadDir(i) \/ ReadDirFails(i)
           \/ UploadNext(i) \/ EndUpload(i) \/ EndLoop(i) \/ UploadFile(i) \/ Stall(i)
  <2>1. dir'[i] = dir[i]
    BY <1>9 DEF EndSub, WriteFails, TimersInit, ReadDir, ReadDirFails, UploadNext, EndUpload,
                EndLoop, UploadFile, Stall
  <2>2. \/ pc'[i] = pc[i] /\ failed' = failed
        \/ pc'[i] = "send" /\ failed' = failed \cup {i}
        \/ pc[i] = "sub" /\ pc'[i] = "write" /\ failed' = failed
        \/ /\ pc[i] \in {"init", "readdir", "next", "real", "send"} /\ failed' = failed
           /\ pc'[i] \in {"readdir", "next", "real", "send", "done"}
    BY <1>9 DEF EndSub, WriteFails, TimersInit, ReadDir, ReadDirFails, UploadNext, EndUpload,
                EndLoop, UploadFile, Stall, UploadType
  <2> QED
    BY <1>2, <2>1, <2>2
<1> QED
  BY <1>5, <1>6, <1>7, <1>8, <1>9 DEF sendFunc

\* A core lists a file when it takes it from those to be uploaded.
LEMMA ListStep ==
    ASSUME UploadAssumption, UploadType, StallInv, ListInv, NEW i \in Cores, sendFunc(i)
    PROVE  ListInv'
<1> USE DEF Goto, Fail, mainVars, dirVars, upVars
<1> DEFINE Listing(o, p, d, t, fails, l) ==
              /\ t \subseteq d
              /\ \A f \in Files : l[<<o, f>>] <= 1 /\ (f \in t => l[<<o, f>>] = 0)
              /\ p \in {"start", "generate", "sub", "write", "init", "readdir"} =>
                    t = {} /\ \A f \in Files : l[<<o, f>>] = 0
              /\ p \in {"next", "real", "send", "done"} /\ o \notin fails =>
                    \A f \in d : f \in t \/ l[<<o, f>>] = 1
              /\ p \in {"send", "done"} /\ o \notin fails => t = {}
<1>1. \A o \in Cores : Listing(o, pc[o], dir[o], todo[o], failed, listed)
  BY DEF ListInv
<1>2. /\ \A o \in Cores \ {i} : /\ pc'[o] = pc[o] /\ dir'[o] = dir[o] /\ todo'[o] = todo[o]
                                /\ \A f \in Files : listed'[<<o, f>>] = listed[<<o, f>>]
      /\ failed' = failed \/ failed' = failed \cup {i}
  <2>1. CASE EndUpload(i)
    BY <2>1 DEF EndUpload, UploadType
  <2>2. CASE ~EndUpload(i)
    BY <2>2 DEF sendFunc, Prepare, EndGenerate, UploadSub, EndSub, WriteFile, WriteFails,
         TimersInit, ReadDir, ReadDirFails, UploadNext, EndLoop, UploadFile, Stall, UploadType
  <2> QED
    BY <2>1, <2>2
<1>3. SUFFICES Listing(i, pc'[i], dir'[i], todo'[i], failed', listed')
  <2>1. ASSUME NEW o \in Cores
        PROVE  Listing(o, pc'[o], dir'[o], todo'[o], failed', listed')
    <3>1. CASE o = i
      BY <3>1, <1>3
    <3>2. CASE o # i
      BY <3>2, <1>1, <1>2 DEF UploadType
    <3> QED
      BY <3>1, <3>2
  <2> QED
    BY <2>1 DEF ListInv
<1>4. i \in failed => pc[i] \in {"send", "done"}
  BY DEF StallInv
<1>5. CASE EndUpload(i)
  <2>1. pc[i] = "real" /\ i \notin failed /\ dir'[i] = dir[i]
    BY <1>4, <1>5 DEF EndUpload
  <2>2. CASE Fail(i) /\ UNCHANGED <<todo, listed>>
    BY <1>1, <2>1, <2>2 DEF UploadType
  <2>3. ASSUME NEW f \in todo[i],
               todo' = [todo EXCEPT ![i] = @ \ {f}],
               listed' = [listed EXCEPT ![<<i, f>>] = @ + 1],
               Goto(i, "next"), UNCHANGED failed
        PROVE  Listing(i, pc'[i], dir'[i], todo'[i], failed', listed')
    <3>1. /\ todo'[i] = todo[i] \ {f} /\ pc'[i] = "next" /\ f \in Files
      BY <2>3 DEF UploadType
    <3>2. listed[<<i, f>>] = 0
      BY <1>1, <3>1
    <3>3. /\ listed'[<<i, f>>] = 1
          /\ \A g \in Files \ {f} : listed'[<<i, g>>] = listed[<<i, g>>]
      BY <2>3, <3>1, <3>2 DEF UploadType
    <3>4. Listing(i, pc[i], dir[i], todo[i], failed, listed)
      BY <1>1
    <3> QED
      BY <2>1, <2>3, <3>1, <3>3, <3>4 DEF UploadType
  <2> QED
    BY <1>5, <2>2, <2>3 DEF EndUpload
<1>6. CASE \/ Prepare(i) \/ EndGenerate(i) \/ UploadSub(i) \/ WriteFile(i)
  BY <1>1, <1>4, <1>6 DEF Prepare, EndGenerate, UploadSub, WriteFile, UploadType
<1>7. CASE ReadDir(i)
  BY <1>1, <1>4, <1>7 DEF ReadDir, UploadType
<1>8. CASE \/ EndSub(i) \/ WriteFails(i) \/ TimersInit(i) \/ ReadDirFails(i)
           \/ UploadNext(i) \/ EndLoop(i) \/ UploadFile(i) \/ Stall(i)
  <2>1. dir'[i] = dir[i] /\ todo'[i] = todo[i] /\ listed' = listed
    BY <1>8 DEF EndSub, WriteFails, TimersInit, ReadDirFails, UploadNext, EndLoop, UploadFile,
                Stall
  <2>2. \/ pc'[i] = pc[i] /\ failed' = failed
        \/ pc'[i] = "send" /\ failed' = failed \cup {i}
        \/ /\ pc[i] \in {"sub", "init"} /\ pc'[i] \in {"write", "readdir"} /\ failed' = failed
        \/ pc[i] = "next" /\ pc'[i] = "real" /\ failed' = failed
        \/ pc[i] = "next" /\ todo[i] = {} /\ pc'[i] = "send" /\ failed' = failed
        \/ pc[i] = "send" /\ pc'[i] = "done" /\ failed' = failed
    BY <1>8 DEF EndSub, WriteFails, TimersInit, ReadDirFails, UploadNext, EndLoop, UploadFile,
                Stall, UploadType
  <2> QED
    BY <1>1, <2>1, <2>2
<1> QED
  BY <1>5, <1>6, <1>7, <1>8 DEF sendFunc

\* An UploadFile that begins is alone if no other is under way, and then no other is.
LEMMA LoneCall ==
    ASSUME UploadType, LoneInv, NEW i \in Cores, NEW provide \in BOOLEAN,
           ~Uploading(i), Call(i, provide)
    PROVE  LoneInv'
<1> USE DEF UploadType, Call, Uploading
<1>1. /\ up'[i] = [NoUpload EXCEPT !.step = "add", !.provide = provide]
      /\ \A o \in Cores \ {i} : up'[o] = up[o]
  OBVIOUS
<1>2. up'[i].step = "add" /\ up'[i].ok
  BY <1>1 DEF NoUpload
<1>3. CASE \E o \in Cores \ {i} : Uploading(o)
  <2>1. lone' = {o \in lone \ {i} : ~Uploading(o)}
    BY <1>3
  <2>2. \A o \in lone' : o # i /\ up'[o] = up[o] /\ ~Uploading(o)
    BY <1>1, <2>1
  <2> QED
    BY <1>1, <1>2, <2>2 DEF LoneInv, Alone
<1>4. CASE ~\E o \in Cores \ {i} : Uploading(o)
  <2>1. lone' = lone \cup {i} /\ Dura = Zero
    BY <1>4 DEF LoneInv, Alone
  <2>2. \A o \in lone' \ {i} : up'[o] = up[o] /\ ~Uploading(o)
    BY <1>1, <1>4, <2>1
  <2> QED
    BY <1>1, <1>2, <1>4, <2>1, <2>2 DEF LoneInv, Alone
<1> QED
  BY <1>3, <1>4

\* While an UploadFile is alone, only its own steps reach the durations.
LEMMA LoneUploadFile ==
    ASSUME UploadType, LoneInv, NEW i \in Cores, UploadFile(i)
    PROVE  LoneInv'
<1> USE DEF UploadType, Durations
<1>1. Uploading(i) /\ lone' = lone /\ \A o \in Cores \ {i} : up'[o] = up[o]
  BY DEF UploadFile, Add, AddFails, LoadAddDura, StoreAddDura, Report, Reset, Uploading
<1>2. \A o \in lone : o # i => ~Uploading(o) /\ up'[o] = up[o]
  BY <1>1 DEF LoneInv, Alone
<1>3. Cost(i)' = Cost(i) /\ up'[i].provide = up[i].provide
  BY DEF UploadFile, Add, AddFails, LoadAddDura, StoreAddDura, Report, Reset, Cost
<1> DEFINE Exact(step, ok, reported, D) ==
              /\ step = "add" => D = Zero
              /\ step \in {"load", "store"} =>
                    D.add = 0 /\ D.provide = Cost(i).provide /\ D.persist = 1
              /\ step = "report" =>
                    IF ok THEN D = Cost(i) ELSE D.add = 0 /\ D.provide = 0
              /\ step = "reset" =>
                    IF ok THEN reported = Cost(i) ELSE reported.add = 0 /\ reported.provide = 0
<1>4. ASSUME Uploading(i)',
             up'[i].step \in {"add", "load", "store"} => up'[i].ok,
             i \in lone => /\ up'[i].step = "store" => up'[i].read = 0
                           /\ Exact(up'[i].step, up'[i].ok, up'[i].reported, Dura')
      PROVE  LoneInv'
  <2>1. \A o \in lone' : o # i => ~Uploading(o)' /\ Uploading(i)'
    BY <1>1, <1>2, <1>4 DEF Uploading
  <2>2. \A o \in Cores : up'[o].step \in {"add", "load", "store"} => up'[o].ok
    BY <1>1, <1>4 DEF LoneInv, Alone
  <2>3. \A o \in lone' : o # i => up'[o].step \in {"none", "returned"}
    BY <2>1 DEF Uploading
  <2>4. i \in lone => \A o \in Cores \ {i} : ~Uploading(o)'
    BY <1>1 DEF LoneInv, Alone, Uploading
  <2>5. ~(\A o \in Cores : ~Uploading(o)')
    BY <1>4
  <2>6. i \in lone => /\ Exact(up'[i].step, up'[i].ok, up'[i].reported, Dura')
                      /\ up'[i].step = "store" => up'[i].read = 0
    BY <1>4
  <2>7. i \in lone => Alone(i)'
    BY <1>3, <2>4, <2>6 DEF Alone
  <2>8. \A o \in lone' : o # i => Alone(o)'
    BY <2>3 DEF Alone, Uploading
  <2> QED
    BY <1>1, <2>2, <2>5, <2>7, <2>8 DEF LoneInv
<1>5. CASE Add(i)
  <2>1. up'[i].step = "load" /\ up'[i].ok = up[i].ok /\ up[i].ok
    BY <1>5 DEF Add, LoneInv, Alone
  <2>2. i \in lone => Dura'.add = 0 /\ Dura'.provide = Cost(i).provide /\ Dura'.persist = 1
    <3>1. Cost(i).provide \in Nat
      BY DEF Cost
    <3>2. /\ Dura'.add = Dura.add /\ Dura'.provide = Dura.provide + Cost(i).provide
          /\ Dura'.persist = Dura.persist + 1
      BY <1>5 DEF Add
    <3>3. i \in lone => Dura.add = 0 /\ Dura.provide = 0 /\ Dura.persist = 0
      BY <1>5 DEF Add, LoneInv, Alone, Zero
    <3> QED
      BY <3>1, <3>2, <3>3
  <2> QED
    BY <1>4, <2>1, <2>2 DEF Uploading
<1>6. CASE AddFails(i)
  <2>1. up'[i].step = "report" /\ ~up'[i].ok
    BY <1>6 DEF AddFails
  <2>2. i \in lone => Dura'.add = 0 /\ Dura'.provide = 0
    BY <1>6 DEF AddFails, LoneInv, Alone, Zero
  <2> QED
    BY <1>4, <2>1, <2>2 DEF Uploading
<1>7. CASE LoadAddDura(i)
  <2>1. up'[i].step = "store" /\ up'[i].ok = up[i].ok /\ up[i].ok /\ Dura' = Dura
    BY <1>7 DEF LoadAddDura, LoneInv, Alone
  <2>2. i \in lone => /\ up'[i].read = 0
                      /\ Dura.add = 0 /\ Dura.provide = Cost(i).provide /\ Dura.persist = 1
    <3>1. up'[i].read = Dura.add /\ up[i].step = "load"
      BY <1>7 DEF LoadAddDura
    <3> QED
      BY <3>1 DEF LoneInv, Alone
  <2> QED
    BY <1>4, <2>1, <2>2 DEF Uploading
<1>8. CASE StoreAddDura(i)
  <2>1. up'[i].step = "report" /\ up'[i].ok = up[i].ok /\ up[i].ok
    BY <1>8 DEF StoreAddDura, LoneInv, Alone
  <2>2. i \in lone => Dura' = Cost(i)
    <3>1. Dura' = [Dura EXCEPT !.add = up[i].read + Cost(i).add]
      BY <1>8 DEF StoreAddDura
    <3>2. Dura' = [add |-> up[i].read + Cost(i).add, provide |-> Dura.provide,
                   persist |-> Dura.persist]
      BY <3>1
    <3>3. i \in lone => Dura.provide = Cost(i).provide /\ Dura.persist = 1 /\ up[i].read = 0
      BY <1>8 DEF StoreAddDura, LoneInv, Alone
    <3>4. 0 + Cost(i).add = Cost(i).add
      BY CostFields
    <3>5. Cost(i) = [add |-> Cost(i).add, provide |-> Cost(i).provide, persist |-> 1]
      BY DEF Cost
    <3> QED
      BY <3>2, <3>3, <3>4, <3>5
  <2> QED
    BY <1>4, <2>1, <2>2 DEF Uploading
<1>9. CASE Report(i)
  <2>1. up'[i].step = "reset" /\ up'[i].ok = up[i].ok /\ up'[i].reported = Dura
    BY <1>9 DEF Report
  <2>2. up[i].step = "report" /\ Uploading(i)'
    BY <1>9, <2>1 DEF Report, Uploading
  <2>3. i \in lone => IF up[i].ok THEN Dura = Cost(i) ELSE Dura.add = 0 /\ Dura.provide = 0
    BY <2>2 DEF LoneInv, Alone
  <2>4. i \in lone => Exact(up'[i].step, up'[i].ok, up'[i].reported, Dura')
    BY <2>1, <2>3
  <2> QED
    BY <1>4, <2>1, <2>2, <2>4
<1>10. CASE Reset(i)
  <2>1. up'[i].step = "returned" /\ Dura' = Zero
    BY <1>10 DEF Reset
  <2> QED
    BY <1>1, <1>2, <2>1 DEF LoneInv, Alone, Uploading
<1> QED
  BY <1>5, <1>6, <1>7, <1>8, <1>9, <1>10 DEF UploadFile

LEMMA LoneStep ==
    ASSUME UploadAssumption, UploadType, StallInv, LoneInv, NEW i \in Cores, sendFunc(i)
    PROVE  LoneInv'
<1>1. CASE UploadFile(i)
  BY <1>1, LoneUploadFile
<1>2. CASE UploadSub(i)
  <2>1. Call(i, flags.provide = "each") /\ ~Uploading(i) /\ (flags.provide = "each") \in BOOLEAN
    BY <1>2 DEF UploadSub, StallInv, Uploading
  <2> QED
    BY <2>1, LoneCall
<1>3. CASE UploadNext(i)
  <2> DEFINE provide == flags.provide = "each" \/ (flags.provide = "first" /\ firstupload[i])
  <2>1. Call(i, provide) /\ ~Uploading(i) /\ provide \in BOOLEAN
    BY <1>3 DEF UploadNext, StallInv, Uploading
  <2> QED
    BY <2>1, LoneCall
<1>4. CASE EndSub(i) \/ EndUpload(i)
  <2>1. /\ Dura' = Dura /\ lone' = lone
        /\ up[i].step = "returned" /\ up'[i] = NoUpload
        /\ \A o \in Cores \ {i} : up'[o] = up[o]
    BY <1>4 DEF EndSub, EndUpload, Returned, UploadType
  <2>2. up'[i].step = "none" /\ \A o \in Cores : Uploading(o)' = Uploading(o)
    BY <2>1 DEF Uploading, NoUpload
  <2>3. \A o \in lone : o # i => Cost(o)' = Cost(o)
    BY <2>1 DEF Cost, UploadType
  <2>4. ASSUME NEW o \in lone
        PROVE  Alone(o)'
    <3>1. o \in Cores /\ Alone(o)
      BY DEF LoneInv, UploadType
    <3>2. CASE o = i
      BY <2>1, <2>2, <3>2 DEF Alone, NoUpload, Uploading
    <3>3. CASE o # i
      <4>1. up'[o] = up[o] /\ Cost(o)' = Cost(o)
        BY <2>1, <2>3, <3>1, <3>3
      <4> QED
        BY <2>1, <2>2, <3>1, <4>1 DEF Alone
    <3> QED
      BY <3>2, <3>3
  <2>5. \A o \in Cores : up'[o].step \in {"add", "load", "store"} => up'[o].ok
    BY <2>1, <2>2 DEF LoneInv
  <2>6. (\A o \in Cores : ~Uploading(o)') => Dura' = Zero
    BY <2>1, <2>2 DEF LoneInv
  <2> QED
    BY <2>1, <2>4, <2>5, <2>6 DEF LoneInv
<1>5. CASE \/ Prepare(i) \/ EndGenerate(i) \/ WriteFile(i) \/ WriteFails(i) \/ TimersInit(i)
           \/ ReadDir(i) \/ ReadDirFails(i) \/ EndLoop(i) \/ Stall(i)
  <2>1. UNCHANGED <<up, Dura, lone>>
    BY <1>5 DEF Prepare, EndGenerate, WriteFile, WriteFails, TimersInit, ReadDir, ReadDirFails,
                EndLoop, Stall, upVars
  <2> QED
    BY <2>1 DEF LoneInv, Alone, Uploading, Cost
<1> QED
  BY <1>1, <1>2, <1>3, <1>4, <1>5 DEF sendFunc

\* The timer gains an upload when it reports; TimersInit drops those of the sub-files.
LEMMA TimerStep ==
    ASSUME UploadAssumption, UploadType, StallInv, TimerInv, NEW i \in Cores, sendFunc(i)
    PROVE  TimerInv'
<1>1. IsFiniteSet(Ending) /\ Cardinality(Ending) \in Nat
  <2>1. IsFiniteSet(Cores)
    BY FS_Interval DEF Cores, UploadAssumption
  <2> QED
    BY <2>1, FS_Subset, FS_CardinalityType DEF Ending
<1>2. pc[i] # "none" /\ 0 \in Cores
  BY DEF UploadAssumption, Cores, sendFunc, Prepare, EndGenerate, UploadSub, EndSub, WriteFile,
         WriteFails, TimersInit, ReadDir, ReadDirFails, UploadNext, EndUpload, EndLoop,
         UploadFile, Add, AddFails, LoadAddDura, StoreAddDura, Report, Reset, Stall, StallInv
<1>3. coreNumber = 1 => i = 0
  BY <1>2 DEF StallInv, Running, Cores
<1>4. flags' = flags
  BY DEF sendFunc, Prepare, EndGenerate, UploadSub, EndSub, WriteFile, WriteFails, TimersInit,
         ReadDir, ReadDirFails, UploadNext, EndUpload, EndLoop, UploadFile, Stall, mainVars
<1> USE DEF Goto, Fail, mainVars, dirVars, upVars
\* A step that neither reports an upload of the list nor ends one.
<1>5. ASSUME Ending' = Ending, uploads' = uploads, AddTimer' = AddTimer,
             \A o \in Cores \ {i} : pc'[o] = pc[o],
             ~flags.redun => pc'[i] # "sub",
             pc'[i] \in Before => pc[i] \in Before,
             pc[i] \in Before /\ pc'[i] \notin Before => i \in failed',
             failed \subseteq failed'
      PROVE  TimerInv'
  <2>1. PastInit' => PastInit
    BY <1>5 DEF PastInit
  <2>2. PastInit' => AddTimer' <= uploads' + Cardinality(Ending')
    BY <1>5, <2>1 DEF TimerInv
  <2>3. Exactly' => Exactly
    BY <1>2, <1>3, <1>4, <1>5 DEF Exactly, coreNumber
  <2> QED
    BY <1>2, <1>3, <1>4, <1>5, <2>2, <2>3 DEF TimerInv, coreNumber
<1>6. CASE UploadFile(i)
  <2>1. /\ UNCHANGED <<pc, uploads, failed>>
        /\ \A o \in Cores \ {i} : up'[o] = up[o]
    BY <1>6 DEF UploadFile, Add, AddFails, LoadAddDura, StoreAddDura, Report, Reset, UploadType
  <2>2. CASE Report(i)
    <3>1. AddTimer' = AddTimer + 1 /\ up[i].step = "report" /\ up'[i].step = "reset"
      BY <2>2 DEF Report, UploadType
    <3>2. CASE pc[i] = "real"
      <4>1. i \notin Ending /\ Ending' = Ending \cup {i}
        BY <2>1, <3>1, <3>2 DEF Ending
      <4>2. Cardinality(Ending') = Cardinality(Ending) + 1
        BY <1>1, <4>1, FS_AddElement
      <4>3. Exactly' = Exactly /\ coreNumber' = coreNumber /\ PastInit' = PastInit
        BY <1>4, <2>1 DEF Exactly, coreNumber, PastInit
      <4>5. PastInit => AddTimer' <= uploads + Cardinality(Ending')
        BY <1>1, <3>1, <4>2 DEF TimerInv, UploadType
      <4>4. Exactly => AddTimer' = uploads + Cardinality(Ending')
        BY <1>1, <3>1, <4>2 DEF TimerInv, UploadType
      <4> QED
        BY <1>4, <2>1, <4>3, <4>4, <4>5 DEF TimerInv
    <3>3. CASE pc[i] = "sub"
      BY <1>3, <1>4, <2>1, <3>3 DEF TimerInv, Exactly, PastInit, coreNumber, Before
    <3> QED
      BY <3>1, <3>2, <3>3 DEF StallInv
  <2>3. CASE ~Report(i)
    <3>1. AddTimer' = AddTimer
      BY <1>6, <2>3 DEF UploadFile, Add, AddFails, LoadAddDura, StoreAddDura, Reset
    <3>2. \/ up[i].step \in {"add", "load", "store"} /\ up'[i].step \in {"load", "store", "report"}
          \/ up[i].step = "reset" /\ up'[i].step = "returned"
      <4>1. CASE Add(i)
        BY <4>1 DEF Add, UploadType
      <4>2. CASE AddFails(i)
        BY <4>2 DEF AddFails, UploadType
      <4>3. CASE LoadAddDura(i)
        BY <4>3 DEF LoadAddDura, UploadType
      <4>4. CASE StoreAddDura(i)
        BY <4>4 DEF StoreAddDura, UploadType
      <4>5. CASE Reset(i)
        BY <4>5 DEF Reset, UploadType
      <4> QED
        BY <1>6, <2>3, <4>1, <4>2, <4>3, <4>4, <4>5 DEF UploadFile
    <3>3. up[i].step \in {"reset", "returned"} <=> up'[i].step \in {"reset", "returned"}
      BY <3>2
    <3>4. Ending' = Ending
      BY <2>1, <3>3 DEF Ending
    <3> QED
      BY <1>4, <2>1, <3>1, <3>4 DEF TimerInv, Exactly, PastInit, coreNumber
  <2> QED
    BY <2>2, <2>3
<1>7. CASE EndUpload(i)
  <2>1. /\ pc[i] = "real" /\ up[i].step = "returned" /\ uploads' = uploads + 1
        /\ pc' = [pc EXCEPT ![i] = pc'[i]] /\ pc'[i] \in {"next", "send"} /\ AddTimer' = AddTimer
        /\ failed \subseteq failed'
        /\ \A o \in Cores \ {i} : up'[o] = up[o]
    BY <1>7 DEF EndUpload, Returned, UploadType
  <2>2. i \in Ending /\ Ending' = Ending \ {i}
    BY <2>1 DEF Ending, UploadType
  <2>3. Cardinality(Ending') = Cardinality(Ending) - 1
    BY <1>1, <2>2, FS_RemoveElement
  <2>4. coreNumber' = coreNumber /\ (Exactly' => Exactly)
    BY <1>2, <1>3, <1>4, <2>1 DEF Exactly, coreNumber, UploadType, Before
  <2>5. Exactly => AddTimer' = uploads' + Cardinality(Ending')
    BY <1>1, <2>1, <2>3 DEF TimerInv, UploadType
  <2>8. PastInit' => PastInit
    BY <2>1 DEF PastInit, UploadType, Before
  <2>9. PastInit => AddTimer' <= uploads' + Cardinality(Ending')
    BY <1>1, <2>1, <2>3 DEF TimerInv, UploadType
  <2>6. coreNumber = 1 => pc'[0] \notin Before
    BY <1>2, <1>3, <2>1 DEF UploadType, Before
  <2>7. ~flags.redun => \A o \in Cores : pc'[o] # "sub"
    BY <2>1 DEF TimerInv, UploadType
  <2> QED
    BY <1>4, <2>4, <2>5, <2>6, <2>7, <2>8, <2>9 DEF TimerInv
<1>8. CASE TimersInit(i)
  <2>1. /\ pc[i] = "init" /\ pc' = [pc EXCEPT ![i] = "readdir"]
        /\ AddTimer' = (IF flags.redun THEN 0 ELSE AddTimer)
        /\ UNCHANGED <<uploads, failed, up>>
    BY <1>8 DEF TimersInit
  <2>2. Ending' = Ending
    BY <2>1 DEF Ending, UploadType
  <2>3. coreNumber = 1 => uploads = 0 /\ Ending = {}
    <3>1. coreNumber = 1 => \A o \in Cores : o # 0 => pc[o] = "none"
      BY DEF StallInv, Running, Cores
    <3> QED
      BY <1>2, <1>3, <2>1, <3>1 DEF Ending, TimerInv, Before
  <2>4. coreNumber = 1 => Cardinality(Ending') = 0
    BY <2>2, <2>3, FS_EmptySet
  <2>5. PastInit' => AddTimer' <= uploads' + Cardinality(Ending')
    <3>1. CASE flags.redun
      BY <1>1, <2>1, <2>2, <3>1 DEF UploadType
    <3>2. CASE ~flags.redun
      BY <1>1, <2>1, <2>2, <3>2 DEF TimerInv, Exactly, UploadType
    <3> QED
      BY <3>1, <3>2
  <2>6. coreNumber = 1 /\ pc'[0] \in Before => uploads' = 0
    BY <1>2, <1>3, <2>1 DEF UploadType, Before
  <2>7. ~flags.redun => \A o \in Cores : pc'[o] # "sub"
    BY <2>1 DEF TimerInv, UploadType
  <2>8. Exactly' => AddTimer' = uploads' + Cardinality(Ending')
    BY <1>2, <1>3, <1>4, <2>1, <2>2, <2>3, <2>4 DEF TimerInv, Exactly, coreNumber, UploadType
  <2> QED
    BY <1>4, <2>5, <2>6, <2>7, <2>8 DEF TimerInv, coreNumber
<1>9. CASE UploadSub(i) \/ UploadNext(i) \/ EndSub(i)
  <2>1. /\ \A o \in Cores \ {i} : pc'[o] = pc[o] /\ up'[o] = up[o]
        /\ UNCHANGED <<uploads, AddTimer>> /\ failed \subseteq failed'
    BY <1>9 DEF UploadSub, UploadNext, EndSub, Call, Returned, UploadType
  <2>2. /\ pc[i] # "real" /\ (pc'[i] = "real" => up'[i].step = "add")
        /\ ~flags.redun => pc'[i] # "sub"
        /\ pc'[i] \in Before => pc[i] \in Before
        /\ pc[i] \in Before /\ pc'[i] \notin Before => i \in failed'
    <3>1. CASE UploadSub(i)
      BY <3>1 DEF UploadSub, UploadType, Before
    <3>2. CASE UploadNext(i)
      <4>1. \E provide : Call(i, provide)
        BY <3>2 DEF UploadNext
      <4>2. up'[i].step = "add"
        BY <4>1 DEF Call, NoUpload, UploadType
      <4> QED
        BY <3>2, <4>2 DEF UploadNext, UploadType, Before
    <3>3. CASE EndSub(i)
      BY <3>3 DEF EndSub, UploadType, Before
    <3> QED
      BY <1>9, <3>1, <3>2, <3>3
  <2>3. Ending' = Ending
    BY <2>1, <2>2 DEF Ending
  <2> QED
    BY <1>5, <2>1, <2>2, <2>3
<1>10. CASE \/ Prepare(i) \/ EndGenerate(i) \/ WriteFile(i) \/ WriteFails(i)
            \/ ReadDir(i) \/ ReadDirFails(i) \/ EndLoop(i) \/ Stall(i)
  <2>1. /\ \A o \in Cores \ {i} : pc'[o] = pc[o]
        /\ UNCHANGED <<uploads, AddTimer, up>> /\ failed \subseteq failed'
    BY <1>10 DEF Prepare, EndGenerate, WriteFile, WriteFails, ReadDir, ReadDirFails, EndLoop, Stall,
                 UploadType
  <2>2. /\ pc[i] # "real" /\ pc'[i] \notin {"real", "sub"}
        /\ pc'[i] \in Before => pc[i] \in Before
        /\ pc[i] \in Before /\ pc'[i] \notin Before => i \in failed'
    BY <1>10 DEF Prepare, EndGenerate, WriteFile, WriteFails, ReadDir, ReadDirFails, EndLoop, Stall,
                 UploadType, Before
  <2>3. Ending' = Ending
    BY <2>1, <2>2 DEF Ending
  <2> QED
    BY <1>5, <2>1, <2>2, <2>3
<1> QED
  BY <1>6, <1>7, <1>8, <1>9, <1>10 DEF sendFunc

LEMMA UploadStutter == UploadInv /\ UNCHANGED vars => UploadInv'
<1> SUFFICES ASSUME UploadInv, UNCHANGED vars PROVE UploadInv'
  OBVIOUS
<1>1. UNCHANGED <<flags, stalls, closed, pc, dir, todo, firstupload, up, Dura, AddTimer, lone,
                  listed, failed, uploads>>
  BY DEF vars, mainVars, dirVars, upVars
<1>2. UploadType'
  BY <1>1 DEF UploadInv, UploadType
<1>3. StallInv'
  BY <1>1 DEF UploadInv, StallInv, Unreported, Running, coreNumber
<1>4. DirInv'
  BY <1>1 DEF UploadInv, DirInv, PerCore, coreNumber
<1>5. ListInv'
  BY <1>1 DEF UploadInv, ListInv
<1>6. LoneInv'
  BY <1>1 DEF UploadInv, LoneInv, Alone, Uploading, Cost
<1>7. TimerInv'
  BY <1>1 DEF UploadInv, TimerInv, Exactly, PastInit, Before, Ending, coreNumber
<1> QED
  BY <1>2, <1>3, <1>4, <1>5, <1>6, <1>7 DEF UploadInv

\* A replay leaves the upload alone.
LEMMA UploadInvariant == DriverSpec => []UploadInv
<1>1. DriverInit => UploadInv
  BY UploadAssumption, UploadInit DEF DriverInit
<1>2. ASSUME UploadInv, [DriverNext]_driverVars PROVE UploadInv'
  <2>1. CASE UNCHANGED vars
    BY <1>2, <2>1, UploadStutter
  <2>2. ASSUME NEW i \in Cores, sendFunc(i) PROVE UploadInv'
    BY <1>2, <2>2, UploadAssumption, UploadTypeStep, StallStep, DirStep, ListStep, LoneStep,
       TimerStep DEF UploadInv
  <2> QED
    BY <1>2, <2>1, <2>2 DEF DriverNext, UploadStep, driverVars
<1> QED
  BY <1>1, <1>2, PTL DEF DriverSpec

\* Theorem: Upload closes the list of cids only when all cores have ended, lists no file
\* twice, and lists all files of a core that met no error (main.go:266-345, 351-372).
THEOREM UploadListsOnce == DriverSpec => []ListedOnce
<1>1. UploadInv => ListedOnce
  <2> SUFFICES ASSUME UploadInv PROVE ListedOnce
    OBVIOUS
  <2>1. \A x \in DOMAIN listed : listed[x] <= 1
    <3>1. ASSUME NEW i \in Cores, NEW f \in Files PROVE listed[<<i, f>>] <= 1
      BY DEF UploadInv, ListInv
    <3> QED
      BY <3>1 DEF UploadInv, UploadType
  <2>2. closed => \A i \in Running : pc[i] = "done"
    BY DEF UploadInv, StallInv, Unreported
  <2>3. ASSUME closed, NEW i \in Running \ failed
        PROVE  \A f \in dir[i] \cup (IF flags.reGenerate THEN 1 .. PerCore ELSE {}) :
                  listed[<<i, f>>] = 1
    <3>1. i \in Cores /\ pc[i] = "done"
      BY <2>2, <2>3, UploadAssumption, PerCoreType DEF UploadInv
    <3>2. todo[i] = {} /\ \A f \in dir[i] : f \in todo[i] \/ listed[<<i, f>>] = 1
      BY <2>3, <3>1 DEF UploadInv, ListInv
    <3>3. flags.reGenerate => 1 .. PerCore \subseteq dir[i]
      BY <2>3, <3>1 DEF UploadInv, DirInv
    <3> QED
      BY <3>2, <3>3
  <2> QED
    BY <2>1, <2>2, <2>3 DEF ListedOnce
<1> QED
  BY <1>1, UploadInvariant, PTL

\* Theorem: whatever other uploads add to and reset, the durations an UploadFile that
\* overlapped none of them reports are its own (main.go:195-235).
THEOREM LoneUploadsReportTheirOwn == DriverSpec => []LoneUploadExact
<1>1. UploadInv => LoneUploadExact
  BY DEF UploadInv, LoneInv, Alone, LoneUploadExact
<1> QED
  BY <1>1, UploadInvariant, PTL

\* At the end of Upload the timer holds exactly the uploads of the second loop, unless
\* the redundancy option is on with several cores or a core that failed; if none failed it
\* holds no more than these, so no sub-file (main.go:299-302).
THEOREM TimerCountsRealUploads == DriverSpec => []CountsRealUploads
<1>1. UploadInv => CountsRealUploads
  <2> SUFFICES ASSUME UploadInv, closed
               PROVE  /\ ~flags.redun \/ (coreNumber = 1 /\ failed = {}) => AddTimer = uploads
                      /\ failed = {} => AddTimer <= uploads
    BY DEF CountsRealUploads
  <2>1. \A i \in Running : pc[i] = "done"
    BY DEF UploadInv, StallInv, Unreported
  <2>2. Ending = {}
    BY <2>1 DEF UploadInv, StallInv, Ending
  <2>3. Cardinality(Ending) = 0
    BY <2>2, FS_EmptySet
  <2>4. AddTimer \in Nat /\ uploads \in Nat
    BY DEF UploadInv, UploadType
  <2>5. ~flags.redun \/ (coreNumber = 1 /\ failed = {}) => Exactly
    <3>1. coreNumber = 1 => 0 \in Running
      BY DEF Running
    <3> QED
      BY <2>1, <3>1 DEF Exactly, Before
  <2>6. failed = {} => PastInit
    BY <2>1 DEF PastInit, Before, UploadInv, StallInv
  <2> QED
    BY <2>3, <2>4, <2>5, <2>6 DEF UploadInv, TimerInv
<1> QED
  BY <1>1, UploadInvariant, PTL

-----------------------------------------------------------------------------
(* TraceDownload and the reporters *)

TraceType ==
    /\ replay.n \in Nat \ {0}
    /\ dpc \in {"none", "get", "load", "append", "timer", "update", "all", "done", "panic"}
    /\ req \in Nat \ {0}
    /\ log \in [pc : {"sum", "line", "reset", "timer"}, rounds : Nat, sizes : SUBSET Nat]
    /\ back \in [pc : {"range", "replace", "print", "zero"}, rounds : Nat]
    /\ DownloadedFileSize \subseteq Nat /\ copy \subseteq Nat
    /\ IsFiniteSet(AvgDownloadLatency)
    /\ loggedSizes \in [T!Downloads -> Nat] /\ loggedLatencies \in Nat
    /\ RecvFrom \in [Senders -> Nat] /\ reportedRecv \in [Senders -> Nat]
    /\ received \in [Senders -> Nat]
    /\ provided \in Nat /\ reportedProvided \in Nat /\ provides \in Nat
    /\ call \in [Recorders -> [step : {"none", "recv", "provide"}, from : SUBSET Senders, val : Nat]]

\* The downloads are appended in order, up to the one under way.
AllInv ==
    /\ ALL_DownloadedFileSize = 1 .. req - 1
    /\ dpc = "get" => req <= replay.n + 1
    /\ dpc \in {"load", "append", "timer", "update", "all"} => req <= replay.n
    /\ dpc = "none" => req = 1
    /\ dpc = "done" => req = replay.n + 1

\* A size is in the slice or was logged: in the slice and logged between the line and the reset.
SizesInv ==
    dpc # "panic" /\ "sizes" \notin raced =>
       /\ dpc = "append" => copy = DownloadedFileSize
       /\ log.pc \in {"line", "reset"} => log.sizes = DownloadedFileSize
       /\ \A d \in T!Downloads :
             loggedSizes[d] + (IF log.pc # "reset" /\ d \in DownloadedFileSize THEN 1 ELSE 0)
                = IF d \in T!Sized THEN 1 ELSE 0

\* A latency is in the timer or was logged; one that a late update puts into the timer after
\* the line is lost with it.
Latencies == loggedLatencies
                + (IF log.pc \in {"sum", "line"} THEN Cardinality(AvgDownloadLatency) ELSE 0)
LatenciesInv ==
    dpc # "panic" =>
       /\ AvgDownloadLatency \subseteq T!Timed
       /\ Latencies <= Cardinality(T!Timed)
       /\ "latencies" \notin raced => Latencies = Cardinality(T!Timed)

\* A block is in RecvFrom, was reported, or is being recorded; at most one call of RecordRecv
\* is under way for a sender, and stores what it loaded.
Receiving(g, p) == call[g].step = "recv" /\ call[g].from = {p}
RecvInv ==
    /\ \A g \in Recorders : call[g].step = "recv" => \E p \in Senders : call[g].from = {p}
    /\ "recv" \notin raced =>
          \A p \in Senders :
             /\ \A g \in Recorders : Receiving(g, p) => call[g].val = RecvFrom[p]
             /\ \A g, o \in Recorders : Receiving(g, p) /\ Receiving(o, p) => g = o
             /\ reportedRecv[p] + (IF back.pc # "replace" THEN RecvFrom[p] ELSE 0)
                   + (IF \E g \in Recorders : Receiving(g, p) THEN 1 ELSE 0) = received[p]

\* The same of RecordProvide.
ProvideInv ==
    "provide" \notin raced =>
       /\ \A g \in T!Calls("provide") : call[g].val = provided
       /\ \A g, o \in T!Calls("provide") : g = o
       /\ reportedProvided + (IF back.pc # "zero" THEN provided ELSE 0)
             + (IF T!Calls("provide") # {} THEN 1 ELSE 0) = provides

TraceInv == TraceType /\ AllInv /\ SizesInv /\ LatenciesInv /\ RecvInv /\ ProvideInv

\* Cardinality is the same operator in the instance.
LEMMA SameCardinality == \A S : T!Cardinality(S) = Cardinality(S)
  BY DEF T!Cardinality, Cardinality

LEMMA TraceInit ==
    ASSUME MaxRequests \in Nat, T!Init
    PROVE  TraceInv
<1> USE DEF T!Init, T!Downloads, T!None, T!NoCall
<1>1. TraceType
  <2>1. replay.n \in Nat \ {0}
    OBVIOUS
  <2>2. IsFiniteSet(AvgDownloadLatency)
    BY FS_EmptySet
  <2> QED
    BY <2>1, <2>2 DEF TraceType
<1>2. AllInv /\ RecvInv /\ SizesInv
  BY DEF AllInv, RecvInv, Receiving, SizesInv, T!Sized
<1>3. LatenciesInv
  <2>1. T!Timed = {}
    BY DEF T!Timed
  <2> QED
    BY <2>1, FS_EmptySet DEF LatenciesInv, Latencies
<1>4. ProvideInv
  <2>1. T!Calls("provide") = {}
    BY DEF T!Calls
  <2> QED
    BY <2>1 DEF ProvideInv
<1> QED
  BY <1>1, <1>2, <1>3, <1>4 DEF TraceInv

\* A step of the replay is one of a server, of the downloader, of a reporter, or of a recorder,
\* and each leaves the others' variables alone.
LEMMA TraceSteps ==
    ASSUME T!Next
    PROVE  \/ UNCHANGED <<replay, dpc, req, copy, held, ALL_DownloadedFileSize,
                          DownloadedFileSize, AvgDownloadLatency, RecvFrom, provided, call,
                          received, provides, log, loggedSizes, loggedLatencies, back,
                          reportedRecv, reportedProvided, raced>>
           \/ /\ T!TraceDownload
              /\ UNCHANGED <<replay, RecvFrom, provided, call, received, provides, log,
                             loggedSizes, loggedLatencies, back, reportedRecv, reportedProvided>>
           \/ /\ T!LogSum \/ T!LogLine \/ T!ResetSizes \/ T!NewLatencyTimer
              /\ UNCHANGED <<replay, dpc, req, copy, held, ALL_DownloadedFileSize, RecvFrom,
                             provided, call, received, provides, back, reportedRecv,
                             reportedProvided>>
           \/ /\ \E g \in Recorders :
                    \/ \E p \in Senders : T!LoadRecv(g, p) \/ T!StoreRecv(g, p)
                    \/ T!LoadProvided(g) \/ T!StoreProvided(g)
              /\ UNCHANGED <<replay, dpc, req, copy, held, ALL_DownloadedFileSize,
                             DownloadedFileSize, AvgDownloadLatency, log, loggedSizes,
                             loggedLatencies, back, reportedRecv, reportedProvided>>
           \/ /\ \/ T!ReportRecv \/ T!ReplaceRecvFrom \/ T!ReplaceLocked \/ T!ReportProvided
                 \/ T!ZeroProvided
              /\ dpc \notin {"none", "done", "panic"}
              /\ UNCHANGED <<DownloadedFileSize, AvgDownloadLatency, log, loggedSizes,
                             loggedLatencies>>
<1> USE DEF T!replayVars, T!sizeVars, T!recvVars, T!logVars, T!backVars
<1>1. ASSUME NEW k \in T!Indices,
             T!SkipItem(k) \/ T!UploadItem(k) \/ T!UploadItemFails(k) \/ T!EndTraceUpload(k)
      PROVE  UNCHANGED <<replay, dpc, req, copy, held, ALL_DownloadedFileSize,
                          DownloadedFileSize, AvgDownloadLatency, RecvFrom, provided, call,
                          received, provides, log, loggedSizes, loggedLatencies, back,
                          reportedRecv, reportedProvided, raced>>
  BY <1>1 DEF T!SkipItem, T!UploadItem, T!UploadItemFails, T!EndTraceUpload, T!Server
<1>2. ASSUME T!TraceDownload
      PROVE  UNCHANGED <<replay, RecvFrom, provided, call, received, provides, log,
                             loggedSizes, loggedLatencies, back, reportedRecv, reportedProvided>>
  BY <1>2 DEF T!TraceDownload, T!DownGoto, T!BeginReplay, T!Get, T!LoadSizes,
              T!StoreSizes, T!LoadTimer, T!UpdateTimer, T!AppendAll, T!EndReplay
<1> QED
  BY <1>1, <1>2 DEF T!Next, T!PeriodLog, T!Record, T!BackReport, T!Running

LEMMA AllStep ==
    ASSUME TraceType, AllInv, T!Next
    PROVE  AllInv'
<1> USE DEF TraceType, AllInv
<1>1. CASE T!TraceDownload
  <2>1. replay' = replay
    BY <1>1, TraceSteps DEF T!TraceDownload, T!DownGoto, T!BeginReplay, T!Get, T!LoadSizes,
              T!StoreSizes, T!LoadTimer, T!UpdateTimer, T!AppendAll, T!EndReplay
  <2>2. CASE T!AppendAll
    <3>1. (1 .. req - 1) \cup {req} = 1 .. req
      OBVIOUS
    <3> QED
      BY <2>1, <2>2, <3>1 DEF T!AppendAll, T!DownGoto
  <2>3. CASE T!BeginReplay \/ T!Get \/ T!EndReplay
    BY <2>1, <2>3 DEF T!DownGoto, T!BeginReplay, T!Get, T!EndReplay
  <2>4. CASE T!LoadSizes \/ T!StoreSizes \/ T!LoadTimer \/ T!UpdateTimer
    BY <2>1, <2>4 DEF T!DownGoto, T!LoadSizes, T!StoreSizes, T!LoadTimer, T!UpdateTimer
  <2> QED
    BY <1>1, <2>2, <2>3, <2>4 DEF T!TraceDownload
<1>2. CASE UNCHANGED <<replay, req, ALL_DownloadedFileSize>> /\ (dpc' = dpc \/ dpc' = "panic")
  BY <1>2
<1>3. CASE T!ReportRecv \/ T!ReplaceRecvFrom \/ T!ReplaceLocked \/ T!ReportProvided
           \/ T!ZeroProvided
  BY <1>2, <1>3 DEF T!ReportRecv, T!ReplaceRecvFrom, T!ReplaceLocked, T!ReportProvided,
                    T!ZeroProvided, T!replayVars
<1> QED
  BY <1>1, <1>2, <1>3, TraceSteps

LEMMA TraceTypeStep ==
    ASSUME TraceType, T!Next
    PROVE  TraceType'
<1> USE DEF TraceType
<1>1. IsFiniteSet(AvgDownloadLatency \cup {req})
  BY FS_AddElement
<1>2. CASE T!TraceDownload
  <2>1. /\ UNCHANGED <<replay, RecvFrom, provided, call, received, provides, log,
                       loggedSizes, loggedLatencies, back, reportedRecv, reportedProvided>>
        /\ dpc' \in {"none", "get", "load", "append", "timer", "update", "all", "done", "panic"}
    BY <1>2 DEF T!TraceDownload, T!DownGoto, T!BeginReplay, T!Get, T!LoadSizes, T!StoreSizes,
                T!LoadTimer, T!UpdateTimer, T!AppendAll, T!EndReplay, T!recvVars, T!logVars,
                T!backVars
  <2>2. req' \in Nat \ {0} /\ DownloadedFileSize' \subseteq Nat /\ copy' \subseteq Nat
    BY <1>2 DEF T!TraceDownload, T!BeginReplay, T!Get, T!LoadSizes, T!StoreSizes, T!LoadTimer,
                T!UpdateTimer, T!AppendAll, T!EndReplay, T!sizeVars
  <2>3. AvgDownloadLatency' \in {AvgDownloadLatency, AvgDownloadLatency \cup {req}}
    BY <1>2 DEF T!TraceDownload, T!BeginReplay, T!Get, T!LoadSizes, T!StoreSizes, T!LoadTimer,
                T!UpdateTimer, T!AppendAll, T!EndReplay, T!sizeVars
  <2>4. IsFiniteSet(AvgDownloadLatency')
    BY <1>1, <2>3
  <2> QED
    BY <2>1, <2>2, <2>4
<1>3. ASSUME T!LogSum \/ T!LogLine \/ T!ResetSizes \/ T!NewLatencyTimer,
             UNCHANGED <<replay, dpc, req, copy, held, ALL_DownloadedFileSize, RecvFrom,
                         provided, call, received, provides, back, reportedRecv,
                         reportedProvided>>
      PROVE  TraceType'
  <2>1. CASE T!LogSum
    BY <1>3, <2>1 DEF T!LogSum, T!sizeVars
  <2>2. CASE T!LogLine
    <3>1. Cardinality(AvgDownloadLatency) \in Nat
      BY FS_CardinalityType
    <3>2. loggedSizes' \in [T!Downloads -> Nat]
      BY <2>2 DEF T!LogLine
    <3>3. loggedLatencies' \in Nat
      <4>1. loggedLatencies' = loggedLatencies + Cardinality(AvgDownloadLatency)
        BY <2>2, SameCardinality DEF T!LogLine
      <4> QED
        BY <3>1, <4>1
    <3>4. log' = [log EXCEPT !.pc = "reset"] /\ UNCHANGED <<DownloadedFileSize, AvgDownloadLatency>>
      BY <2>2 DEF T!LogLine, T!LogGoto, T!sizeVars
    <3> QED
      BY <1>3, <3>2, <3>3, <3>4
  <2>3. CASE T!ResetSizes
    BY <1>3, <2>3 DEF T!ResetSizes, T!LogGoto
  <2>4. CASE T!NewLatencyTimer
    BY <1>3, <2>4, FS_EmptySet DEF T!NewLatencyTimer
  <2> QED
    BY <1>3, <2>1, <2>2, <2>3, <2>4
<1>4. ASSUME NEW g \in Recorders,
             \/ \E p \in Senders : T!LoadRecv(g, p) \/ T!StoreRecv(g, p)
             \/ T!LoadProvided(g) \/ T!StoreProvided(g),
             UNCHANGED <<replay, dpc, req, copy, held, ALL_DownloadedFileSize,
                         DownloadedFileSize, AvgDownloadLatency, log, loggedSizes,
                         loggedLatencies, back, reportedRecv, reportedProvided>>
      PROVE  TraceType'
  <2>1. CASE \E p \in Senders : T!LoadRecv(g, p)
    BY <1>4, <2>1 DEF T!LoadRecv
  <2>2. CASE \E p \in Senders : T!StoreRecv(g, p)
    BY <1>4, <2>2 DEF T!StoreRecv, T!NoCall
  <2>3. CASE T!LoadProvided(g)
    BY <1>4, <2>3 DEF T!LoadProvided
  <2>4. CASE T!StoreProvided(g)
    BY <1>4, <2>4 DEF T!StoreProvided, T!NoCall
  <2> QED
    BY <1>4, <2>1, <2>2, <2>3, <2>4
<1>5. ASSUME T!ReportRecv \/ T!ReplaceRecvFrom \/ T!ReplaceLocked \/ T!ReportProvided
             \/ T!ZeroProvided,
             UNCHANGED <<DownloadedFileSize, AvgDownloadLatency, log, loggedSizes,
                         loggedLatencies>>
      PROVE  TraceType'
  <2> USE DEF T!replayVars, T!recvVars, T!backVars
  <2>1. CASE T!ReportRecv
    BY <1>5, <2>1 DEF T!ReportRecv
  <2>2. CASE T!ReplaceRecvFrom
    BY <1>5, <2>2 DEF T!ReplaceRecvFrom, T!None
  <2>3. CASE T!ReplaceLocked
    BY <1>5, <2>3 DEF T!ReplaceLocked
  <2>4. CASE T!ReportProvided
    BY <1>5, <2>4 DEF T!ReportProvided
  <2>5. CASE T!ZeroProvided
    BY <1>5, <2>5 DEF T!ZeroProvided
  <2> QED
    BY <1>5, <2>1, <2>2, <2>3, <2>4, <2>5
<1>6. CASE UNCHANGED <<replay, dpc, req, copy, held, ALL_DownloadedFileSize,
                       DownloadedFileSize, AvgDownloadLatency, RecvFrom, provided, call,
                       received, provides, log, loggedSizes, loggedLatencies, back,
                       reportedRecv, reportedProvided, raced>>
  BY <1>6
<1> QED
  BY <1>2, <1>3, <1>4, <1>5, <1>6, TraceSteps

\* A store of sizes between the line and its reset, or around the reset, is a race.
LEMMA SizesStep ==
    ASSUME TraceType, AllInv, SizesInv, T!Next
    PROVE  SizesInv'
<1> USE DEF SizesInv, T!Race
<1>1. CASE T!TraceDownload /\ UNCHANGED <<log, loggedSizes>>
  <2>1. CASE T!BeginReplay
    BY <1>1, <2>1 DEF T!BeginReplay, T!DownGoto, T!Sized, T!sizeVars
  <2>2. CASE T!Get
    BY <1>1, <2>2 DEF T!Get, T!DownGoto, T!Sized, T!sizeVars
  <2>3. CASE T!LoadSizes
    BY <1>1, <2>3 DEF T!LoadSizes, T!DownGoto, T!Sized, T!sizeVars
  <2>4. CASE T!StoreSizes
    <3>1. SUFFICES ASSUME "sizes" \notin raced' PROVE SizesInv'
      OBVIOUS
    <3>2. /\ dpc = "append" /\ dpc' = "timer" /\ req' = req
          /\ log.pc \notin {"line", "reset"} /\ "sizes" \notin raced
      BY <1>1, <2>4, <3>1 DEF T!StoreSizes, T!DownGoto
    <3>3. DownloadedFileSize' = DownloadedFileSize \cup {req}
      BY <2>4, <3>2 DEF T!StoreSizes
    <3>4. T!Sized = 1 .. req - 1 /\ T!Sized' = 1 .. req
      BY <3>2 DEF T!Sized
    <3>5. ASSUME NEW d \in T!Downloads
          PROVE  loggedSizes[d] + (IF d \in DownloadedFileSize' THEN 1 ELSE 0)
                    = IF d \in T!Sized' THEN 1 ELSE 0
      <4>1. /\ loggedSizes[d] + (IF d \in DownloadedFileSize THEN 1 ELSE 0)
                  = IF d \in T!Sized THEN 1 ELSE 0
            /\ loggedSizes[d] \in Nat
        BY <3>2 DEF TraceType
      <4> QED
        BY <3>3, <3>4, <4>1 DEF TraceType, T!Downloads
    <3> QED
      BY <1>1, <3>2, <3>5
  <2>5. CASE T!LoadTimer \/ T!UpdateTimer
    BY <1>1, <2>5 DEF T!LoadTimer, T!UpdateTimer, T!DownGoto, T!Sized, T!sizeVars
  <2>6. CASE T!AppendAll
    BY <1>1, <2>6 DEF T!AppendAll, T!DownGoto, T!Sized, T!sizeVars, TraceType
  <2>7. CASE T!EndReplay
    BY <1>1, <2>7 DEF T!EndReplay, T!DownGoto, T!Sized, T!sizeVars
  <2> QED
    BY <1>1, <2>1, <2>2, <2>3, <2>4, <2>5, <2>6, <2>7 DEF T!TraceDownload
<1>2. ASSUME T!LogSum \/ T!LogLine \/ T!ResetSizes \/ T!NewLatencyTimer,
             UNCHANGED <<dpc, req, copy>>
      PROVE  SizesInv'
  <2>1. T!Sized' = T!Sized
    BY <1>2 DEF T!Sized
  <2>2. CASE T!LogSum
    BY <1>2, <2>1, <2>2 DEF T!LogSum, T!sizeVars, TraceType
  <2>3. CASE T!LogLine
    <3>1. /\ log.pc = "line" /\ log'.pc = "reset" /\ log'.sizes = log.sizes
          /\ UNCHANGED <<DownloadedFileSize, raced>>
          /\ \A d \in T!Downloads :
                loggedSizes'[d] = loggedSizes[d] + IF d \in log.sizes THEN 1 ELSE 0
      BY <2>3 DEF T!LogLine, T!LogGoto, T!sizeVars, TraceType
    <3> QED
      BY <1>2, <2>1, <3>1
  <2>4. CASE T!ResetSizes
    <3>1. /\ log.pc = "reset" /\ log'.pc = "timer" /\ DownloadedFileSize' = {}
          /\ UNCHANGED loggedSizes
          /\ "sizes" \notin raced' => "sizes" \notin raced /\ dpc # "append"
      BY <2>4 DEF T!ResetSizes, T!LogGoto, TraceType
    <3> QED
      BY <1>2, <2>1, <3>1
  <2>5. CASE T!NewLatencyTimer
    BY <1>2, <2>1, <2>5 DEF T!NewLatencyTimer, TraceType
  <2> QED
    BY <1>2, <2>2, <2>3, <2>4, <2>5
<1>3. ASSUME UNCHANGED <<req, copy, DownloadedFileSize, log, loggedSizes>>,
             dpc' = dpc \/ dpc' = "panic",
             "sizes" \in raced => "sizes" \in raced'
      PROVE  SizesInv'
  BY <1>3 DEF T!Sized
<1>4. ASSUME NEW g \in Recorders,
             \/ \E p \in Senders : T!LoadRecv(g, p) \/ T!StoreRecv(g, p)
             \/ T!LoadProvided(g) \/ T!StoreProvided(g)
      PROVE  "sizes" \in raced => "sizes" \in raced'
  BY <1>4 DEF T!LoadRecv, T!StoreRecv, T!LoadProvided, T!StoreProvided
<1>5. ASSUME T!ReportRecv \/ T!ReplaceRecvFrom \/ T!ReplaceLocked \/ T!ReportProvided
             \/ T!ZeroProvided
      PROVE  /\ UNCHANGED <<req, copy>> /\ (dpc' = dpc \/ dpc' = "panic")
             /\ "sizes" \in raced => "sizes" \in raced'
  BY <1>5 DEF T!ReportRecv, T!ReplaceRecvFrom, T!ReplaceLocked, T!ReportProvided,
              T!ZeroProvided, T!replayVars
<1>6. CASE UNCHANGED <<dpc, req, copy, DownloadedFileSize, log, loggedSizes, raced>>
  BY <1>3, <1>6
<1> QED
  BY <1>1, <1>2, <1>3, <1>4, <1>5, <1>6, TraceSteps

\* A latency that a timer other than the current one gets, or one that was logged, is a race.
LEMMA LatenciesStep ==
    ASSUME TraceType, LatenciesInv, T!Next
    PROVE  LatenciesInv'
<1> USE DEF LatenciesInv, Latencies, T!Race
<1>1. IsFiniteSet(AvgDownloadLatency) /\ Cardinality(AvgDownloadLatency) \in Nat
  BY FS_CardinalityType DEF TraceType
<1>2. CASE T!TraceDownload /\ UNCHANGED <<log, loggedLatencies>>
  <2>1. CASE T!UpdateTimer
    <3>1. /\ dpc = "update" /\ dpc' = "all" /\ req' = req
          /\ "latencies" \notin raced' =>
                /\ held = log.rounds /\ log.pc \in {"sum", "line"} /\ "latencies" \notin raced
                /\ AvgDownloadLatency' = AvgDownloadLatency \cup {req}
          /\ AvgDownloadLatency' \in {AvgDownloadLatency, AvgDownloadLatency \cup {req}}
      BY <2>1 DEF T!UpdateTimer, T!DownGoto, TraceType
    <3>2. req \in Nat /\ T!Timed = 1 .. req - 1 /\ T!Timed' = 1 .. req
      BY <3>1 DEF T!Timed, TraceType
    <3>3. /\ AvgDownloadLatency \subseteq 1 .. req - 1
          /\ Cardinality(1 .. req - 1) = req - 1 /\ Cardinality(1 .. req) = req
      <4>1. req \in Int /\ req - 1 \in Int /\ req > 0 /\ AvgDownloadLatency \subseteq T!Timed
        BY <3>1 DEF TraceType
      <4>2. Cardinality(1 .. req - 1) = req - 1
        BY <4>1, FS_Interval
      <4>3. Cardinality(1 .. req) = req
        BY <4>1, FS_Interval
      <4> QED
        BY <3>2, <4>1, <4>2, <4>3
    <3>4. Cardinality(AvgDownloadLatency \cup {req}) = Cardinality(AvgDownloadLatency) + 1
      <4>1. req \notin AvgDownloadLatency
        BY <3>2, <3>3
      <4> QED
        BY <1>1, <4>1, FS_AddElement
    <3>5. AvgDownloadLatency' \subseteq T!Timed'
      BY <3>1, <3>2, <3>3
    <3>6. Cardinality(T!Timed) = req - 1 /\ Cardinality(T!Timed') = req
      BY <3>2, <3>3
    <3>7. ASSUME "latencies" \notin raced'
          PROVE  loggedLatencies + Cardinality(AvgDownloadLatency') = Cardinality(T!Timed')
      <4>1. loggedLatencies + Cardinality(AvgDownloadLatency) = Cardinality(T!Timed)
        BY <3>1, <3>7
      <4>2. Cardinality(AvgDownloadLatency') = Cardinality(AvgDownloadLatency) + 1
        BY <3>1, <3>4, <3>7
      <4>3. loggedLatencies \in Nat
        BY DEF TraceType
      <4> HIDE DEF LatenciesInv
      <4> QED
        BY <1>1, <3>2, <3>6, <4>1, <4>2, <4>3
    <3>8. Latencies' <= Cardinality(T!Timed')
      <4>1. Latencies <= Cardinality(T!Timed)
        BY <3>1
      <4>2. Cardinality(AvgDownloadLatency') \in
               {Cardinality(AvgDownloadLatency), Cardinality(AvgDownloadLatency) + 1}
        BY <3>1, <3>4
      <4>3. loggedLatencies \in Nat
        BY DEF TraceType
      <4> HIDE DEF LatenciesInv
      <4> QED
        BY <1>1, <1>2, <3>2, <3>6, <4>1, <4>2, <4>3
    <3> QED
      BY <1>2, <3>1, <3>5, <3>7, <3>8
  <2>2. CASE ~T!UpdateTimer
    <3>1. UNCHANGED <<AvgDownloadLatency>> /\ ("latencies" \in raced => "latencies" \in raced')
      BY <1>2, <2>2 DEF T!TraceDownload, T!BeginReplay, T!Get, T!LoadSizes, T!StoreSizes,
                        T!LoadTimer, T!AppendAll, T!EndReplay, T!sizeVars
    <3>2. dpc' # "panic" => dpc # "panic" /\ T!Timed' = T!Timed
      BY <1>2, <2>2 DEF T!TraceDownload, T!BeginReplay, T!Get, T!LoadSizes, T!StoreSizes,
                        T!LoadTimer, T!AppendAll, T!EndReplay, T!DownGoto, T!Timed, TraceType
    <3> QED
      BY <1>2, <3>1, <3>2
  <2> QED
    BY <2>1, <2>2
<1>3. ASSUME T!LogSum \/ T!LogLine \/ T!ResetSizes \/ T!NewLatencyTimer,
             UNCHANGED <<dpc, req, copy>>
      PROVE  LatenciesInv'
  <2>1. T!Timed' = T!Timed
    BY <1>3 DEF T!Timed
  <2>2. CASE T!LogSum
    BY <1>3, <2>1, <2>2 DEF T!LogSum, T!sizeVars, TraceType
  <2>3. CASE T!LogLine
    <3>1. /\ log.pc = "line" /\ log'.pc = "reset" /\ UNCHANGED <<AvgDownloadLatency, raced>>
          /\ loggedLatencies' = loggedLatencies + Cardinality(AvgDownloadLatency)
      BY <2>3, SameCardinality DEF T!LogLine, T!LogGoto, T!sizeVars, TraceType
    <3> QED
      BY <1>1, <1>3, <2>1, <3>1 DEF TraceType
  <2>4. CASE T!ResetSizes
    <3>1. /\ log.pc = "reset" /\ log'.pc = "timer"
          /\ UNCHANGED <<AvgDownloadLatency, loggedLatencies>>
          /\ "latencies" \in raced => "latencies" \in raced'
      BY <2>4 DEF T!ResetSizes, T!LogGoto, TraceType
    <3> QED
      BY <1>3, <2>1, <3>1
  <2>5. CASE T!NewLatencyTimer
    <3>1. /\ log.pc = "timer" /\ log'.pc = "sum" /\ AvgDownloadLatency' = {}
          /\ UNCHANGED <<loggedLatencies, raced>>
      BY <2>5 DEF T!NewLatencyTimer
    <3>2. Cardinality(AvgDownloadLatency') = 0
      BY <3>1, FS_EmptySet
    <3> QED
      BY <1>3, <2>1, <3>1, <3>2 DEF TraceType
  <2> QED
    BY <1>3, <2>2, <2>3, <2>4, <2>5
<1>4. ASSUME UNCHANGED <<req, AvgDownloadLatency, log, loggedLatencies>>,
             dpc' = dpc \/ dpc' = "panic",
             "latencies" \in raced => "latencies" \in raced'
      PROVE  LatenciesInv'
  BY <1>4 DEF T!Timed
<1>5. ASSUME NEW g \in Recorders,
             \/ \E p \in Senders : T!LoadRecv(g, p) \/ T!StoreRecv(g, p)
             \/ T!LoadProvided(g) \/ T!StoreProvided(g)
      PROVE  "latencies" \in raced => "latencies" \in raced'
  BY <1>5 DEF T!LoadRecv, T!StoreRecv, T!LoadProvided, T!StoreProvided
<1>6. ASSUME T!ReportRecv \/ T!ReplaceRecvFrom \/ T!ReplaceLocked \/ T!ReportProvided
             \/ T!ZeroProvided
      PROVE  /\ UNCHANGED req /\ (dpc' = dpc \/ dpc' = "panic")
             /\ "latencies" \in raced => "latencies" \in raced'
  BY <1>6 DEF T!ReportRecv, T!ReplaceRecvFrom, T!ReplaceLocked, T!ReportProvided,
              T!ZeroProvided, T!replayVars
<1>7. CASE UNCHANGED <<dpc, req, AvgDownloadLatency, log, loggedLatencies, raced>>
  BY <1>4, <1>7
<1> QED
  BY <1>2, <1>3, <1>4, <1>5, <1>6, <1>7, TraceSteps

\* Two calls for one sender, a call around the replacement of the map, and one that stores
\* between the report and the replacement are races.
LEMMA RecvStep ==
    ASSUME TraceType, RecvInv, T!Next
    PROVE  RecvInv'
<1> USE DEF TraceType, T!Race
<1> DEFINE Busy(p) == \E g \in Recorders : Receiving(g, p)
           Sum(p) == /\ \A g \in Recorders : Receiving(g, p) => call[g].val = RecvFrom[p]
                     /\ \A g, o \in Recorders : Receiving(g, p) /\ Receiving(o, p) => g = o
                     /\ reportedRecv[p] + (IF back.pc # "replace" THEN RecvFrom[p] ELSE 0)
                           + (IF Busy(p) THEN 1 ELSE 0) = received[p]
<1>1. "recv" \notin raced => \A p \in Senders : Sum(p)
  BY DEF RecvInv
<1>2. ASSUME \A g \in Recorders : call'[g].step = "recv" => \E p \in Senders : call'[g].from = {p},
             "recv" \notin raced' => \A p \in Senders : Sum(p)'
      PROVE  RecvInv'
  BY <1>2 DEF RecvInv
<1>3. \A g \in Recorders : call[g].step = "recv" => \E p \in Senders : call[g].from = {p}
  BY DEF RecvInv
\* A recorder that begins or ends a call.
<1>4. ASSUME NEW g \in Recorders, NEW p \in Senders, T!LoadRecv(g, p), back' = back,
             reportedRecv' = reportedRecv
      PROVE  RecvInv'
  <2>1. /\ call[g].step = "none"
        /\ call' = [call EXCEPT ![g] = [step |-> "recv", from |-> {p}, val |-> RecvFrom[p]]]
        /\ received' = [received EXCEPT ![p] = @ + 1] /\ RecvFrom' = RecvFrom
        /\ "recv" \notin raced' =>
              "recv" \notin raced /\ ~\E o \in Recorders : call[o].step = "recv" /\ call[o].from = {p}
    <3>1. T!Calls("recv") = {o \in Recorders : call[o].step = "recv"}
      BY DEF T!Calls
    <3>2. "recv" \notin raced' =>
             "recv" \notin raced /\ ~\E o \in T!Calls("recv") : call[o].from = {p}
      BY <1>4 DEF T!LoadRecv
    <3>3. call[g] = T!NoCall
      BY <1>4 DEF T!LoadRecv, T!MayCall
    <3> QED
      BY <1>4, <3>1, <3>2, <3>3 DEF T!LoadRecv, T!NoCall
  <2>2. \A o \in Recorders : call'[o].step = "recv" => \E q \in Senders : call'[o].from = {q}
    BY <1>3, <2>1
  <2>3. ASSUME "recv" \notin raced', NEW q \in Senders PROVE Sum(q)'
    <3>1. \A o \in Recorders : Receiving(o, q)' <=> (Receiving(o, q) \/ (o = g /\ q = p))
      BY <2>1 DEF Receiving
    <3>2. ~\E o \in Recorders : Receiving(o, p)
      BY <2>1, <2>3 DEF Receiving
    <3>3. Sum(q)
      BY <1>1, <2>1, <2>3
    <3>4. CASE q = p
      <4>1. \A o \in Recorders : Receiving(o, p)' <=> o = g
        BY <3>1, <3>2, <3>4
      <4>2. call'[g].val = RecvFrom[p] /\ received'[p] = received[p] + 1
        BY <2>1
      <4> QED
        BY <1>4, <2>1, <3>2, <3>3, <3>4, <4>1, <4>2
    <3>5. CASE q # p
      <4>1. \A o \in Recorders : Receiving(o, q)' <=> Receiving(o, q)
        BY <3>1, <3>5
      <4>2. \A o \in Recorders : Receiving(o, q) => o # g
        BY <2>1 DEF Receiving
      <4>3. \A o \in Recorders : o # g => call'[o] = call[o]
        BY <2>1
      <4>4. received'[q] = received[q]
        BY <2>1, <3>5
      <4> QED
        BY <1>4, <2>1, <3>3, <4>1, <4>2, <4>3, <4>4
    <3> QED
      BY <3>4, <3>5
  <2> QED
    BY <1>2, <2>2, <2>3
<1>5. ASSUME NEW g \in Recorders, NEW p \in Senders, T!StoreRecv(g, p), back' = back,
             reportedRecv' = reportedRecv
      PROVE  RecvInv'
  <2>1. /\ Receiving(g, p)
        /\ call' = [call EXCEPT ![g] = T!NoCall]
        /\ RecvFrom' = [RecvFrom EXCEPT ![p] = call[g].val + 1] /\ received' = received
        /\ "recv" \notin raced' => "recv" \notin raced /\ back.pc # "replace"
    BY <1>5 DEF T!StoreRecv, Receiving
  <2>2. \A o \in Recorders : call'[o].step = "recv" => \E q \in Senders : call'[o].from = {q}
    BY <1>3, <2>1 DEF T!NoCall
  <2>3. ASSUME "recv" \notin raced', NEW q \in Senders PROVE Sum(q)'
    <3>1. \A o \in Recorders : Receiving(o, q)' <=> (Receiving(o, q) /\ o # g)
      BY <2>1 DEF Receiving, T!NoCall
    <3>2. Sum(q) /\ back.pc # "replace"
      BY <1>1, <2>1, <2>3
    <3>3. \A o \in Recorders : o # g => call'[o] = call[o]
      BY <2>1
    <3>4. CASE q = p
      <4>1. \A o \in Recorders : ~Receiving(o, p)'
        BY <2>1, <3>1, <3>2, <3>4
      <4>2. RecvFrom'[p] = RecvFrom[p] + 1
        BY <2>1, <3>2, <3>4
      <4>3. Busy(p)
        BY <2>1
      <4>4. reportedRecv[p] + RecvFrom[p] + 1 = received[p]
        BY <3>2, <3>4, <4>3
      <4>5. reportedRecv[p] \in Nat /\ RecvFrom[p] \in Nat
        OBVIOUS
      <4>6. reportedRecv'[p] + RecvFrom'[p] + 0 = received'[p]
        BY <1>5, <2>1, <4>2, <4>4, <4>5
      <4>7. ~Busy(p)' /\ back'.pc # "replace"
        BY <1>5, <3>2, <4>1
      <4>8. reportedRecv'[p] + (IF back'.pc # "replace" THEN RecvFrom'[p] ELSE 0)
               + (IF Busy(p)' THEN 1 ELSE 0) = received'[p]
        BY <4>6, <4>7
      <4> QED
        BY <3>4, <4>1, <4>8
    <3>5. CASE q # p
      <4>1. \A o \in Recorders : Receiving(o, q)' <=> Receiving(o, q)
        BY <2>1, <3>1, <3>5 DEF Receiving
      <4>2. \A o \in Recorders : Receiving(o, q) => o # g
        BY <2>1, <3>5 DEF Receiving
      <4>3. RecvFrom'[q] = RecvFrom[q]
        BY <2>1, <3>5
      <4> QED
        BY <1>5, <2>1, <3>2, <3>3, <4>1, <4>2, <4>3
    <3> QED
      BY <3>4, <3>5
  <2> QED
    BY <1>2, <2>2, <2>3
\* Nothing of it changes.
<1>6. ASSUME \A g \in Recorders : \/ call'[g] = call[g]
                                  \/ call[g].step # "recv" /\ call'[g].step # "recv",
             UNCHANGED <<RecvFrom, received, reportedRecv>>,
             back'.pc = "replace" <=> back.pc = "replace",
             "recv" \in raced => "recv" \in raced'
      PROVE  RecvInv'
  <2>1. \A g \in Recorders, p \in Senders : Receiving(g, p)' <=> Receiving(g, p)
    BY <1>6 DEF Receiving
  <2>2. \A g \in Recorders, p \in Senders : Receiving(g, p) => call'[g] = call[g]
    BY <1>6 DEF Receiving
  <2>3. ASSUME "recv" \notin raced', NEW p \in Senders PROVE Sum(p)'
    <3>1. Sum(p)
      BY <1>1, <1>6, <2>3
    <3> QED
      BY <1>6, <2>1, <2>2, <3>1
  <2> QED
    BY <1>2, <1>3, <1>6, <2>3
<1>7. CASE T!ReportRecv
  <2>1. /\ back.pc = "range" /\ back'.pc = "replace"
        /\ \A p \in Senders : reportedRecv'[p] = reportedRecv[p] + RecvFrom[p]
        /\ UNCHANGED <<call, RecvFrom, received, raced>>
    BY <1>7 DEF T!ReportRecv, T!recvVars
  <2>2. ASSUME "recv" \notin raced', NEW p \in Senders PROVE Sum(p)'
    <3>1. Sum(p) /\ \A g \in Recorders : Receiving(g, p)' <=> Receiving(g, p)
      BY <1>1, <2>1, <2>2 DEF Receiving
    <3> QED
      BY <2>1, <3>1
  <2> QED
    BY <1>2, <1>3, <2>1, <2>2
<1>8. CASE T!ReplaceRecvFrom
  <2>1. /\ back.pc = "replace" /\ back'.pc = "print"
        /\ \A p \in Senders : RecvFrom'[p] = 0
        /\ UNCHANGED <<call, received, reportedRecv>>
        /\ "recv" \notin raced' => "recv" \notin raced /\ T!Calls("recv") = {}
    BY <1>8 DEF T!ReplaceRecvFrom, T!None
  <2>2. ASSUME "recv" \notin raced', NEW p \in Senders PROVE Sum(p)'
    <3>1. \A g \in Recorders : ~Receiving(g, p) /\ ~Receiving(g, p)'
      BY <2>1, <2>2 DEF Receiving, T!Calls
    <3>2. Sum(p)
      BY <1>1, <2>1, <2>2
    <3> QED
      BY <2>1, <3>1, <3>2
  <2> QED
    BY <1>2, <1>3, <2>1, <2>2
<1>9. CASE T!ReplaceLocked \/ T!ReportProvided \/ T!ZeroProvided
  BY <1>6, <1>9 DEF T!ReplaceLocked, T!ReportProvided, T!ZeroProvided, T!recvVars, T!backVars
<1>10. ASSUME NEW g \in Recorders, T!LoadProvided(g) \/ T!StoreProvided(g),
              UNCHANGED <<back, reportedRecv>>
       PROVE  RecvInv'
  <2>1. /\ call' = [call EXCEPT ![g] = call'[g]]
        /\ call[g].step # "recv" /\ call'[g].step # "recv"
        /\ UNCHANGED <<RecvFrom, received>> /\ ("recv" \in raced => "recv" \in raced')
    <3>1. CASE T!LoadProvided(g)
      <4>1. call[g] = T!NoCall
        BY <3>1 DEF T!LoadProvided, T!MayCall
      <4>2. /\ call' = [call EXCEPT ![g] = [step |-> "provide", from |-> {}, val |-> provided]]
            /\ UNCHANGED <<RecvFrom, received>>
        BY <3>1 DEF T!LoadProvided
      <4>3. "recv" \in raced => "recv" \in raced'
        BY <3>1 DEF T!LoadProvided
      <4> QED
        BY <4>1, <4>2, <4>3 DEF T!NoCall
    <3>2. CASE T!StoreProvided(g)
      BY <3>2 DEF T!StoreProvided, T!NoCall
    <3> QED
      BY <1>10, <3>1, <3>2
  <2>2. \A o \in Recorders : o # g => call'[o] = call[o]
    BY <2>1
  <2> QED
    BY <1>6, <1>10, <2>1, <2>2
<1>11. ASSUME \/ T!TraceDownload
              \/ T!LogSum \/ T!LogLine \/ T!ResetSizes \/ T!NewLatencyTimer
       PROVE  "recv" \in raced => "recv" \in raced'
  BY <1>11 DEF T!LogSum, T!LogLine, T!ResetSizes, T!NewLatencyTimer, T!TraceDownload,
               T!BeginReplay, T!Get, T!LoadSizes, T!StoreSizes, T!LoadTimer, T!UpdateTimer,
               T!AppendAll, T!EndReplay
<1>12. CASE UNCHANGED <<RecvFrom, call, received, back, reportedRecv>>
            /\ ("recv" \in raced => "recv" \in raced')
  BY <1>6, <1>12
<1> QED
  BY <1>4, <1>5, <1>7, <1>8, <1>9, <1>10, <1>11, <1>12, TraceSteps

\* Two calls of RecordProvide at a time, or one around the reset of the counter, are a race.
LEMMA ProvideStep ==
    ASSUME TraceType, ProvideInv, T!Next
    PROVE  ProvideInv'
<1> USE DEF T!Race
<1> DEFINE Calling == {g \in Recorders : call[g].step = "provide"}
           Sum == /\ \A g \in Calling : call[g].val = provided
                  /\ \A g, o \in Calling : g = o
                  /\ reportedProvided + (IF back.pc # "zero" THEN provided ELSE 0)
                        + (IF Calling # {} THEN 1 ELSE 0) = provides
<1>1. "provide" \notin raced => Sum
  BY DEF ProvideInv, T!Calls
<1>2. ASSUME "provide" \notin raced' => Sum' PROVE ProvideInv'
  BY <1>2 DEF ProvideInv, T!Calls
<1>3. /\ provided \in Nat /\ reportedProvided \in Nat /\ provides \in Nat
      /\ DOMAIN call = Recorders /\ \A g \in Recorders : call[g].val \in Nat
      /\ call \in [Recorders -> [step : {"none", "recv", "provide"}, from : SUBSET Senders, val : Nat]]
  BY DEF TraceType
<1>4. ASSUME NEW g \in Recorders, T!LoadProvided(g), UNCHANGED <<back, reportedProvided>>
      PROVE  ProvideInv'
  <2>1. /\ call' = [call EXCEPT ![g] = [step |-> "provide", from |-> {}, val |-> provided]]
        /\ provides' = provides + 1 /\ provided' = provided
    BY <1>4 DEF T!LoadProvided
  <2>2. "provide" \notin raced' => "provide" \notin raced /\ T!Calls("provide") = {}
    BY <1>4 DEF T!LoadProvided
  <2>3. SUFFICES ASSUME "provide" \notin raced' PROVE Sum'
    BY <1>2
  <2>4. Calling = {} /\ Sum
    BY <1>1, <2>2, <2>3 DEF T!Calls
  <2>5. Calling' = {g} /\ call'[g].val = provided
    BY <1>3, <2>1, <2>4
  <2>6. provides = reportedProvided + (IF back.pc # "zero" THEN provided ELSE 0)
    BY <1>3, <2>4
  <2>7. reportedProvided' + (IF back'.pc # "zero" THEN provided' ELSE 0) + 1 = provides'
    BY <1>3, <1>4, <2>1, <2>6
  <2> HIDE DEF Calling
  <2> QED
    BY <2>1, <2>5, <2>7
<1>5. ASSUME NEW g \in Recorders, T!StoreProvided(g), UNCHANGED <<back, reportedProvided>>
      PROVE  ProvideInv'
  <2>1. /\ call[g].step = "provide" /\ call' = [call EXCEPT ![g] = T!NoCall]
        /\ provides' = provides /\ provided' = call[g].val + 1
        /\ "provide" \notin raced' => "provide" \notin raced /\ back.pc # "zero"
    BY <1>5 DEF T!StoreProvided
  <2>2. SUFFICES ASSUME "provide" \notin raced' PROVE Sum'
    BY <1>2
  <2>3. Sum /\ back.pc # "zero"
    BY <1>1, <2>1, <2>2
  <2>4. g \in Calling /\ provided' = provided + 1
    BY <2>1, <2>3
  <2>5. Calling' = {}
    BY <1>3, <2>1, <2>3, <2>4 DEF T!NoCall
  <2>6. reportedProvided + provided + 1 = provides
    BY <2>3, <2>4
  <2>7. reportedProvided' + (IF back'.pc # "zero" THEN provided' ELSE 0) + 0 = provides'
    BY <1>3, <1>5, <2>1, <2>3, <2>4, <2>6
  <2> HIDE DEF Calling
  <2> QED
    BY <2>5, <2>7
\* Nothing of it changes.
<1>6. ASSUME \A g \in Recorders : \/ call'[g] = call[g]
                                  \/ call[g].step # "provide" /\ call'[g].step # "provide",
             UNCHANGED <<provided, provides, reportedProvided>>,
             back'.pc = "zero" <=> back.pc = "zero",
             "provide" \in raced => "provide" \in raced'
      PROVE  ProvideInv'
  <2>1. Calling' = Calling /\ \A g \in Calling : call'[g] = call[g]
    BY <1>6
  <2> QED
    BY <1>1, <1>2, <1>6, <2>1
<1>7. CASE T!ReportProvided
  <2>1. /\ back.pc = "print" /\ back'.pc = "zero"
        /\ reportedProvided' = reportedProvided + provided
        /\ UNCHANGED <<call, provided, provides, raced>>
    BY <1>7 DEF T!ReportProvided, T!recvVars, TraceType
  <2> QED
    BY <1>1, <1>2, <1>3, <2>1
<1>8. CASE T!ZeroProvided
  <2>1. /\ back.pc = "zero" /\ back'.pc = "range" /\ provided' = 0
        /\ UNCHANGED <<call, provides, reportedProvided>>
        /\ "provide" \notin raced' => "provide" \notin raced /\ T!Calls("provide") = {}
    BY <1>8 DEF T!ZeroProvided
  <2>2. SUFFICES ASSUME "provide" \notin raced' PROVE Sum'
    BY <1>2
  <2>3. Sum /\ Calling = {} /\ Calling' = {}
    BY <1>1, <2>1, <2>2 DEF T!Calls
  <2> QED
    BY <1>3, <2>1, <2>3
<1>9. CASE T!ReportRecv \/ T!ReplaceRecvFrom \/ T!ReplaceLocked
  BY <1>6, <1>9 DEF T!ReportRecv, T!ReplaceRecvFrom, T!ReplaceLocked, T!recvVars, T!backVars,
                    TraceType
<1>10. ASSUME NEW g \in Recorders, NEW p \in Senders, T!LoadRecv(g, p) \/ T!StoreRecv(g, p),
              UNCHANGED <<back, reportedProvided>>
       PROVE  ProvideInv'
  <2>1. /\ call' = [call EXCEPT ![g] = call'[g]]
        /\ call[g].step # "provide" /\ call'[g].step # "provide"
        /\ UNCHANGED <<provided, provides>> /\ ("provide" \in raced => "provide" \in raced')
    <3>1. CASE T!LoadRecv(g, p)
      <4>1. call[g] = T!NoCall
        BY <3>1 DEF T!LoadRecv, T!MayCall
      <4>2. call' = [call EXCEPT ![g] = [step |-> "recv", from |-> {p}, val |-> RecvFrom[p]]]
        BY <3>1 DEF T!LoadRecv
      <4>3. UNCHANGED <<provided, provides>> /\ ("provide" \in raced => "provide" \in raced')
        BY <3>1 DEF T!LoadRecv
      <4> QED
        BY <1>3, <4>1, <4>2, <4>3 DEF T!NoCall
    <3>2. CASE T!StoreRecv(g, p)
      BY <1>3, <3>2 DEF T!StoreRecv, T!NoCall
    <3> QED
      BY <1>10, <3>1, <3>2
  <2>2. \A o \in Recorders : o # g => call'[o] = call[o]
    BY <1>3, <2>1
  <2> QED
    BY <1>6, <1>10, <2>1, <2>2
<1>11. ASSUME \/ T!TraceDownload
              \/ T!LogSum \/ T!LogLine \/ T!ResetSizes \/ T!NewLatencyTimer
       PROVE  "provide" \in raced => "provide" \in raced'
  BY <1>11 DEF T!LogSum, T!LogLine, T!ResetSizes, T!NewLatencyTimer, T!TraceDownload,
               T!BeginReplay, T!Get, T!LoadSizes, T!StoreSizes, T!LoadTimer, T!UpdateTimer,
               T!AppendAll, T!EndReplay
<1>12. CASE UNCHANGED <<provided, call, provides, back, reportedProvided>>
            /\ ("provide" \in raced => "provide" \in raced')
  BY <1>6, <1>12
<1> QED
  BY <1>4, <1>5, <1>7, <1>8, <1>9, <1>10, <1>11, <1>12, TraceSteps

LEMMA TraceStutter == TraceInv /\ UNCHANGED T!vars => TraceInv'
<1> SUFFICES ASSUME TraceInv, UNCHANGED T!vars PROVE TraceInv'
  OBVIOUS
<1>1. UNCHANGED <<replay, dpc, req, copy, ALL_DownloadedFileSize, DownloadedFileSize,
                  AvgDownloadLatency, RecvFrom, provided, call, received, provides, log,
                  loggedSizes, loggedLatencies, back, reportedRecv, reportedProvided, raced>>
  BY DEF T!vars, T!replayVars, T!sizeVars, T!recvVars, T!logVars, T!backVars
<1>2. UNCHANGED <<T!Sized, T!Timed>> /\ T!Calls("provide")' = T!Calls("provide")
  BY <1>1 DEF T!Sized, T!Timed, T!Calls
<1>3. TraceType' /\ AllInv'
  BY <1>1 DEF TraceInv, TraceType, AllInv
<1>4. SizesInv' /\ LatenciesInv'
  BY <1>1, <1>2 DEF TraceInv, SizesInv, LatenciesInv, Latencies
<1>5. RecvInv' /\ ProvideInv'
  BY <1>1, <1>2 DEF TraceInv, RecvInv, Receiving, ProvideInv
<1> QED
  BY <1>3, <1>4, <1>5 DEF TraceInv

LEMMA TraceInvariant ==
    ASSUME MaxRequests \in Nat
    PROVE  DriverSpec => []TraceInv
<1>1. DriverInit => TraceInv
  BY TraceInit DEF DriverInit
<1>2. ASSUME TraceInv, [DriverNext]_driverVars PROVE TraceInv'
  <2>1. CASE T!Next
    BY <1>2, <2>1, AllStep, TraceTypeStep, SizesStep, LatenciesStep, RecvStep, ProvideStep
       DEF TraceInv
  <2>2. CASE UNCHANGED traceVars
    <3>1. UNCHANGED T!vars
      BY <2>2 DEF traceVars, T!vars, T!serverVars, T!replayVars, T!sizeVars, T!recvVars,
                  T!logVars, T!backVars
    <3> QED
      BY <1>2, <3>1, TraceStutter
  <2> QED
    BY <1>2, <2>1, <2>2 DEF DriverNext, UploadStep, driverVars
<1> QED
  BY <1>1, <1>2, PTL DEF DriverSpec

\* Theorem: as long as none of a kind (sizes, latencies, blocks, provides) is recorded between
\* a report's read of it and the reset that follows, each of that kind is still there or was
\* reported, and only once (metrics.go:138-157, 509-543). Latencies are never reported twice,
\* whenever they are recorded, and the totals of the end are exact (main.go:672-675).
THEOREM ReplayReportsAddUp ==
    ASSUME MaxRequests \in Nat
    PROVE  DriverSpec => []ReportsAddUp
<1>1. TraceInv => ReportsAddUp
  <2> SUFFICES ASSUME TraceInv PROVE T!ReportsAddUp
    BY DEF ReportsAddUp
  <2>1. log.pc = "sum" /\ dpc # "panic" /\ "sizes" \notin raced =>
          \A d \in T!Downloads :
              loggedSizes[d] + (IF d \in DownloadedFileSize THEN 1 ELSE 0)
                  = IF d \in T!Sized THEN 1 ELSE 0
    BY DEF TraceInv, SizesInv
  <2>2. log.pc = "sum" /\ dpc # "panic" =>
          /\ loggedLatencies + T!Cardinality(AvgDownloadLatency) <= T!Cardinality(T!Timed)
          /\ "latencies" \notin raced =>
                loggedLatencies + T!Cardinality(AvgDownloadLatency) = T!Cardinality(T!Timed)
    BY SameCardinality DEF TraceInv, LatenciesInv, Latencies
  <2>3. back.pc = "range" /\ T!Calls("recv") = {} /\ "recv" \notin raced =>
          \A p \in Senders : reportedRecv[p] + RecvFrom[p] = received[p]
    <3> SUFFICES ASSUME back.pc = "range", T!Calls("recv") = {}, "recv" \notin raced,
                        NEW p \in Senders
                 PROVE  reportedRecv[p] + RecvFrom[p] = received[p]
      OBVIOUS
    <3>1. \A g \in Recorders : ~Receiving(g, p)
      BY DEF T!Calls, Receiving
    <3>2. reportedRecv[p] \in Nat /\ RecvFrom[p] \in Nat
      BY DEF TraceInv, TraceType
    <3> QED
      BY <3>1, <3>2 DEF TraceInv, RecvInv
  <2>4. back.pc = "range" /\ T!Calls("provide") = {} /\ "provide" \notin raced =>
          reportedProvided + provided = provides
    BY DEF TraceInv, TraceType, ProvideInv
  <2>5. dpc = "done" => ALL_DownloadedFileSize = 1 .. replay.n
    BY DEF TraceInv, TraceType, AllInv
  <2> QED
    BY <2>1, <2>2, <2>3, <2>4, <2>5 DEF T!ReportsAddUp
<1> QED
  BY <1>1, TraceInvariant, PTL
=============================================================================
