------------------------ MODULE PeerResponseHistory ------------------------
(***************************************************************************)
(* PeerResponseHistory.go: how long each peer took to answer its last      *)
(* query, in an LRU cache, and the average of all answers.  Goroutines of  *)
(* the routing call Update and GetScore at any time, also while main ends  *)
(* and writes the cache to the end of cache.txt, which the next run loads. *)
(* A process may be killed, and the buffered writer may have written any   *)
(* part of the lines by then.                                              *)
(*                                                                         *)
(* The file is a sequence of lines [key, dur, end].  Its last line may be  *)
(* cut inside the key or inside the value; what is appended continues it.  *)
(* Keys have no blank in them.                                             *)
(***************************************************************************)
EXTENDS Integers, Sequences, SequencesExt

CONSTANTS
    Peers, Routines, Durs,      \* Durs: milliseconds a peer may take
    Size,                       \* entries of the LRU cache
    torn,                       \* a key joined from parts of two
    MaxRuns, MaxUpdates         \* bounds: runs, and updates in each of them

ASSUME HistoryAssumption ==
    /\ torn \notin Peers /\ Durs \subseteq Nat /\ Size \in Nat \ {0}

VARIABLES
    file,               \* cache.txt
    proc,               \* "down", "up", "storing"
    lruCache,           \* entries, the oldest first
    avgTime, updateCnt, \* avgTime: a fraction <<n, d>>
    upd,                \* calls of Update
    keys, written,      \* Store: what Keys() returned, lines in the buffer
    runs,
    measured,           \* peer -> what it took, ever (ghost)
    sums,               \* number, sum and longest of the updates of this run (ghost)
    overlap,            \* two updates of this run overlapped (ghost)
    complete            \* the last Store that began ended (ghost)

memVars == <<lruCache, avgTime, updateCnt, upd, sums, overlap>>
diskVars == <<file, keys, written, complete>>
vars == <<memVars, diskVars, proc, runs, measured>>

NoCall == [step |-> "none", dur |-> 0, avg |-> <<0, 1>>, cnt |-> 0]

Init ==
    /\ file = <<>> /\ keys = <<>> /\ written = <<>>
    /\ proc = "down" /\ runs = 0
    /\ lruCache = <<>> /\ avgTime = <<0, 1>> /\ updateCnt = 0
    /\ upd = [g \in Routines |-> NoCall]
    /\ measured = [p \in Peers |-> {}]
    /\ sums = <<0, 0, 0>> /\ overlap = FALSE
    /\ complete = TRUE

-----------------------------------------------------------------------------
(* The LRU cache *)

Entry(k, d) == [key |-> k, dur |-> d]

\* The other entries; a key has one entry at most.
Others(c, k) ==
    LET at == {i \in DOMAIN c : c[i].key = k}
    IN IF at = {} THEN c ELSE RemoveAt(c, CHOOSE i \in at : TRUE)

Peek(c, k) == {c[i] : i \in {j \in DOMAIN c : c[j].key = k}}
Keys(c) == [i \in DOMAIN c |-> c[i].key]

\* lru.Add makes the entry the newest, and drops the oldest of too many.
AddEntry(c, e) ==
    LET added == Append(Others(c, e.key), e)
    IN IF Len(added) > Size THEN Tail(added) ELSE added

-----------------------------------------------------------------------------
(* cache.txt *)

Line(e) == [key |-> e.key, dur |-> e.dur, end |-> "line"]

BugLastField(cut, l) ==
    CASE cut.end = "key" -> [l EXCEPT !.key = torn]
      [] cut.end = "value" /\ l.end = "line" -> [l EXCEPT !.key = cut.key]
      [] OTHER -> cut

\* What a line becomes that continues a cut one: a key with a piece of another in
\* front, or a value with letters in it.
Joined(cut, l) ==
    CASE cut.end = "key" -> [l EXCEPT !.key = torn]
      [] cut.end = "value" /\ l.end = "line" -> [cut EXCEPT !.dur = -1, !.end = "line"]
      [] OTHER -> cut

Written(f, l) ==
    IF f # <<>> /\ Last(f).end # "line" THEN Append(Front(f), Joined(Last(f), l))
    ELSE Append(f, l)

\* Load reads to the end of the file, or to the first value that is not a number.
Readable(f) ==
    LET bad == {i \in DOMAIN f : f[i].dur = -1 \/ f[i].end # "line"}
    IN {i \in DOMAIN f : \A j \in bad : i < j}

BugFirstCounts(f) ==
    FoldLeft(LAMBDA c, l : IF Peek(c, l.key) # {} THEN c ELSE AddEntry(c, Entry(l.key, l.dur)),
             <<>>, SubSeq(f, 1, Cardinality(Readable(f))))

Loaded(f) ==
    FoldLeft(LAMBDA c, l : AddEntry(c, Entry(l.key, l.dur)), <<>>,
             SubSeq(f, 1, Cardinality(Readable(f))))

\* main: NewPeerRH, Load
Start ==
    /\ proc = "down" /\ runs < MaxRuns
    /\ proc' = "up" /\ runs' = runs + 1
    /\ lruCache' = Loaded(file)
    /\ UNCHANGED <<avgTime, updateCnt, upd, sums, overlap, diskVars, measured>>

-----------------------------------------------------------------------------
(* Update, findTime *)

Alive == proc # "down"
Weighted(avg, cnt, tm) == <<avg[1] * cnt + tm * avg[2], avg[2] * (cnt + 1)>>

UpdateAdd(g, p, tm) ==
    /\ Alive /\ upd[g].step = "none" /\ sums[1] < MaxUpdates
    /\ lruCache' = AddEntry(lruCache, Entry(p, tm))
    /\ upd' = [upd EXCEPT ![g] = [NoCall EXCEPT !.step = "load", !.dur = tm]]
    /\ overlap' = (overlap \/ \E o \in Routines : upd[o].step # "none")
    /\ sums' = <<sums[1] + 1, sums[2] + tm, Max({sums[3], tm})>>
    /\ measured' = [measured EXCEPT ![p] = @ \cup {tm}]
    /\ UNCHANGED <<avgTime, updateCnt, diskVars, proc, runs>>

LoadAvg(g) ==
    /\ Alive /\ upd[g].step = "load"
    /\ upd' = [upd EXCEPT ![g].step = "count", ![g].avg = avgTime]
    /\ UNCHANGED <<lruCache, avgTime, updateCnt, sums, overlap, diskVars, proc, runs, measured>>

ReadCount(g) ==
    /\ Alive /\ upd[g].step = "count"
    /\ upd' = [upd EXCEPT ![g].step = "inc", ![g].cnt = updateCnt]
    /\ UNCHANGED <<lruCache, avgTime, updateCnt, sums, overlap, diskVars, proc, runs, measured>>

BugNoInc(g) ==
    /\ Alive /\ upd[g].step = "inc"
    /\ upd' = [upd EXCEPT ![g].step = "store"]
    /\ UNCHANGED <<lruCache, avgTime, updateCnt, sums, overlap, diskVars, proc, runs, measured>>

Inc(g) ==
    /\ Alive /\ upd[g].step = "inc"
    /\ updateCnt' = updateCnt + 1
    /\ upd' = [upd EXCEPT ![g].step = "store"]
    /\ UNCHANGED <<lruCache, avgTime, sums, overlap, diskVars, proc, runs, measured>>

StoreAvg(g) ==
    /\ Alive /\ upd[g].step = "store"
    /\ avgTime' = Weighted(upd[g].avg, upd[g].cnt, upd[g].dur)
    /\ upd' = [upd EXCEPT ![g] = NoCall]
    /\ UNCHANGED <<lruCache, updateCnt, sums, overlap, diskVars, proc, runs, measured>>

\* GetScore: a hit makes the peer the newest; a miss takes the average.
FindTime(p) ==
    /\ Alive
    /\ \E e \in Peek(lruCache, p) : lruCache' = AddEntry(lruCache, e)
    /\ UNCHANGED <<avgTime, updateCnt, upd, sums, overlap, diskVars, proc, runs, measured>>

-----------------------------------------------------------------------------
(* Store, deferred by main *)

BeginStore ==
    /\ proc = "up"
    /\ proc' = "storing"
    /\ keys' = Keys(lruCache) /\ written' = <<>>
    /\ UNCHANGED <<memVars, file, complete, runs, measured>>

StoreEntry ==
    /\ proc = "storing" /\ Len(written) < Len(keys)
    /\ \E e \in Peek(lruCache, keys[Len(written) + 1]) :
          written' = Append(written, Line(e))
    /\ UNCHANGED <<memVars, file, keys, complete, proc, runs, measured>>

\* The memory of the process is lost, and new in the next.
Down ==
    /\ proc' = "down"
    /\ lruCache' = <<>> /\ avgTime' = <<0, 1>> /\ updateCnt' = 0
    /\ upd' = [g \in Routines |-> NoCall]
    /\ sums' = <<0, 0, 0>> /\ overlap' = FALSE
    /\ UNCHANGED <<runs, measured>>

EndStore ==
    /\ proc = "storing" /\ Len(written) = Len(keys)
    /\ file' = FoldLeft(Written, file, written)
    /\ complete' = TRUE
    /\ Down
    /\ UNCHANGED <<keys, written>>

\* What is in the file when the process ends before Flush: the first n lines of the
\* buffer, and perhaps a part of the next.
CutShort ==
    \E n \in 0 .. Len(written), cut \in {"none", "key", "value"} :
        /\ cut # "none" => n < Len(written)
        /\ file' = FoldLeft(Written, file,
                            SubSeq(written, 1, n) \o
                            IF cut = "none" THEN <<>>
                            ELSE <<[written[n + 1] EXCEPT !.end = cut]>>)

\* Peek finds nothing, and the conversion of nil panics.
StorePanics ==
    /\ proc = "storing" /\ Len(written) < Len(keys)
    /\ Peek(lruCache, keys[Len(written) + 1]) = {}
    /\ CutShort
    /\ Down
    /\ complete' = FALSE /\ keys' = <<>> /\ written' = <<>>

\* Killed, or os.Exit elsewhere: deferred functions do not run. A file that cannot be
\* opened leaves the same.
Kill ==
    /\ Alive
    /\ IF proc = "storing"
       THEN CutShort /\ complete' = FALSE /\ keys' = <<>> /\ written' = <<>>
       ELSE UNCHANGED <<file, complete, keys, written>>
    /\ Down

Update(g) ==
    \/ \E p \in Peers, tm \in Durs : UpdateAdd(g, p, tm)
    \/ LoadAvg(g) \/ ReadCount(g) \/ Inc(g) \/ StoreAvg(g)

Store == BeginStore \/ StoreEntry \/ EndStore \/ StorePanics

Next ==
    \/ Start \/ Store \/ Kill
    \/ \E g \in Routines : Update(g)
    \/ \E p \in Peers : FindTime(p)

Spec == Init /\ [][Next]_vars

-----------------------------------------------------------------------------
(* Properties *)

Intact(f) == \A i \in DOMAIN f : f[i].end = "line" /\ f[i].dur # -1 /\ f[i].key # torn

\* After a Store that ended, and with no torn line, the next run loads what that Store
\* wrote, in the same order of recency, whatever older runs left in the file in front
\* of it (PeerResponseHistory.go:266-307, 310-337).
RestartRemembers ==
    proc = "down" /\ complete /\ Intact(file) =>
        /\ Keys(Loaded(file)) = keys
        /\ \A i \in DOMAIN keys : Loaded(file)[i].dur = written[i].dur

\* A run never starts with a time that was not measured of that peer: torn lines may
\* hide entries and invent a peer, not give a peer the time of another
\* (PeerResponseHistory.go:279-300).
OnlyMeasured ==
    proc = "down" =>
        \A i \in DOMAIN Loaded(file) :
            LET e == Loaded(file)[i] IN e.key \in Peers => e.dur \in measured[e.key]

Quiet == \A g \in Routines : upd[g].step = "none"

\* Without overlapping updates avgTime is the mean of the run; lost updates may make it
\* too short, never longer than the slowest answer
\* (PeerResponseHistory.go:247-256).
AverageSound ==
    /\ Alive /\ Quiet /\ ~overlap =>
          /\ updateCnt = sums[1]
          /\ avgTime[1] * sums[1] = sums[2] * avgTime[2]
    /\ avgTime[1] <= sums[3] * avgTime[2]
=============================================================================
