# Verification of IPFS-Benchmarking

TLA+ modules, TLC configurations and TLAPS proofs for the Go program in `src/`:
an IPFS node with a block-fetching engine of its own (`local-node/pbitswap`),
metrics that are written from many goroutines (`local-node/metrics`), a
benchmark driver (`local-node/main.go`), and a few tools around it. The heart
of the program, and of this project, is *pbitswap*: many goroutines fetch the
blocks of one file from many peers and share a table, several lists and a flag
without a common lock.

Run everything from this directory: `tlc -config X.cfg M`, `tlapm M.tla`.

## 1. The system

| Component (source) | State | Operations | Interaction | Correct when |
|---|---|---|---|---|
| Dispatcher (`pbitswap/dispatcher.go`) | `queryState` (block -> empty, pending, filled), `cids`, `worker` | `Dispatch3`, `blkFind`, `blkPending`, `squeeze` | one main goroutine; workers report on the channel `finish`; finders on `providers` | every block of the file is visited; nil is returned for a complete file |
| Worker (`pbitswap/worker.go`) | `sequence`, `distances`, `requestEachTime`, `working`; a round's `requests`, `numOfRequest` | `run`, `absorb2` | a goroutine per peer, sometimes two; `blkFind` of one worker writes the lists of all others | asks only for known blocks; rounds end; what it marks filled is visited |
| Batch size (`pbitswap/adjust.go`) | `L`, `tolerate`, last efficiency, history, misses | `Adjust5` after each round | called by the worker | time-out follows the misses; batch stays useful |
| Provider finders (`dispatcher.go` 206-265) | `dispatcher_close` (package-wide), `providers` | two loops that query the routing | one closes the channel the other sends on | fetches do not disturb each other; finders stop |
| Find-provider monitor (`metrics/findProviderMonitor.go`, `metrics.go` 307-394) | per multihash an event: seeds, first requests, fathers | six handlers, `CollectFPMonitor` | called by the routing, a goroutine per peer; collected by the downloader | the fathers form paths that end; the collection ends |
| Block monitor, timers, reporters (`metrics/monitor.go`, `metrics.go`) | events and counters by block, peer, minute | record, report, reset | written by bitswap, reset by background loops | no update is lost |
| Peer response history (`PeerResponseHistory.go`) | average per peer, file | `Update`, `Load`, `Store` | concurrent updates, restart | averages are of the measured times |
| Driver (`main.go`) | flags of `-c`; cid file; work channels, timers, package variables of durations | `Upload`, `DownloadSerial`, `TraceUpload`, `TraceDownload`, back end | goroutines that share all of these | each file is listed once, times are of the measured files, commands return |
| Block broadcast (`tools/blockchain_front_end.go`, `main.go` 703-827) | connections, two shared temporary files | add at one back end, fetch at all others | TCP | the answer is of the request |
| HTTP files (`httpfs`) | a directory; lists of names | `Upload`, `Download`, `uploadHandler` | HTTP; a goroutine per request and per download thread | a stored file is whole; an undisturbed one is downloaded as it was uploaded |
| Log tools, remote API, indexer scripts | none | one-pass text processing | external services | - |

What is hard: workers read the block table, act on what they read and write it
back while others do the same; a flag that is raised by the goroutine it
describes; an end that is decided by looking at workers one by one; package
variables shared by independent fetches; time-outs and retries of a batch; an
event put back into a list after it was replaced there; reports that reset what
others add to; files that several connections or several runs write, or that are
read while they are written.
`PROJECT.json` lists the hazards line by line, with the properties aimed at each.

## 2. Modules

| Module | Models | State and actions |
|---|---|---|
| `BlockFetch` | what a caller of `Dispatch3` relies on (abstract) | visited blocks and a status; `Visit`, `Complete`, `GiveUp` |
| `BlockSets` | the block lists of a worker as sets | what `absorb2` adds, what a pass of `squeeze` takes |
| `BatchSize` | what `Adjust5` may return, without the clock | `AdjustOutcomes` |
| `Dispatcher` | one `Dispatch3` and all its workers | see below |
| `BlockSequence` | `absorb2` and `squeeze` on the lists of the code | a step is one locked call of `absorb2` with any batch |
| `DynamicAdjuster` | `Adjust5` with measured times | a step is one round |
| `Worker` | the two together: requests of `squeeze` go to `Adjust5`, its batch size to `squeeze` | `Absorb`, `Round` |
| `ProviderFinders` | several `Dispatch3` with their finders and the shared `dispatcher_close` | main loop, two finders per call |
| `FindProviderMonitor` | the event of one multihash under concurrent lookups and a collection | load and store of each handler |
| `BlockMonitor` | what the handlers of `monitor.go` do to the event of a block | operators, event in, events out |
| `Download` | `DownloadSerial` with bitswap calling those handlers | threads; load and store of each handler; `CollectMonitor` |
| `Upload` | `Upload` and `UploadFile` | a goroutine per core, package-wide durations |
| `TraceReplay` | `TraceUpload`, `TraceDownload`, the period log and the back-end report | servers, one downloader, recorders, two reporters |
| `Driver` | the switch of `main` over these commands | one command at a time |
| `PeerResponseHistory` | the LRU cache, its average and its file | `Update` in five steps, `Load`, `Store`, kill |
| `BlockBroadcast` | front ends, back ends, their connections and temporary files | ADD, GET, commit, crash, broken connection |
| `HttpFiles` | clients that upload and download, and their server | list, request, file, response; kill of clients, restart of the server |
| `MC...` | constants for TLC | |
| `...Proofs` | theorems about `...`; `DriverProofs` also about `Upload` and `TraceReplay`, `WorkerProofs` about `Worker` and its two parts, `ServerProofs` about `BlockBroadcast` and `HttpFiles` | |

How they fit together: `Dispatcher` EXTENDS `BlockSets` and `BatchSize`, and
implements `BlockFetch` (`Fetch`, `FetchSpec`). `BlockSequence` shows that the
sorted lists of the code compute the sets of `BlockSets`. `DynamicAdjuster`
shows that the code with its clock stays within `BatchSize`. `Worker` EXTENDS and joins
these two. `ProviderFinders`
takes the opposite view of `Dispatch3`: workers are left out, and everything is
kept that touches the two finders and their channel. `Download` EXTENDS
`BlockMonitor`. `Driver` EXTENDS `Upload` and instantiates `TraceReplay`; its
variable `cmd` says which command the process runs, and the part that is not
run keeps one initial state.

### Dispatcher

Variables keep the names of the code. `mpc` is the control point of
`Dispatch3`, `pc[r]` that of the goroutine `r` = <peer, slot> in `run()`.
The grain is what another goroutine can see:

| Code | Action |
|---|---|
| `Dispatch3` before its loop (root visited, `blkFind` of its links) | `Start` |
| provider reported: known, new; `d.worker.Store`; `go run()` | `RecvKnownProvider`, `RecvNewProvider`, `Register`, `Spawn` |
| `finish` received, workers looked at one by one, all idle | `Finish`, `ScanWorker`, `AllEnds` |
| `d.ctx` cancelled, seen by `Dispatch3`, by a worker | `CancelCtx`, `CtxReturn`, `CtxExit` |
| `run()` begins; two passes of `squeeze`; `blkPending` per block | `RunStart`, `SqueezeEmpty`, `SqueezePending`, `BlkPending` |
| block received and its state loaded; `Filled` stored; `visit` | `Receive`, `Fill`, `Visit` |
| `blkFind`: Load; Store and read of `d.cids`; write of `d.cids`; `absorb2` of all workers | `FindLoad`, `FindStore`, `FindAppend`, `Inform` |
| limiter ticks; `Adjust5`; next batch | `RoundTimeout`, `NextRound` |
| deferred `working = false` | `RunExit` |

Simplifications, all of them on the side of data or grain: a pass of `squeeze`
and the sweep of `blkFind` over the workers are one step each. The visit of the
root succeeds, and so do decoding and `visit` of a received block. The data
race on the slice `d.cids` is the choice of what ends up in the
slot and of which appends are lost; a torn slice header is not modelled. Two
blocks never have the same distance from a peer (an XOR of hashes).

### ProviderFinders

`mpc`, `fpc`, `cpc` are the control points of `Dispatch3` and of its finders of
full providers and co-workers. `AllEnds` may happen whenever there is a worker,
which covers whatever the workers do. A `select` with a default sends only to a
loop that waits already (`FullSend`); a plain send waits for the loop
(`CoSend`); a send on a closed channel panics, and then nothing moves any more.
Reads of `dispatcher_close` see the last write, although the code has no lock.

### FindProviderMonitor

Each handler is a load (of the event and the test of its maps) and a store (of
the field and of the event back into the list). `pe` numbers the events made,
`m` the monitors, because `CollectFPMonitor` replaces the monitor while
handlers still hold the old one. Of the times only the order of the first
requests matters. The lookup is the routing's, so external: it asks the peers
it knows, and learns the closer peers of an answer after `GotCloserFrom`
returned. `QueryPeer`, `ReceiveResult` and `PMGotProviders` record times only
and are left out. The store of a father and the put-back that follows it are
one step; there is one collector at a time.

### DynamicAdjuster, BlockSequence, Worker

An efficiency is a pair <blocks, duration>, so that comparisons are exact.
`Adjust5` is one step: only the goroutine of its worker calls it (two do after
a double start, which `Dispatcher` includes). `BlockSequence` merges real
sequences; `Batches` are the lists it may get.
The sort is the one order by distance (`Sorted`): the blocks it gets are different ones.
A `Round` of `Worker` is the code from `squeeze` to `Adjust5`: it asks for what `squeeze` finds
with any block table, and any number of these arrive in any time. It is one step because
`squeeze` works on a copy of the lists, so that an `absorb2` in between changes nothing for it.

### BlockMonitor, Download

`BlockEvent` is a struct stored by value in a concurrent map, so a handler is a
load and a store, and of two handlers of one block the second to store wins.
`BlockMonitor` says what is stored, `Download` when: `CallHandler` loads,
`StoreEvent` stores. A thread of `DownloadSerial` gets a file (`Begin`, `GetReturns`,
`WriteReturns`), ends it with `CollectMonitor` (`CollectBreakdown`, `CollectTotals`: a report
of *all* blocks the monitor knows; `ReplaceMonitor`: a new one for all threads) and
provides it (`Provide`). In which order bitswap calls the
handlers is not in this repository; `Ready` says what it keeps to, and
`CallsOf` which calls it makes, each at most once per block and peer. Blocks of
two files are disjoint. `CidFile` lists the cids of all lines; `LinesRead` are those the
reader takes: all that end in a newline, so that the last one counts only if `lastEnded`.

### Upload, TraceReplay, Driver

`sendFunc(i)` is one goroutine of `Upload`: generate, upload the first file to
warm up, `TimersInit`, upload the others, report on `stallchan`. An upload is
its Add, the load and the store of `metrics.AddDura`, and the report and the reset of
the durations (`UploadFile`). The main goroutine counts the cores that ended and
closes the list of cids (`Stall`).

In `TraceReplay` server `k` adds the items congruent to `k`. The downloader appends
to `DownloadedFileSize` (load and store of the slice) and updates the timer it
holds. `PeriodLog` sums and resets what the downloader writes; `BackReport`
prints and resets what `RecordRecv` and `RecordProvide` count. Sums over all reports,
and `raced`, which collects what was recorded while a report was between its read
and its reset, are ghosts. A replaced `sync.Map` whose lock is held is a panic
(`ReplaceLocked`).

### PeerResponseHistory

`Update` is five steps: the entry, the load of the average, the read and the
increment of the counter, the store of the average. `Store` ranges over `Keys()`, peeks each and appends lines through a
buffer; a kill leaves any part of the buffer in the file, with the last line
cut in its key or in its value. The next run appends to that line. `Load` reads
until a line it cannot parse. Averages are fractions.

### BlockBroadcast

A front end is a session; sessions run one after another, and handlers that an
earlier one left behind go on. `h` maps an open connection to its handler at the
back end. A handler of ADD truncates `tmp_file`, writes it, and reads it by its name
piece by piece into IPFS; a handler of GET writes `output_tmp_file` piece by piece
as it arrives. Both files are shared by all handlers of a back end. `Crash` stops a
back end and its connections, `Breaks` a front end, whose handlers do not notice.
The sessions in `Endless` are those of the loop without a trace and without `-n`
(`total_blks == 0`), which have no `End`; the others end when they have sent what they were
told to (`End`). `MaxBlocks` cuts both off, for TLC.

### HttpFiles

All clients upload files of the same size, so their files have the same names. `request[c][n]` is
the handler of client `c`'s POST of name `n`: `CreateFile` truncates (`os.Create`),
`CopyPiece` writes at the handler's own offset (`WriteAt`; behind the end of a file
that was truncated it leaves a hole), `EndCopy` and `CopyFails` answer, both with 200.
`Answered` lists the name whatever the answer, `Unanswered` is the panic on a nil
response. A thread of `Download` opens a file (`Get` announces its length), reads it
piece by piece as it is at that moment, and stores it (`CopyReturns`), or the page of a 404
(`GetNothing`). A response that breaks off ends the thread. `downloaded` has only the local files
that were completed. `Restart` ends all requests and keeps the files; what `-c upload` of the
server generates is the content `HttpInit` begins with, so a restart does not generate again.
`creator` also says which files exist; as far as it says more, and `lone`, are ghosts.

## 3. What is checked

| Run | Bounds | Shows |
|---|---|---|
| `dispatcher_tree` | 2 full peers, 3 blocks in a tree, one goroutine per peer, batches from 0 to 2 (`Adjust5` may halve them), cancellation | the invariants below, but for `RoundAccounting`; refinement of `BlockFetch` |
| `dispatcher_shared` | 3 blocks, one with two parents; a full peer and a co-worker with one block; batch may be halved; cancellation | `RoundAccounting` where a block may be counted twice and a batch of 0 be asked for |
| `dispatcher_live` | 2 full peers, chain of 2 blocks, fairness | `EveryBlockVisited` |
| `worker_rounds` | 4 blocks; lists of up to 2, and of 3 different ones; requests of up to 4, 2 durations, 4 misses | lists agree with `BlockSets`, `Adjust5` with `BatchSize`; time-out |
| `finders_two` | 2 calls of `Dispatch3`, one provider per query, cancellation, fairness | independence as far as it goes, returns, finders stop |
| `fpm_collect` | 2 lookups, 3 peers, up to 2 events, one collection | paths end, begin at seeds; collection ends |
| `download_threads` | 2 threads, 2 files of 1 and 2 blocks and a last line without newline, 2 goroutines of bitswap, 2 peers | what reports are worth |
| `driver_commands` | 2 cores, 3 files; 2 items, 2 servers, up to 2 requests, 2 recorders, 1 sender, 2 records, a report per reporter; fairness of uploads | lists and times of an upload, its end; sums of reports |
| `history_runs` | 2 runs, 2 goroutines, 3 peers, cache of 2, 2 updates per run, kills | what a restart remembers; averages |
| `broadcast_restart` | 2 sessions, the second endless, 3 back ends, 2 blocks of 2 pieces, a crash; fairness | answers, commits, and that no block is waited for in vain |
| `http_overlap` | 2 clients, the same name, files of 2 pieces, a thread, a restart, clients killed; fairness | what overlapping uploads leave, and a download meets; everybody ends |
| `dispatcher_job` | 2 full peers, chain of 2 blocks | `VisitedOnce` is not kept (section 5) |

The properties of `Dispatcher`:

- `SequenceTracked`: a worker asks only for blocks of the table, so that
  `squeeze` never meets a block it does not know, which would end the worker.
- `FilledIsVisited`: marking a block filled before it is visited loses none.
- `ParentFirst`: blocks are found from the root downwards.
- `RoundAccounting`: a round is not closed over a block that may still come.
- `WorkingFlagTruthful`, `SomebodyResponsible`, `CompleteOnNil`: the three
  steps of the argument that a fetch does not end early. The flag says who
  runs; a wanted block is on the way of one that runs; so when nobody runs
  nothing is wanted. They need one goroutine per peer, a DAG without shared
  blocks and batches that do not fall to 0, and are false otherwise; the theorems
  of section 6 state this and prove them then. With the three blocks of the run batches
  of 0 do no harm.
- `EveryBlockVisited`: liveness.

Of a worker and of the finders:

- `SequenceSorted`: the merged list is in order of distance and names no block twice.
  `AbsorbAgrees`, `SqueezeAgrees`: list and request are the sets `Dispatcher` says.
  `AdjusterAgrees`: the next batch size is one `Dispatcher` allows, whatever was measured.
  `TolerateFollowsMisses`: the time-out is of the empty rounds in a row.
- `ErrorNeedsAnother`: a fetch fails with "provider channel close" only because another ended.
  `MainReturns`: `Dispatch3` returns when its channel was closed or its context is done.
  `FullFindersStop`: the finders of full providers stop after a fetch ended.

Those of the driver and its parts:

- `NeverOvercounts`: races lose counts of redundant blocks and requests; they
  never invent one. `ExactWhenAlone`: calls of a block that did not overlap are
  recorded exactly, and a report has a negative duration only if it is about
  a block whose calls did overlap.
  `OwnFileWhenUndisturbed`: a thread reports its own file, from its own start to
  its own finish, if no other thread worked meanwhile. The code needs the
  condition: with two threads reports mix files. `EndedLinesTried`: the cid of every
  line that ends in a newline is begun, unless a thread stopped at an error, and no other is.
- `ListedOnce`: no file is listed twice; when the cid file is closed every core is
  through, and each file of a core that did not fail is listed. `LoneUploadExact`: the
  durations an upload prints are its own if none overlapped it.
  `CountsRealUploads`: at the end the timer holds the uploads of the second loop, a left over
  `temp` included, and no others; with the redundancy option and several cores some of
  them may be missing, for each core resets the timers of all, but if no core failed none is
  there that does not belong.
  `UploadReturns`: `Upload` ends, also when cores fail.
- `ReportsAddUp`: of sizes, latencies, blocks and provides what the reporters printed and
  what is left adds up to what happened, for each kind as long as none of it was recorded
  between a read and the reset after it, and no two calls of `RecordRecv` or `RecordProvide`
  overlapped. Then sizes may be lost or reported twice, counts lost; a latency is never
  reported twice. The totals of the end are exact.
- `RestartRemembers`: after a `Store` that ended the next `Load` gives what it wrote, in
  the same order, whatever older runs left in front of it, unless a kill tore a
  line. `OnlyMeasured`: no run starts with a time for a peer that was not measured of
  that peer, torn lines or not. `AverageSound`: the average is exact without
  overlapping updates, and never longer than the slowest answer.
- `OwnContent`: the cid a front end gets is of the content its request made, and the
  file a GET leaves is the block, as long as the handler was alone at its back end.
  `OverlapNeedsRestart`: two handlers at one back end are of different sessions, so
  contents mix only after a front end was killed and started again. `CommitAfterAll`: a
  block is counted only after each other back end answered, be it with an error.
  `BlocksEnd`: no answer, error, crash or lost connection leaves a front end waiting
  for a block, in either loop; only a call of a node that never returns does.
- `CreatorPrevails`: the upload that created a file last and ended well leaves no hole, although
  handlers it cut off go on writing behind the end (`StoredIsWhole`); and a file nobody else wrote
  when it was created has no piece of anybody else, not even of a longer file before (`LoneIsOwn`).
  `DownloadedAsStored`: such a file is downloaded as it was uploaded, by a reader of a list
  that may still grow; with overlapping uploads a download may well mix them or
  be cut. `ClientsEnd`: failed copies, truncated files
  and a killed server leave no client and no thread waiting.

Why the bounds are enough. Two peers make every race of two workers, and of a
worker with the main loop, possible; three blocks in two layers make a block
found while another is under way; a chain under two workers has the early end
that the flag scan must avoid. `MaxBatch` is larger than what `Adjust5`
reaches in a file of this size. Visits are counted up to `VisitCap` = 2, enough
to see a second one. `MaxEvents` = 2 is the first value at which events can be
confused; `MaxCollects` = 1 replaces the monitor under running handlers.
In `Download` two goroutines make every overlap of two handlers of a block, and two
threads that of a handler with a collection; the block of the first file is
received twice, which makes one redundant. `pag` is on and `sad` off, so that both
the provide and the end of the threads happen. Two cores share the
durations; three files leave a remainder by two. `MaxReports` = 1 reads and resets
each reported variable once while others write it. `MaxRuns` = 2 tears a line in
the first run and appends to it in the second; the file is examined as the
third would load it. Three peers are one more than the cache holds. Two sessions are the least
with handlers of a front end that is gone, two pieces the least of a file that is
half written; this holds of `HttpFiles` too, where one name is enough for uploads that overlap
(files of different names share nothing, and the theorems are for any number of names and threads).
The worker begins with a batch of two and reaches every size from 0 to 4, all its list can give;
four misses double the time-out twice.
Deadlock is not checked where the system stops by design (a fetch that
returned, a lookup that ended): `CHECK_DEADLOCK FALSE` in those configurations.

Every property has a mutant: the definition named `Bug...` beside the one it
replaces is a slip of the kind a maintainer could make, and TLC finds the
property violated with it.

## 4. Fairness

- `Dispatcher`: goroutines that can run do (weak fairness of local steps). Go's
  `select` picks at random among ready cases, so a `finish` or a provider
  offered again and again is taken (strong fairness). A peer delivers a block
  it has if it is asked again and again (strong fairness of `Receive`):
  `Adjust5` doubles the time-out without bound from the third empty round.
  That `Dispatch3` *returns* is not claimed: the flag of the worker that just
  sent `finish` may still be up each time the scan reads it.
- `ProviderFinders`: the same of the main loop's `select`, and of both finders.
  Nothing is assumed of callers, workers and routing, except that the routing
  closes its result channel, as its context demands.
- `FindProviderMonitor`: the collecting goroutine runs; nothing of lookups.
- `Driver`: a core of `Upload` that can take a step takes one (`UploadStep`), and an
  Add returns, with a result or an error.
- `BlockBroadcast`: some goroutine that can run does (`Runs`, weakly fair as a whole): front
  ends, and the steps of a handler that use files of its own machine only (`HandlerRuns`).
  The two parties take turns on a connection, so this is enough, and less than
  fairness of each. Nothing is assumed of the calls into IPFS (`UploadFile`,
  `Unixfs().Get`, `files.WriteTo`): their context has no time-out and `conn.Read` of the front end
  no deadline, so `BlocksEnd` has them as its exception. A connection whose other end is
  gone gives an error in the end (`ConnReset` is part of `FrontEnd`): TCP resets it, and Go turns keep-alive on for
  every connection it dials.
- `HttpFiles`: a client that can go on does, and so do the download and a handler that is not
  stopped by an error. Restarts, errors and kills need not happen.
- `Download`, `PeerResponseHistory` and `TraceReplay` have safety properties only.

## 5. What the code says and does not do

With a run:

- `VisitedOnce` (`worker.go:351`, run `dispatcher_job`): state loaded, then stored.
  Two workers may both take "the job" of one block.

Others that TLC shows with other constants, and that have no run of their own.
The properties are in the modules:

- `BlkFindExpands` (`dispatcher.go:77`; one peer, `RootChilds <- TreeRoot`, `Childs <- SharedFirst`): `blkFind` returns at the first link that is known
  already. This cuts off the links after it, for the whole fetch, and nobody is
  told of those stored before it.
- `CompleteOnNil` (`dispatcher.go:291`; `MaxRuns = 2`, one peer, `TreeRoot`, `TreeChilds`): the flag
  `working` goes up inside the goroutine. A peer announced twice gets two; the
  first to end clears the flag for both and `Dispatch3` returns nil. With
  `EfficiencyDrops = TRUE`, six links at the root and one peer it is false because the
  batch decays to 0, where `squeeze` ignores pending blocks.
- `FetchesAreSeparate` (`dispatcher.go:321`; two calls): `dispatcher_close` is shared by
  all fetches. The end of one fails another with "provider channel close". With
  one call and two providers per query `panicked` becomes true, because a finder
  sends on the channel the other one closed.
- `ListedIsUploaded` (`client.go:168-175`; one client): a failed copy is only printed by the
  server, which answers 200, and the client looks at neither error nor status. So the list of
  "all uploaded file name" (`client.go:41`) names files that are missing or cut short.
- `EveryPathEnds` (`metrics.go:324`; `NearSeeds`, `Neighbours`, `MaxEvents = 2`): one put back late
  may give the fathers a cycle, along which the collection never ends.

Met while modelling; the models state what they assume instead:

- Adjustment: `averageEfficiency` is only written where it has an entry already
  (`adjust.go:280`), so the search for a better batch size finds nothing.
- Download: the reader leaves its loop at `io.EOF` before it uses the line it has just read
  (`main.go:413-417`). The cid of a last line without a newline is never downloaded, although the comment
  says "We can get all files' cids" (`main.go:403`); `Upload` ends each line in a newline (`main.go:339`), so
  its own lists are read in full.
- Upload: `number/coreNumber` drops the remainder; the sub-file `temp` is uploaded
  and listed too; `subs[:10]` panics for files under 10 (`main.go:290`); an upload that fails
  reports durations of nothing.
- Traces: without `-enablemetrics` `TraceDownload` dereferences a nil monitor
  (`main.go:659`); `-dn` larger than the trace panics; `TraceUpload` ignores the error of
  `UploadFile` (`main.go:563`) and then uses its cid. `RecvFrom = sync.Map{}`
  replaces a map whose lock may be held, and its unlock is fatal.
- History: a line torn in its value ends `Load` there, and hides what later runs
  stored (`PeerResponseHistory.go:293`); one torn in its key invents a peer; a
  peer evicted between `Keys` and `Peek` panics `Store` (`:326`); concurrent updates
  are lost to the average, which may then be below the fastest answer.
- Broadcast: the front end ignores the status of a GET reply, so a block may be committed
  that nobody fetched; an error of ADD drops the block; a Get that never returns leaves the
  front end waiting for ever, for nothing has a time-out (`main.go:767`, `blockchain_front_end.go:33`); `-n` without a trace
  panics at `file_size[0]`.
- HTTP files: `Upload` panics when the server does not answer (`client.go:170`), with the list cut
  there; the page of a 404 is stored as the file; `Download` never closes a response or a local file, so a
  long list runs out of descriptors; `-cg 0` divides by zero (`client.go:222`).

## 6. What is proved

All theorems hold for every value of the constants that satisfies the named
assumptions (`ConstantsAssumption`, `DistanceAssumption`, `MaxBatchAssumption`,
`AdjusterAssumption`, `BatchesAssumption`, `FindersAssumption`, `MonitorAssumption`, `DownloadAssumption`,
`UploadAssumption`, `HistoryAssumption`, `BroadcastAssumption`, `HttpAssumption`), which TLC evaluates.

- `DispatcherProofs!TypeCorrect`: `TypeOK` is inductive as it stands, once it
  says that a goroutine has at most one block in hand and that `child` is an
  index of its links inside `blkFind`.
- `DispatcherProofs!NeverAsksUnknown`: `SequenceTracked`. It is not
  inductive: `Inform` hands over the links of a block. `TableInv` adds that the
  links before `child` are in the table already and that `d.cids` and the copy
  `append` works on hold known blocks only. The lost appends therefore do no
  harm to this property, with any number of goroutines per peer and any DAG.
- `DispatcherProofs!RoundsAddUp`: `RoundAccounting`, also with several goroutines per
  peer. `RoundInv` follows a batch from the passes of `squeeze`, where a block that
  turned Pending meanwhile is counted twice, over `blkPending` to the end of the round:
  the count covers the blocks of the batch, and then those still asked for.
- `FilledBlocksVisited` and `FoundFromParents`: `FilledIsVisited` and
  `ParentFirst` through `VisitInv`, which adds that whoever is in `blkFind` has
  visited its block.
- `DispatcherProofs!NilMeansComplete`, `NoBlockForgotten`, `FlagSaysWhoRuns` and
  `DispatcherImplementsFetch`: `CompleteOnNil`, `SomebodyResponsible`,
  `WorkingFlagTruthful` and the refinement `FetchSpec`. They assume `Quiet` (one
  goroutine per peer at a time, no block with two places in the DAG), `Reachable` (all blocks are
  below the root), and are about the behaviours in which no batch has been halved to 0 (`NoEmptyBatch`);
  `Adjust5` may halve it otherwise as often as it likes. `FlagSaysWhoRuns` needs
  one goroutine per peer only. Each condition excludes a fault of the code with which the
  properties are false (section 5, with configurations); `Reachable` says what a DAG is.
  `Dispatcher_tree.cfg` satisfies `Quiet` and `Reachable`. The argument, in `CompleteInv`:
  of the goroutines in `blkFind` with one block, one is ahead of all others
  (`Front`) until a sweep of `absorb2` ends; a goroutine that stored a link has all
  of them in its worker's sequence, or none and will get them from the one ahead
  (`FindersInformed`) - a worker registered in the middle of a `blkFind` may lack
  some for ever, but it is never the one that counts. So a found block is always
  held (`AllHeld`): by a worker that will come back to `squeeze`, by one that stands
  between the passes and takes it in the second, by one that has it in hand, or by
  the one ahead. The hard step is `FirstPassHolds`: what the first pass does
  not take is pending, and left to the second, or filled, and in a hand. When a
  worker reports its end, either another one still runs, and the scan of the flags
  meets it (`ScanSees`), or nothing found is left, and then by induction on the depth
  nothing at all (`AllVisited`). `Reachable` gives the depth; `Least` picks the
  nearest block that would be missing.
- `WorkerProofs!AdjusterImplements`: `AdjusterAgrees`. The invariant is
  that the history is empty: `Adjust5` adds to an entry only if there is one.
- `WorkerProofs!TimeoutFollowsMisses`: `TolerateFollowsMisses`, inductive once the
  count of misses is a number. What it needs is that 2^n doubles, for the power the
  property is written with; `PowerDoubles` takes it to the subsets of a set of n.
- `WorkerProofs!ListStaysSorted`, `AbsorbImplements` and `SqueezeTakesNearest`:
  `SequenceSorted`, `AbsorbAgrees` and `SqueezeAgrees`, for any blocks, distances,
  batches and block tables. With them the set operators that `Dispatcher` and its theorems use
  are what the lists of the code compute, for every value of the constants. `SequenceInv` adds that every
  block of the list has a distance, so that the blocks `absorb2` merges are new to the
  list. Each loop has an invariant of its own: `Collects` for the blocks taken before the first
  known one, `Merging` (what was merged is in order and before both heads), `Passed`
  (a pass takes a block as long as fewer of its state were met than it has place for).
  `TakenIsNearest` makes that the nearest ones, since in a list in order the blocks before
  one are those closer than it.
- `WorkerProofs!WorkerIsBoth` and `WorkerKeepsOrder`: `WorkerSpec` implements `SequenceSpec` and `Spec`
  of `DynamicAdjuster`, so that what is proved of these is true of a worker. The one thing to show is
  that a request has at most as many blocks as `Adjust5` said, or one (`RoundIsNext`); it follows
  from the bound on what a pass of `squeeze` takes (`SqueezeIs`).
- `ProviderFindersProofs!ErrorsComeFromOthers`: `ErrorNeedsAnother`, for any
  number of calls. The flag is up, and a channel closed, only after some call
  ended; a call that failed did not end itself, so it was another.
- `FindProviderMonitorProofs!TypeCorrect` and `CriticalPathsEnd`: `PathsEnd`,
  for any peers, lookups and collections. The invariant is an order of the
  peers: whoever is a father, or is about to be stored as one, was asked before
  its child, or its child was not asked yet (`Before`, `FathersEarlier`,
  `CallOK`). The loads are old when the stores come, so the invariant also says
  that a handler holds the only event, in the only monitor that has it
  (`OneHome`). In a set with all fathers inside, the father with the earliest
  request would have one that was asked before it.
- `FindProviderMonitorProofs!CriticalPathsBeginAtSeeds`: `PathsBeginAtSeeds`. Not
  only the peers asked, but all a lookup knows have a father or are seeds, and so have those
  closer ones that `GotCloserFrom` has passed; once the monitor in use has no event of the
  multihash, nobody new is asked (`RootInv`, over the invariant above).
- `DownloadProofs!NoEndedLineForgotten`: `EndedLinesTried`, for any file, with or without a newline
  at its end, and any number of threads. `EndInv` follows a thread through the cids dealt
  to it; that they cover the lines read is arithmetic of the modulus.
- `DownloadProofs!RedundancyIsReal`: `NeverOvercounts`. `CountsInv` bounds every event, also one
  that a handler loaded long ago, by what has happened to its block; `ReportsInv` bounds
  the sums over blocks that `CollectMonitor` reports. `TypeInv` says that no two
  handlers make the same call.
- `DownloadProofs!UndisturbedReportsAreOwn`: `OwnFileWhenUndisturbed`. `OwnInv`: a thread
  that had the monitor for itself finds in it only blocks of its own file, and its own
  start and end time.
- `DownloadProofs!RecordedExactlyWhenAlone`: `ExactWhenAlone`, the longest of these. As long
  as the handlers of a block never met, the event, or the copy the one handler under way holds,
  is the exact record of the calls made (`ExactInv`); `OrderInv` says in which order these
  were made, so that no duration of the report is negative.
- `ServerProofs!OverlapsAreOfRestarts`: `OverlapNeedsRestart`, for any sessions,
  back ends and sizes. `OverlapInv` says what a session that
  runs has open: connections for its current block only, and exactly those whose
  answer it waits for (`OpenIsAwaited`); so it asks a back end again only after that
  one answered.
- `ServerProofs!CommitsWaitForAll`: `CommitAfterAll`. The wait group holds all back
  ends that did not answer (`FinishedAnswered`, `PeersAnswered`).
- `ServerProofs!LoneAnswersAreOwn`: `OwnContent`. `ContentInv` says of a handler that
  was alone so far what its temporary file holds at each step: what it wrote, all of
  which it then reads, or the pieces that have arrived. What older handlers left
  is truncated before.
- `ServerProofs!FilesAreOfCreators`: `CreatorPrevails`, for any
  clients, names, sizes and restarts, from `FileInv`. Its core is `Creating`: what the creator of a file has
  passed is written, and stays so, since whoever truncates the file becomes its creator; and
  `Alone`: who wrote before cannot write any more. `Listing` says that a client asks for one
  name at a time and never twice.
- `ServerProofs!SettledFilesDownloaded`: `DownloadedAsStored`. A listed request has ended and
  does not change any more (`EndedStays`), so a file that is settled now was so when the
  thread opened it, and all the time it read (`SettledBefore`, `Receiving`).
- `DriverProofs!ItemsAddedOnce`: `EachItemOnce`, the servers of a trace share it without gap or
  overlap, for any number of items and servers; a theorem only.
  `ShareInv`: a server added those of its share that it passed. The shares are the
  residues modulo the number of servers, so they are disjoint and cover the trace.
- `DriverProofs!UploadListsOnce`, `LoneUploadsReportTheirOwn`, `TimerCountsRealUploads`:
  `ListedOnce`, `LoneUploadExact`, `CountsRealUploads`, for any cores and files, from
  `UploadInv`. Its parts: the main goroutine waits for exactly the cores that have not reported
  (`StallInv`); the directory holds what was generated (`DirInv`); a file of it is still to
  do or listed, never both (`ListInv`); the shared durations of an upload that overlapped no
  other are its own (`LoneInv`); the timer holds the uploads listed and those about to
  be, or with the redundancy option and several cores at most these, once every core is
  past its reset (`TimerInv`).
- `DriverProofs!ReplayReportsAddUp`: `ReportsAddUp`, for any recorders, senders, downloads and
  reports, from `TraceInv`: of a kind for which `raced` says nothing, all that was recorded is
  still there, was reported, or is on its way, and it is so once (`SizesInv`, `LatenciesInv`, `RecvInv`,
  `ProvideInv`). A raced latency may be lost with its timer, which leaves `LatenciesInv` an
  inequality; a raced size is not bounded.
- `PeerResponseHistoryProofs!AverageIsSound`: `AverageSound`. `MeanInv` keeps the product form of
  the mean between the steps of the one update under way (`Updating`), and bounds all
  averages that old updates still may store.
- `PeerResponseHistoryProofs!TimesAreMeasured`: `OnlyMeasured`, for any peers, cache size, runs
  and kills. `OwnInv` covers the cache, the lines written and the file: a line that can be
  parsed names no peer, or a time measured of the peer it names. `CutOwn` and the
  lemmas about `Joined` show that of every place where a flush may be cut short.
- `PeerResponseHistoryProofs!StoredIsLoaded`: `RestartRemembers`. `RememberInv`: what a
  `Load` of the file would give has no key the cache lacks, unless the cache is full
  (`Covers`), for no key goes for good before that. So the lines of a `Store`, each of another
  key and behind all others, push out or replace whatever is older (`FlushedRecalled`).
  The lemmas under it say what `Load` does with one more line, and what the LRU
  cache does to the order of its keys.

Where these proofs need induction over data (a sum over a set of blocks, a loop over
a list or the lines of a file, a power of two) they argue from
the least counterexample: the set of lengths or sizes at which the claim fails has a
least member, and the step before it contradicts that.

Only model-checked: liveness (`EveryBlockVisited`, the finders, `CollectEnds`,
`UploadReturns`, `BlocksEnd`, `ClientsEnd`), which is beyond the proof system. Every invariant
and every action property of the runs that pass is proved.

## 7. Not modelled

- `TraceDownload` of the HTTP client: the loop and the period log of `TraceReplay` again. Descriptors of the HTTP
  client and server.
- `GetScore` and the latency of a peer: formulas over what `PeerResponseHistory`
  holds; the provide monitor; the level of a block and the totals that weigh
  its modelled time.
- Reading of options and set-up of the node, the routing, bitswap and the exchange
  of blocks (external); printing and formatting of results.
- The log and trace tools, the client of the remote API and the indexer scripts,
  which are sequential text processing.
- `pmonitor.go`, which only writes keys that never exist; the functions of pbitswap
  nobody calls (`blkFill`, `blkRequest`, `absorb`, `Adjust` to `Adjust4`).
- Data races below the grain of a variable: torn slice headers, and maps of the
  standard library while they are replaced, but for the lock of `RecvFrom`. The
  range over `RecvFrom` is one step.

## 8. Plan

Done, pbitswap first because it is the heart of the program: `BlockSets`,
`BatchSize`, `BlockFetch`, `Dispatcher`, `BlockSequence`, `DynamicAdjuster`, `Worker`,
`ProviderFinders`, `FindProviderMonitor`; then what surrounds it: `BlockMonitor` with
`Download`, `Upload` and `TraceReplay` under `Driver`, `PeerResponseHistory`,
`BlockBroadcast`, `HttpFiles`; each with proofs where they reach.

Left:

1. `QueryPeer`, `ReceiveResult` and `PMGotProviders` in `FindProviderMonitor`.
