--------------------------- MODULE ProviderFinders ---------------------------
(***************************************************************************)
(* The two goroutines Dispatch3 starts to find providers, the channel      *)
(* providers they share with its loop, and dispatcher_close, one package   *)
(* variable for every Dispatch3 of the process.  The workers are left to   *)
(* Dispatcher: here they may report finish at any time, and be found to    *)
(* have all ended.                                                         *)
(*                                                                         *)
(* A dispatcher d is one call of Dispatch3.  Providers and answers of the  *)
(* routing are chosen freely; a list of co-workers is only its length.     *)
(***************************************************************************)
EXTENDS Integers, FiniteSets

CONSTANTS
    Dispatchers,    \* calls of Dispatch3
    MaxProvs,       \* cap on providers one query returns (bound)
    MayCancel       \* may callers cancel their context?

ASSUME FindersAssumption ==
    IsFiniteSet(Dispatchers) /\ MaxProvs \in Nat \ {0} /\ MayCancel \in BOOLEAN

VARIABLES
    dispatcher_close,   \* the package variable
    mpc,                \* Dispatch3: "idle", "visit" before its loop, "select",
                        \* "busy" in a handler, or how it returned
    ctxDone,            \* the caller cancelled d.ctx
    hasWorker,          \* d.worker is not empty
    closed,             \* the co-worker finder closed the channel providers
    fpc, found,         \* full-provider finder, results waiting in provChan
    cpc, toSend,        \* co-worker finder, co-workers it has still to send
    panicked            \* a send on a closed channel: the process is gone

vars == <<dispatcher_close, mpc, ctxDone, hasWorker, closed, fpc, found, cpc,
          toSend, panicked>>
mainVars == <<mpc, ctxDone, hasWorker>>
finderVars == <<closed, fpc, found, cpc, toSend>>

Running(d) == mpc[d] \in {"select", "busy"}

\* workctx ends with d.ctx and with cancle().
WorkCtxDone(d) == ctxDone[d] \/ mpc[d] = "ended"

Init ==
    /\ dispatcher_close = FALSE
    /\ mpc = [d \in Dispatchers |-> "idle"]
    /\ ctxDone = [d \in Dispatchers |-> FALSE]
    /\ hasWorker = [d \in Dispatchers |-> FALSE]
    /\ closed = [d \in Dispatchers |-> FALSE]
    /\ fpc = [d \in Dispatchers |-> "none"]
    /\ found = [d \in Dispatchers |-> 0]
    /\ cpc = [d \in Dispatchers |-> "none"]
    /\ toSend = [d \in Dispatchers |-> 0]
    /\ panicked = FALSE

-----------------------------------------------------------------------------
(* Dispatch3 *)

\* dispatcher_close = false is the first thing Dispatch3 does ...
Enter(d) ==
    /\ mpc[d] = "idle"
    /\ mpc' = [mpc EXCEPT ![d] = "visit"]
    /\ dispatcher_close' = FALSE
    /\ UNCHANGED <<ctxDone, hasWorker, finderVars, panicked>>

\* ... and the root may be the whole file, or visit fail.
ReturnEarly(d) ==
    /\ mpc[d] = "visit"
    /\ mpc' = [mpc EXCEPT ![d] = "endofdag"]
    /\ UNCHANGED <<dispatcher_close, ctxDone, hasWorker, finderVars, panicked>>

Launch(d) ==
    /\ mpc[d] = "visit"
    /\ mpc' = [mpc EXCEPT ![d] = "select"]
    /\ fpc' = [fpc EXCEPT ![d] = "check"]
    /\ cpc' = [cpc EXCEPT ![d] = "check"]
    /\ UNCHANGED <<dispatcher_close, ctxDone, hasWorker, closed, found, toSend, panicked>>

\* The handler of a provider creates its worker, unless it is this node.
Handled(d) ==
    /\ mpc[d] = "busy"
    /\ mpc' = [mpc EXCEPT ![d] = "select"]
    /\ \E has \in {hasWorker[d], TRUE} : hasWorker' = [hasWorker EXCEPT ![d] = has]
    /\ UNCHANGED <<dispatcher_close, ctxDone, finderVars, panicked>>

BugRetries(d) ==
    /\ mpc[d] = "select"
    /\ closed[d]
    /\ UNCHANGED vars

\* <-providers on the closed channel.
RecvClosed(d) ==
    /\ mpc[d] = "select"
    /\ closed[d]
    /\ mpc' = [mpc EXCEPT ![d] = "chanclosed"]
    /\ UNCHANGED <<dispatcher_close, ctxDone, hasWorker, finderVars, panicked>>

\* <-finish, and no worker is working (allends).
AllEnds(d) ==
    /\ mpc[d] = "select"
    /\ hasWorker[d]
    /\ mpc' = [mpc EXCEPT ![d] = "ended"]
    /\ dispatcher_close' = TRUE
    /\ UNCHANGED <<ctxDone, hasWorker, finderVars, panicked>>

CancelCtx(d) ==
    /\ MayCancel
    /\ Running(d) /\ ~ctxDone[d]
    /\ ctxDone' = [ctxDone EXCEPT ![d] = TRUE]
    /\ UNCHANGED <<dispatcher_close, mpc, hasWorker, finderVars, panicked>>

BugCloses(d) == dispatcher_close' = TRUE

\* <-d.ctx.Done() returns without a word to the finders.
LeavesFinders(d) == UNCHANGED dispatcher_close

CtxReturn(d) ==
    /\ mpc[d] = "select"
    /\ ctxDone[d]
    /\ mpc' = [mpc EXCEPT ![d] = "cancelled"]
    /\ LeavesFinders(d)
    /\ UNCHANGED <<ctxDone, hasWorker, finderVars, panicked>>

-----------------------------------------------------------------------------
(* The finder of full providers *)

BugChecksOnce(d) == fpc[d] = "none"

\* What the finder looks at before it asks the routing again.
StopsFull(d) == dispatcher_close

FullCheck(d) ==
    /\ fpc[d] = "check"
    /\ IF StopsFull(d) THEN fpc' = [fpc EXCEPT ![d] = "exited"] /\ UNCHANGED found
       ELSE /\ fpc' = [fpc EXCEPT ![d] = "collect"]
            /\ \E n \in 0..(IF WorkCtxDone(d) THEN 0 ELSE MaxProvs) :
                  found' = [found EXCEPT ![d] = n]
    /\ UNCHANGED <<dispatcher_close, mainVars, closed, cpc, toSend, panicked>>

\* select { case providers <- prov.ID: default: }.  A closed channel is always
\* ready to be sent on, with a panic; an open one only if the loop is waiting
\* in its select already, or else the provider is dropped.
FullSend(d) ==
    /\ fpc[d] = "collect"
    /\ found[d] > 0
    /\ found' = [found EXCEPT ![d] = @ - 1]
    /\ panicked' = closed[d]
    /\ \/ mpc[d] = "select" /\ ~closed[d] /\ mpc' = [mpc EXCEPT ![d] = "busy"]
       \/ UNCHANGED mpc
    /\ UNCHANGED <<dispatcher_close, ctxDone, hasWorker, closed, fpc, cpc, toSend>>

\* provChan is closed: sleep a second, look again.
FullRestart(d) ==
    /\ fpc[d] = "collect"
    /\ found[d] = 0
    /\ fpc' = [fpc EXCEPT ![d] = "check"]
    /\ UNCHANGED <<dispatcher_close, mainVars, closed, found, cpc, toSend, panicked>>

-----------------------------------------------------------------------------
(* The finder of co-workers *)

\* defer close(providers)
CloseProviders(d) == closed' = [closed EXCEPT ![d] = TRUE]

CoCheck(d) ==
    /\ cpc[d] = "check"
    /\ IF dispatcher_close
       THEN cpc' = [cpc EXCEPT ![d] = "exited"] /\ CloseProviders(d)
       ELSE cpc' = [cpc EXCEPT ![d] = "range"] /\ UNCHANGED closed
    /\ UNCHANGED <<dispatcher_close, mainVars, fpc, found, toSend, panicked>>

\* FindProviderFrom asks a worker's peer; without a worker, after an error or
\* with an empty list it goes to sleep.
CoFind(d) ==
    /\ cpc[d] = "range"
    /\ toSend[d] = 0
    /\ \/ cpc' = [cpc EXCEPT ![d] = "check"] /\ UNCHANGED toSend
       \/ /\ hasWorker[d] /\ ~WorkCtxDone(d)
          /\ \E n \in 1..MaxProvs : toSend' = [toSend EXCEPT ![d] = n]
          /\ UNCHANGED cpc
    /\ UNCHANGED <<dispatcher_close, mainVars, closed, fpc, found, panicked>>

\* providers <- prov waits for the loop.
CoSend(d) ==
    /\ cpc[d] = "range"
    /\ toSend[d] > 0
    /\ mpc[d] = "select"
    /\ toSend' = [toSend EXCEPT ![d] = @ - 1]
    /\ mpc' = [mpc EXCEPT ![d] = "busy"]
    /\ UNCHANGED <<dispatcher_close, ctxDone, hasWorker, closed, fpc, found, cpc, panicked>>

-----------------------------------------------------------------------------
MainNext(d) ==
    \/ Enter(d) \/ ReturnEarly(d) \/ Launch(d)
    \/ Handled(d) \/ RecvClosed(d) \/ AllEnds(d)
    \/ CancelCtx(d) \/ CtxReturn(d)

FullNext(d) == FullCheck(d) \/ FullSend(d) \/ FullRestart(d)

CoNext(d) == CoCheck(d) \/ CoFind(d) \/ CoSend(d)

Next ==
    /\ ~panicked
    /\ \E d \in Dispatchers : MainNext(d) \/ FullNext(d) \/ CoNext(d)

Spec == Init /\ [][Next]_vars

(***************************************************************************)
(* Fairness.  Goroutines that can run do; a select with several ready      *)
(* cases picks one at random, so a case that is ready again and again is   *)
(* taken.  Nothing is assumed of callers, workers or the routing.          *)
(***************************************************************************)
Fairness ==
    \A d \in Dispatchers :
        /\ WF_vars(~panicked /\ Handled(d))
        /\ SF_vars(~panicked /\ RecvClosed(d))
        /\ SF_vars(~panicked /\ CtxReturn(d))
        /\ WF_vars(~panicked /\ FullNext(d))
        /\ WF_vars(~panicked /\ CoNext(d))

FairSpec == Spec /\ Fairness

-----------------------------------------------------------------------------
\* Dispatch3 fails with "provider channel close" only if another call of it
\* ended in the meantime: neither its own end nor a cancellation, its own or
\* another's, gets it there.
ErrorNeedsAnother ==
    \A d \in Dispatchers : mpc[d] = "chanclosed" =>
        \E e \in Dispatchers \ {d} : mpc[e] = "ended"

\* The loop notices that its channel was closed under it, and does not wait
\* for providers that cannot come any more; and a cancelled Dispatch3 returns,
\* however many providers and reports of finished workers arrive.
MainReturns ==
    \A d \in Dispatchers : (closed[d] \/ ctxDone[d]) ~> (~Running(d) \/ panicked)

\* After a Dispatch3 ended, and when no other begins that would reopen the flag,
\* the finders of full providers of all calls stop asking the routing.
FullFindersStop ==
    \A d \in Dispatchers :
        dispatcher_close /\ fpc[d] # "none" /\ (\A e \in Dispatchers : mpc[e] # "idle")
            ~> fpc[d] = "exited" \/ panicked

-----------------------------------------------------------------------------
(* What the code says and does not do. *)

\* "a dispatcher for each node represented file fetching": a fetch does not
\* fail because another one ended.
FetchesAreSeparate == \A d \in Dispatchers : mpc[d] # "chanclosed"
==============================================================================
