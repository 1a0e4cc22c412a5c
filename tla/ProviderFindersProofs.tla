------------------------ MODULE ProviderFindersProofs ------------------------
(***************************************************************************)
(* A Dispatch3 fails with "provider channel close" only because another    *)
(* call of it ended, for any number of calls.                              *)
(***************************************************************************)
EXTENDS ProviderFinders, TLAPS

MPCs == {"idle", "visit", "select", "busy", "endofdag", "chanclosed", "ended", "cancelled"}

SomeEnded == \E e \in Dispatchers : mpc[e] = "ended"

\* The inductive invariant: the flag is up, or a channel closed, only after a
\* dispatcher ended, and only a closed channel makes the loop fail.  mpc is a
\* function throughout, or a step could not be said to change one call alone.
CloseInv ==
    /\ mpc \in [Dispatchers -> MPCs]
    /\ closed \in [Dispatchers -> BOOLEAN]
    /\ dispatcher_close => SomeEnded
    /\ \A d \in Dispatchers : closed[d] => SomeEnded

\* Before any call nothing is closed.
LEMMA CloseInit == Init => CloseInv
  BY DEF Init, CloseInv, MPCs

\* Ending is for good.
LEMMA EndedStays ==
    ASSUME mpc \in [Dispatchers -> MPCs], SomeEnded,
           NEW d \in Dispatchers, mpc[d] # "ended", NEW v,
           mpc' = [mpc EXCEPT ![d] = v]
    PROVE  SomeEnded'
<1>1. PICK e \in Dispatchers : mpc[e] = "ended"
  BY DEF SomeEnded
<1>2. mpc'[e] = "ended"
  BY <1>1
<1> QED
  BY <1>2 DEF SomeEnded

\* Every step keeps the invariant.
LEMMA CloseStep == CloseInv /\ [Next]_vars => CloseInv'
<1> SUFFICES ASSUME CloseInv, [Next]_vars PROVE CloseInv'
  OBVIOUS
<1> USE DEF CloseInv, MPCs
<1>1. CASE UNCHANGED vars
  BY <1>1 DEF vars, SomeEnded
<1>2. ASSUME NEW d \in Dispatchers, MainNext(d) PROVE CloseInv'
  <2>1. CASE Enter(d)
    BY <2>1, EndedStays DEF Enter, finderVars
  <2>2. CASE ReturnEarly(d)
    BY <2>2, EndedStays DEF ReturnEarly, finderVars
  <2>3. CASE Launch(d)
    BY <2>3, EndedStays DEF Launch
  <2>4. CASE Handled(d)
    BY <2>4, EndedStays DEF Handled, finderVars
  <2>5. CASE RecvClosed(d)
    BY <2>5, EndedStays DEF RecvClosed, finderVars
  <2>6. CASE AllEnds(d)
    <3>1. SomeEnded'
      BY <2>6 DEF AllEnds, SomeEnded
    <3> QED
      BY <2>6, <3>1 DEF AllEnds, finderVars
  <2>7. CASE CancelCtx(d)
    BY <2>7 DEF CancelCtx, finderVars, SomeEnded
  <2>8. CASE CtxReturn(d)
    BY <2>8, EndedStays DEF CtxReturn, LeavesFinders, finderVars
  <2> QED
    BY <1>2, <2>1, <2>2, <2>3, <2>4, <2>5, <2>6, <2>7, <2>8 DEF MainNext
<1>3. ASSUME NEW d \in Dispatchers, FullNext(d) PROVE CloseInv'
  <2>1. CASE FullCheck(d)
    BY <2>1 DEF FullCheck, mainVars, SomeEnded
  <2>2. CASE FullSend(d)
    <3>1. CASE UNCHANGED mpc
      BY <2>2, <3>1 DEF FullSend, SomeEnded
    <3>2. CASE mpc[d] = "select" /\ mpc' = [mpc EXCEPT ![d] = "busy"]
      BY <2>2, <3>2, EndedStays DEF FullSend
    <3> QED
      BY <2>2, <3>1, <3>2 DEF FullSend
  <2>3. CASE FullRestart(d)
    BY <2>3 DEF FullRestart, mainVars, SomeEnded
  <2> QED
    BY <1>3, <2>1, <2>2, <2>3 DEF FullNext
<1>4. ASSUME NEW d \in Dispatchers, CoNext(d) PROVE CloseInv'
  <2>1. CASE CoCheck(d)
    BY <2>1 DEF CoCheck, CloseProviders, mainVars, SomeEnded
  <2>2. CASE CoFind(d)
    BY <2>2 DEF CoFind, mainVars, SomeEnded
  <2>3. CASE CoSend(d)
    BY <2>3, EndedStays DEF CoSend
  <2> QED
    BY <1>4, <2>1, <2>2, <2>3 DEF CoNext
<1> QED
  BY <1>1, <1>2, <1>3, <1>4 DEF Next

\* What the theorem needs besides: a call that failed had its channel closed.
FailedInv == CloseInv /\ \A d \in Dispatchers : mpc[d] = "chanclosed" => closed[d]

LEMMA FailedStep == FailedInv /\ [Next]_vars => FailedInv'
  BY CloseStep
  DEF FailedInv, CloseInv, Next, vars, MainNext, FullNext, CoNext, Enter, ReturnEarly,
      Launch, Handled, RecvClosed, AllEnds, CancelCtx, CtxReturn, FullCheck, FullSend,
      FullRestart, CoCheck, CloseProviders, CoFind, CoSend, mainVars, finderVars

\* Dispatch3 returns "provider channel close" only after another call ended.
THEOREM ErrorsComeFromOthers == Spec => []ErrorNeedsAnother
<1>1. Init => FailedInv
  BY CloseInit DEF Init, FailedInv
<1>2. FailedInv => ErrorNeedsAnother
  BY DEF FailedInv, CloseInv, SomeEnded, ErrorNeedsAnother
<1> QED
  BY <1>1, FailedStep, <1>2, PTL DEF Spec
==============================================================================
