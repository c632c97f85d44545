---------------------- MODULE ConfirmationPoller_proofs ----------------------
(***************************************************************************)
(* Theorems about ConfirmationPoller, for any users, any bound on loops    *)
(* and any capacity of triggerCh: types, one loop at a time, and a running *)
(* poller that has one.                                                    *)
(***************************************************************************)
EXTENDS ConfirmationPoller, TLAPS

\* The mutex is held beyond a step by the Stop that waits, and by no other.
MutexOfStop ==
    /\ mu # Nobody => pc[mu] = "wait"
    /\ \A x \in Threads : pc[x] = "wait" => mu = x /\ ~ running

\* The loop of a running poller was not told to stop.
RunningIsOpen == running => current \notin closed

PollerInv == TypeOK /\ MutexOfStop /\ RunningIsOpen /\ LoopBelongs /\ RunningHasLoop

USE DEF Goto, Move, callVars

\* Fetch, Ignore, Respond and RespondFails end a poll, which ends no loop.
LEMMA PolledFacts ==
    ASSUME TypeOK, NEW l \in Loops, NEW b \in BOOLEAN, Polled(l, b)
    PROVE  /\ \E s \in {"select", "burst"} : loop' = [loop EXCEPT ![l] = s]
           /\ mode' \in [Loops -> Modes]
<1>1. mode[l] \in {"idle", "first", "burst"} /\ mode' \in [Loops -> Modes]
  BY DEF Polled, TypeOK, Modes
<1>2. CASE mode[l] = "idle"
  BY <1>1, <1>2 DEF Polled
<1>3. CASE mode[l] = "first"
  BY <1>1, <1>3 DEF Polled
<1>4. CASE mode[l] = "burst"
  BY <1>1, <1>4 DEF Polled
<1>5. QED
  BY <1>1, <1>2, <1>3, <1>4

\* What all steps of a loop but Exit have in common.
LEMMA RunFacts ==
    ASSUME TypeOK, NEW l \in Loops, Run(l), ~ Exit(l)
    PROVE  /\ UNCHANGED <<callVars, ctxDone, pc>>
           /\ loop[l] # "none"
           /\ \E s \in {"select", "fetch", "callback", "respond", "burst"} :
                 loop' = [loop EXCEPT ![l] = s]
           /\ mode' \in [Loops -> Modes] /\ triggers' \in 0 .. Triggers /\ pending' \in BOOLEAN
<1> USE TriggersAssumption
<1>1. CASE IdleTick(l)
  BY <1>1 DEF IdleTick, Poll, TypeOK, Modes
<1>2. CASE TakeTrigger(l)
  BY <1>2 DEF TakeTrigger, Poll, TypeOK, Modes
<1>3. CASE BurstTick(l)
  BY <1>3 DEF BurstTick, Poll, TypeOK, Modes
<1>4. CASE BurstEnds(l) \/ Accept(l)
  BY <1>4 DEF BurstEnds, Accept, TypeOK
<1>5. CASE Fetch(l)
  <2>1. CASE pending
    BY <1>5, <2>1 DEF Fetch, TypeOK
  <2>2. CASE ~ pending
    <3>1. Polled(l, FALSE)
      BY <1>5, <2>2 DEF Fetch
    <3>2. QED
      BY <1>5, <3>1, PolledFacts DEF Fetch, TypeOK
  <2>3. QED
    BY <2>1, <2>2
<1>6. CASE FetchFails(l)
  BY <1>6, PolledFacts DEF FetchFails, TypeOK
<1>7. CASE Ignore(l)
  BY <1>7, PolledFacts DEF Ignore, TypeOK
<1>8. CASE Respond(l)
  BY <1>8, PolledFacts DEF Respond, TypeOK
<1>9. CASE RespondFails(l)
  BY <1>9, PolledFacts DEF RespondFails, TypeOK
<1>10. QED
  BY <1>1, <1>2, <1>3, <1>4, <1>5, <1>6, <1>7, <1>8, <1>9 DEF Run

LEMMA TypeStep == TypeOK /\ [Next]_vars => TypeOK'
<1> SUFFICES ASSUME TypeOK, [Next]_vars PROVE TypeOK'
  OBVIOUS
<1> USE ThreadsAssumption, TriggersAssumption DEF Threads
<1>1. ASSUME NEW x \in Threads, CallStartOrStop(x) PROVE TypeOK'
  BY <1>1 DEF CallStartOrStop, TypeOK
<1>2. ASSUME NEW x \in Threads, Start(x) PROVE TypeOK'
  <2>1. CASE running
    BY <1>2, <2>1 DEF Start, TypeOK
  <2>2. CASE ~ running
    BY <1>2, <2>2 DEF Start, TypeOK
  <2>3. QED
    BY <2>1, <2>2
<1>3. ASSUME NEW x \in Threads, Stop(x) PROVE TypeOK'
  <2>1. CASE running
    BY <1>3, <2>1 DEF Stop, TypeOK
  <2>2. CASE ~ running
    BY <1>3, <2>2 DEF Stop, TypeOK
  <2>3. QED
    BY <2>1, <2>2
<1>4. ASSUME NEW x \in Threads, StopReturns(x) PROVE TypeOK'
  BY <1>4 DEF StopReturns, TypeOK
<1>5. ASSUME NEW l \in Loops, Exit(l) PROVE TypeOK'
  BY <1>5 DEF Exit, TypeOK
<1>6. ASSUME NEW l \in Loops, Run(l), ~ Exit(l) PROVE TypeOK'
  BY <1>6, RunFacts DEF TypeOK
<1>7. ASSUME NEW l \in Loops, EndContext(l) PROVE TypeOK'
  BY <1>7 DEF EndContext, TypeOK
<1>8. ASSUME Trigger \/ Confirmation PROVE TypeOK'
  <2>1. triggers' \in 0 .. Triggers
    BY <1>8 DEF Trigger, Confirmation, TypeOK
  <2>2. pending' \in BOOLEAN
    BY <1>8 DEF Trigger, Confirmation, TypeOK
  <2>3. UNCHANGED <<callVars, ctxDone, pc, loop, mode>>
    BY <1>8 DEF Trigger, Confirmation
  <2>4. QED
    BY <2>1, <2>2, <2>3 DEF TypeOK
<1>9. CASE UNCHANGED vars
  BY <1>9 DEF vars, TypeOK
<1>10. QED
  BY <1>1, <1>2, <1>3, <1>4, <1>5, <1>6, <1>7, <1>8, <1>9 DEF Next, Serve

-----------------------------------------------------------------------------
(* PollerInv is inductive, one action at a time.                           *)

LEMMA StartStep ==
    ASSUME PollerInv, NEW x \in Threads, Start(x)
    PROVE  MutexOfStop' /\ RunningIsOpen' /\ LoopBelongs' /\ RunningHasLoop'
<1> USE ThreadsAssumption DEF PollerInv, Threads
<1>1. CASE running
  BY <1>1 DEF Start, MutexOfStop, RunningIsOpen, LoopBelongs, RunningHasLoop, Ended, TypeOK
<1>2. CASE ~ running
  <2>1. \A l \in Loops : Ended(l)
    BY <1>2 DEF Start, LoopBelongs
  <2>2. PICK l \in Loops : /\ current' = l /\ loop' = [loop EXCEPT ![l] = "select"]
                           /\ closed' = closed \ {l} /\ ctxDone' = ctxDone \ {l}
    BY <1>2 DEF Start
  <2>3. running' /\ pc' = [pc EXCEPT ![x] = "idle"] /\ UNCHANGED mu /\ mu = Nobody
    BY <1>2 DEF Start
  <2>4. MutexOfStop'
    BY <2>3 DEF MutexOfStop, TypeOK
  <2>5. RunningIsOpen' /\ RunningHasLoop'
    BY <2>2 DEF RunningIsOpen, RunningHasLoop, Ended, TypeOK
  <2>6. LoopBelongs'
    BY <2>1, <2>2, <2>3 DEF LoopBelongs, Ended, TypeOK
  <2>7. QED
    BY <2>4, <2>5, <2>6
<1>3. QED
  BY <1>1, <1>2

LEMMA StopStep ==
    ASSUME PollerInv, NEW x \in Threads, Stop(x)
    PROVE  MutexOfStop' /\ RunningIsOpen' /\ LoopBelongs' /\ RunningHasLoop'
<1> USE ThreadsAssumption DEF PollerInv, Threads
<1>1. CASE ~ running
  BY <1>1 DEF Stop, MutexOfStop, RunningIsOpen, LoopBelongs, RunningHasLoop, Ended, TypeOK
<1>2. CASE running
  <2>1. /\ mu = Nobody /\ mu' = x /\ ~ running' /\ closed' = closed \cup {current}
        /\ pc' = [pc EXCEPT ![x] = "wait"] /\ UNCHANGED <<current, loop>>
    BY <1>2 DEF Stop, TypeOK
  <2>2. MutexOfStop'
    BY <2>1 DEF MutexOfStop, TypeOK
  <2>3. LoopBelongs'
    BY <2>1 DEF LoopBelongs, Ended, TypeOK
  <2>4. QED
    BY <2>1, <2>2, <2>3 DEF RunningIsOpen, RunningHasLoop
<1>3. QED
  BY <1>1, <1>2

LEMMA StopReturnsStep ==
    ASSUME PollerInv, NEW x \in Threads, CallStartOrStop(x) \/ StopReturns(x)
    PROVE  MutexOfStop' /\ RunningIsOpen' /\ LoopBelongs' /\ RunningHasLoop'
<1> USE ThreadsAssumption DEF PollerInv, Threads
<1>1. CASE CallStartOrStop(x)
  BY <1>1 DEF CallStartOrStop, MutexOfStop, RunningIsOpen, LoopBelongs, RunningHasLoop, Ended, TypeOK
<1>2. CASE StopReturns(x)
  <2>1. mu = x /\ ~ running /\ \A l \in Loops : Ended(l)
    BY <1>2 DEF StopReturns, MutexOfStop
  <2>2. QED
    BY <1>2, <2>1 DEF StopReturns, MutexOfStop, RunningIsOpen, LoopBelongs, RunningHasLoop, Ended, TypeOK
<1>3. QED
  BY <1>1, <1>2

LEMMA RunStep ==
    ASSUME PollerInv, NEW l \in Loops, Run(l)
    PROVE  MutexOfStop' /\ RunningIsOpen' /\ LoopBelongs' /\ RunningHasLoop'
<1> USE DEF PollerInv
<1>1. CASE Exit(l)
  <2>1. MutexOfStop' /\ RunningIsOpen' /\ LoopBelongs'
    BY <1>1 DEF Exit, MutexOfStop, RunningIsOpen, LoopBelongs, Ended, TypeOK
  \* A loop that was told to end, and not by Stop, has lost its context.
  <2>2. RunningHasLoop'
    BY <1>1 DEF Exit, Told, RunningIsOpen, RunningHasLoop, Ended, TypeOK
  <2>3. QED
    BY <2>1, <2>2
<1>2. CASE ~ Exit(l)
  <2>1. PICK s \in {"select", "fetch", "callback", "respond", "burst"} : loop' = [loop EXCEPT ![l] = s]
    BY <1>2, RunFacts
  <2>2. UNCHANGED <<callVars, ctxDone, pc>> /\ loop[l] # "none"
    BY <1>2, RunFacts
  <2>3. \A k \in Loops : loop'[k] = "none" <=> loop[k] = "none"
    BY <2>1, <2>2 DEF TypeOK
  <2>4. QED
    BY <2>2, <2>3 DEF MutexOfStop, RunningIsOpen, LoopBelongs, RunningHasLoop, Ended, TypeOK
<1>3. QED
  BY <1>1, <1>2

LEMMA PollerInvHolds == Spec => []PollerInv
<1>1. Init => PollerInv
  <2> SUFFICES ASSUME Init PROVE PollerInv
    OBVIOUS
  <2>1. triggers \in 0 .. Triggers
    BY TriggersAssumption DEF Init
  <2>2. mu \in Threads \cup {Nobody} /\ running \in BOOLEAN /\ stopped = ~ running /\ pending \in BOOLEAN
    BY DEF Init
  <2>3. TypeOK
    BY <2>1, <2>2 DEF Init, TypeOK, Modes
  <2>4. MutexOfStop /\ RunningIsOpen /\ LoopBelongs /\ RunningHasLoop
    BY DEF Init, MutexOfStop, RunningIsOpen, LoopBelongs, RunningHasLoop, Ended
  <2>5. QED
    BY <2>3, <2>4 DEF PollerInv
<1>2. PollerInv /\ [Next]_vars => PollerInv'
  <2> SUFFICES ASSUME PollerInv, [Next]_vars
               PROVE  MutexOfStop' /\ RunningIsOpen' /\ LoopBelongs' /\ RunningHasLoop'
    BY TypeStep DEF PollerInv
  <2>1. CASE \E x \in Threads : CallStartOrStop(x) \/ Serve(x)
    BY <2>1, StartStep, StopStep, StopReturnsStep DEF Serve
  <2>2. CASE \E l \in Loops : Run(l)
    BY <2>2, RunStep
  <2>3. CASE \E l \in Loops : EndContext(l)
    BY <2>3 DEF EndContext, PollerInv, MutexOfStop, RunningIsOpen, LoopBelongs, RunningHasLoop, Ended
  <2>4. CASE Trigger \/ Confirmation
    BY <2>4 DEF Trigger, Confirmation, PollerInv, MutexOfStop, RunningIsOpen, LoopBelongs,
                RunningHasLoop, Ended
  <2>5. CASE UNCHANGED vars
    BY <2>5 DEF vars, PollerInv, MutexOfStop, RunningIsOpen, LoopBelongs, RunningHasLoop, Ended
  <2>6. QED
    BY <2>1, <2>2, <2>3, <2>4, <2>5 DEF Next
<1>3. QED
  BY <1>1, <1>2, PTL DEF Spec

-----------------------------------------------------------------------------
\* Every variable keeps its type, and stopped is the opposite of running.
THEOREM ConfirmTypeCorrect == Spec => []TypeOK
<1>1. PollerInv => TypeOK
  BY DEF PollerInv
<1>2. QED
  BY <1>1, PollerInvHolds, PTL

\* At most one loop exists, and none after Stop has returned.
THEOREM OneLoop == Spec => []LoopBelongs
<1>1. PollerInv => LoopBelongs
  BY DEF PollerInv
<1>2. QED
  BY <1>1, PollerInvHolds, PTL

\* A poller that says it runs has a loop, unless its context ended.
THEOREM RunningPolls == Spec => []RunningHasLoop
<1>1. PollerInv => RunningHasLoop
  BY DEF PollerInv
<1>2. QED
  BY <1>1, PollerInvHolds, PTL

\* The safety half of CallsReturn: what a call waits for can go on, however many
\* users call Start and Stop.
THEOREM CallsNeverStand == Spec => []CallsGoOn
<1>1. PollerInv => CallsGoOn
  <2> SUFFICES ASSUME PollerInv, ~ Stuck, mu # Nobody
               PROVE  /\ mu \in Users /\ pc[mu] = "wait"
                      /\ \A l \in Loops : ~ Ended(l) =>
                            l = current /\ l \in closed /\ pc[l] = "idle"
    BY DEF CallsGoOn
  <2>1. pc[mu] = "wait" /\ mu \in Threads /\ ~ running
    BY DEF PollerInv, MutexOfStop, TypeOK
  <2>2. mu \in Users
    BY <2>1 DEF Stuck, Threads
  <2>3. ASSUME NEW l \in Loops, ~ Ended(l)
        PROVE  l = current /\ l \in closed /\ pc[l] = "idle"
    BY <2>1, <2>3 DEF PollerInv, LoopBelongs, Stuck
  <2>4. QED
    BY <2>1, <2>2, <2>3
<1>2. QED
  BY <1>1, PollerInvHolds, PTL
=============================================================================
