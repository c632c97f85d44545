--------------------------- MODULE ConfirmationPoller ---------------------------
(***************************************************************************)
(* pkg/steam/guard/poller.go: Start, Stop and Trigger of the poller of     *)
(* mobile confirmations, its loop with the bursts, and the callback        *)
(* OnConfirmation, which may call Start and Stop itself.                   *)
(***************************************************************************)
EXTENDS Naturals

CONSTANTS
    Users,     \* goroutines that call Start and Stop, again and again
    Loops,     \* bound: goroutines of loop, an ended one is used again
    Triggers   \* the capacity of triggerCh

Threads == Users \cup Loops
Nobody  == "nobody"

ASSUME ThreadsAssumption == Users \cap Loops = {} /\ Nobody \notin Threads /\ Loops # {}
ASSUME TriggersAssumption == Triggers \in Nat \ {0}

VARIABLES
    mu,         \* who holds the mutex beyond one step
    running,    \* ConfirmationPoller.running
    stopped,    \* ConfirmationPoller.stopped
    current,    \* the loop that the last Start spawned
    closed,     \* loops whose stopCh is closed
    ctxDone,    \* loops whose context has ended
    pc,         \* pc[x]: where x is in Start or Stop
    loop,       \* loop[l]: where l is, "none" when it has ended
    mode,       \* mode[l]: why l polls, "idle" when it does not
    triggers,   \* length of triggerCh
    pending     \* Steam holds a confirmation that waits for an answer

callVars == <<mu, running, stopped, current, closed>>
vars == <<callVars, ctxDone, pc, loop, mode, triggers, pending>>

Modes == {"idle", "first", "burst"}

TypeOK ==
    /\ mu \in Threads \cup {Nobody} /\ running \in BOOLEAN /\ stopped = ~ running
    /\ current \in Loops /\ closed \subseteq Loops /\ ctxDone \subseteq Loops
    /\ pc \in [Threads -> {"idle", "start", "stop", "wait"}]
    /\ loop \in [Loops -> {"none", "select", "fetch", "callback", "respond", "burst"}]
    /\ mode \in [Loops -> Modes]
    /\ triggers \in 0 .. Triggers /\ pending \in BOOLEAN

Init ==
    /\ mu = Nobody /\ running = FALSE /\ stopped = TRUE
    /\ current \in Loops /\ closed = {} /\ ctxDone = {}
    /\ pc = [x \in Threads |-> "idle"]
    /\ loop = [l \in Loops |-> "none"] /\ mode = [l \in Loops |-> "idle"]
    /\ triggers = 0 /\ pending = FALSE

Goto(x, s) == pc' = [pc EXCEPT ![x] = s]
Move(l, s) == loop' = [loop EXCEPT ![l] = s]

\* wg counts the loops that have not ended.
Ended(l) == loop[l] = "none"

-----------------------------------------------------------------------------
(* Start and Stop, called by users and from within the callback.           *)

CallStartOrStop(x) ==
    /\ pc[x] = "idle" /\ (x \in Loops => loop[x] = "callback")
    /\ Goto(x, "start") \/ Goto(x, "stop")
    /\ UNCHANGED <<callVars, ctxDone, loop, mode, triggers, pending>>

\* Mutant: the closed stopCh is used again.
StartOnOldChannel(x) ==
    /\ pc[x] = "start" /\ mu = Nobody
    /\ Goto(x, "idle")
    /\ IF running THEN UNCHANGED <<running, stopped, current, closed, ctxDone, loop>>
       ELSE /\ running' = TRUE /\ stopped' = FALSE
            /\ \E l \in Loops : /\ Ended(l)
                                /\ current' = l /\ Move(l, "select")
                                /\ closed' = IF closed = {} THEN {} ELSE closed \cup {l}
                                /\ ctxDone' = ctxDone \ {l}
    /\ UNCHANGED <<mu, mode, triggers, pending>>

Start(x) ==
    /\ pc[x] = "start" /\ mu = Nobody
    /\ Goto(x, "idle")
    /\ IF running THEN UNCHANGED <<running, stopped, current, closed, ctxDone, loop>>
       ELSE /\ running' = TRUE /\ stopped' = FALSE
            /\ \E l \in Loops : /\ Ended(l)
                                /\ current' = l /\ Move(l, "select")
                                /\ closed' = closed \ {l} /\ ctxDone' = ctxDone \ {l}
    /\ UNCHANGED <<mu, mode, triggers, pending>>

\* Mutant: Stop waits without the mutex.
StopUnlocked(x) ==
    /\ pc[x] = "stop" /\ mu = Nobody
    /\ IF ~ running THEN Goto(x, "idle") /\ UNCHANGED <<running, stopped, closed>>
       ELSE /\ running' = FALSE /\ stopped' = TRUE
            /\ closed' = IF stopped THEN closed ELSE closed \cup {current}
            /\ Goto(x, "wait")
    /\ UNCHANGED <<mu, current, ctxDone, loop, mode, triggers, pending>>

\* Stop keeps the mutex while it waits for the loop.
Stop(x) ==
    /\ pc[x] = "stop" /\ mu = Nobody
    /\ IF ~ running THEN Goto(x, "idle") /\ UNCHANGED <<mu, running, stopped, closed>>
       ELSE /\ mu' = x /\ running' = FALSE /\ stopped' = TRUE
            /\ closed' = IF stopped THEN closed ELSE closed \cup {current}
            /\ Goto(x, "wait")
    /\ UNCHANGED <<current, ctxDone, loop, mode, triggers, pending>>

StopReturns(x) ==
    /\ pc[x] = "wait" /\ \A l \in Loops : Ended(l)
    /\ mu' = Nobody
    /\ Goto(x, "idle")
    /\ UNCHANGED <<running, stopped, current, closed, ctxDone, loop, mode, triggers, pending>>

\* A full channel drops the trigger.
Trigger ==
    /\ triggers < Triggers
    /\ triggers' = triggers + 1
    /\ UNCHANGED <<callVars, ctxDone, pc, loop, mode, pending>>

-----------------------------------------------------------------------------
(* The loop, whose select takes any case that is ready.                    *)

Told(l) == l \in closed \cup ctxDone

\* Mutant: the loop ends with its context only.
ExitWithContext(l) ==
    /\ loop[l] = "select" /\ l \in ctxDone
    /\ Move(l, "none")
    /\ UNCHANGED <<callVars, ctxDone, pc, mode, triggers, pending>>

Exit(l) ==
    /\ loop[l] = "select" /\ Told(l)
    /\ Move(l, "none")
    /\ UNCHANGED <<callVars, ctxDone, pc, mode, triggers, pending>>

Poll(l, m) == Move(l, "fetch") /\ mode' = [mode EXCEPT ![l] = m]

\* Mutant: without a trigger nothing is polled.
IdleTickIdle(l) ==
    /\ loop[l] = "select"
    /\ UNCHANGED vars

IdleTick(l) ==
    /\ loop[l] = "select"
    /\ Poll(l, "idle")
    /\ UNCHANGED <<callVars, ctxDone, pc, triggers, pending>>

\* A burst begins with a poll.
TakeTrigger(l) ==
    /\ loop[l] = "select" /\ triggers > 0
    /\ triggers' = triggers - 1
    /\ Poll(l, "first")
    /\ UNCHANGED <<callVars, ctxDone, pc, pending>>

BurstTick(l) ==
    /\ loop[l] = "burst"
    /\ Poll(l, "burst")
    /\ UNCHANGED <<callVars, ctxDone, pc, triggers, pending>>

\* The deadline has passed, or the loop is told to end.
BurstEnds(l) ==
    /\ loop[l] = "burst"
    /\ Move(l, "select")
    /\ UNCHANGED <<callVars, ctxDone, pc, mode, triggers, pending>>

\* PollOnce has returned, with confirmations or without.
Polled(l, some) ==
    /\ Move(l, CASE mode[l] = "idle"  -> "select"
                 [] mode[l] = "first" -> "burst"
                 [] mode[l] = "burst" -> IF some THEN "select" ELSE "burst")
    /\ mode' = [mode EXCEPT ![l] = "idle"]

Fetch(l) ==
    /\ loop[l] = "fetch"
    /\ IF pending THEN Move(l, "callback") /\ UNCHANGED mode ELSE Polled(l, FALSE)
    /\ UNCHANGED <<callVars, ctxDone, pc, triggers, pending>>

FetchFails(l) ==
    /\ loop[l] = "fetch"
    /\ Polled(l, FALSE)
    /\ UNCHANGED <<callVars, ctxDone, pc, triggers, pending>>

\* The callback returns, with the answer to accept or to ignore.
Accept(l) ==
    /\ loop[l] = "callback" /\ pc[l] = "idle"
    /\ Move(l, "respond")
    /\ UNCHANGED <<callVars, ctxDone, pc, mode, triggers, pending>>

Ignore(l) ==
    /\ loop[l] = "callback" /\ pc[l] = "idle"
    /\ Polled(l, TRUE)
    /\ UNCHANGED <<callVars, ctxDone, pc, triggers, pending>>

\* The error of RespondToMultiple is dropped.
Respond(l) ==
    /\ loop[l] = "respond"
    /\ pending' = FALSE
    /\ Polled(l, TRUE)
    /\ UNCHANGED <<callVars, ctxDone, pc, triggers>>

RespondFails(l) ==
    /\ loop[l] = "respond"
    /\ Polled(l, TRUE)
    /\ UNCHANGED <<callVars, ctxDone, pc, triggers, pending>>

-----------------------------------------------------------------------------
(* The environment.                                                        *)

EndContext(l) ==
    /\ ~ Ended(l) /\ l \notin ctxDone
    /\ ctxDone' = ctxDone \cup {l}
    /\ UNCHANGED <<callVars, pc, loop, mode, triggers, pending>>

Confirmation ==
    /\ ~ pending
    /\ pending' = TRUE
    /\ UNCHANGED <<callVars, ctxDone, pc, loop, mode, triggers>>

-----------------------------------------------------------------------------
Serve(x) == Start(x) \/ Stop(x) \/ StopReturns(x)
Run(l) ==
    \/ Exit(l) \/ IdleTick(l) \/ TakeTrigger(l) \/ BurstTick(l) \/ BurstEnds(l)
    \/ Fetch(l) \/ FetchFails(l) \/ Accept(l) \/ Ignore(l) \/ Respond(l) \/ RespondFails(l)

Next ==
    \/ \E x \in Threads : CallStartOrStop(x) \/ Serve(x)
    \/ \E l \in Loops : Run(l) \/ EndContext(l)
    \/ Trigger
    \/ Confirmation

Spec == Init /\ [][Next]_vars

\* The mutex is fair, goroutines are scheduled and tickers fire, a select that
\* may take a case again and again takes it, and a confirmation that is asked
\* for and accepted again and again is answered.  (One loop lives at a time,
\* see LoopBelongs: the fairness is that of the loop.)
FairSpec ==
    /\ Spec
    /\ \A x \in Users : SF_vars(Serve(x))
    /\ SF_vars(\E l \in Loops : Serve(l))
    /\ WF_vars(\E l \in Loops : Run(l))
    /\ SF_vars(\E l \in Loops : Exit(l)) /\ SF_vars(\E l \in Loops : BurstEnds(l))
    /\ SF_vars(\E l \in Loops : Fetch(l)) /\ SF_vars(\E l \in Loops : Accept(l))
    /\ SF_vars(\E l \in Loops : Respond(l))

-----------------------------------------------------------------------------
(* At most one loop exists, the one the last Start spawned, and none while
   the poller is stopped, but for the one a Stop is waiting for under the
   mutex: when Stop has returned nothing polls and no callback is called
   (poller.go:118-150).                                                     *)
LoopBelongs ==
    \A l \in Loops : ~ Ended(l) =>
        /\ l = current
        /\ running \/ (mu # Nobody /\ pc[mu] = "wait" /\ l \in closed)

(* A poller that says it runs has a loop, or had one whose context ended: no
   sequence of Start and Stop leaves it running with a loop that took the
   stop of an earlier Start for its own.                                    *)
RunningHasLoop == running => ~ Ended(current) \/ current \in ctxDone

\* The callback waits for the mutex of a Stop that waits for the callback.
Stuck == \E l \in Loops : pc[l] = "wait" \/ (pc[l] # "idle" /\ mu # Nobody)

(* Whoever is in Start or Stop can go on, or waits for a Stop of a user; and
   that one finds no loop left, or the one loop it has told to end, whose
   callback waits for nobody.  No other standstill exists.                  *)
CallsGoOn ==
    (\E x \in Threads : pc[x] # "idle") /\ ~ Stuck =>
        \/ mu = Nobody
        \/ /\ mu \in Users /\ pc[mu] = "wait"
           /\ \A l \in Loops : ~ Ended(l) => l = current /\ l \in closed /\ pc[l] = "idle"

(* Stop and Start return.  The one exception is the callback's own: called
   from within OnConfirmation, Stop waits for itself, and Start for a Stop
   that waits for it.                                                       *)
CallsReturn == \A u \in Users : (pc[u] # "idle") ~> (pc[u] = "idle" \/ Stuck)

(* While a loop lives, a pending confirmation is answered in the end, with or
   without triggers, in bursts and between them.                            *)
ConfirmationsAnswered ==
    \A l \in Loops : (pending /\ ~ Ended(l)) ~> (~ pending \/ Ended(l) \/ Stuck)
=============================================================================
