----------------------------- MODULE TradePoller -----------------------------
(***************************************************************************)
(* pkg/trading/web: the trade Manager's polling.  StartPolling spawns a    *)
(* loop goroutine, StopPolling only changes the state machine, and a loop  *)
(* notices when it next looks; so loops of different generations overlap.  *)
(* A poll asks Steam for the offers, applies the answer under m.mu and     *)
(* then lets the Canceller cancel sent offers that are too old or too      *)
(* many.  What has been learnt is published (PollDataEvent), persisted by  *)
(* the program and restored after a restart (SetPollData).                 *)
(*                                                                         *)
(* Steam is the environment: `server' holds its offers, and which          *)
(* descriptions are missing from an answer (a glitched offer) is its       *)
(* choice.  Time advances in units of half an hour from 1; 0 means never.  *)
(***************************************************************************)
EXTENDS Integers, FiniteSets

CONSTANTS
    Offers,       \* trade offers of a behaviour
    Sent,         \* those this account sends
    Loops,        \* polling loops a process can start
    MaxTime,      \* bound on the clock
    MaxPoll,      \* longest time from reading the cutoff to applying the answer
    Slack,        \* overlap of the query with the watermark (1800 s)
    Window,       \* query window while there is no watermark (24 h)
    GCAge,        \* an offer unseen for longer is forgotten (1 h)
    CancelTime,   \* Config.CancelTime, 0: off
    CancelCount,  \* Config.CancelOfferCount, 0: off
    MinAge,       \* Config.CancelOfferCountMinAge, 0: off
    MaxRestarts   \* bound on the restarts of a behaviour

ASSUME SentAssumption  == Sent \subseteq Offers
ASSUME BoundAssumption == MaxTime \in Nat \ {0} /\ MaxRestarts \in Nat
\* A poll takes less than the overlap, and the overlap is less than the window.
ASSUME TimeAssumption ==
    /\ MaxPoll \in Nat /\ Slack \in Nat /\ Window \in Nat /\ GCAge \in Nat
    /\ MaxPoll <= Slack /\ Slack <= Window /\ MaxPoll <= GCAge
ASSUME ConfigAssumption == CancelTime \in Nat /\ CancelCount \in Nat /\ MinAge \in Nat

VARIABLES
    now,          \* the clock
    server,       \* server[o]: Steam's record of offer o
    fsm,          \* the Manager's state machine
    trigger,      \* the one-slot trigger channel is full
    pc,           \* pc[l]: where loop l is
    cutoff,       \* cutoff[l]: TimeHistoricalCutoff of l's request
    asked,        \* asked[l]: when l read the cutoff
    batch,        \* batch[l]: Steam's answer
    todo,         \* todo[l]: active sent offers cancelTimeouts has not looked at
    target,       \* target[l]: offers whose cancellation l waits for
    cancelling,   \* Canceller.cancelling
    tracked,      \* Canceller.priorityQueue: TimeUpdated per offer, 0: not in it
    known,        \* sentOffers and receivedOffers
    lastSeen,     \* lastSeenOffers
    offersSince,  \* the watermark
    published,    \* the last PollDataEvent
    saved,        \* the poll data the program has persisted
    told,         \* told[o]: state of o subscribers were last told
    news,         \* news[o]: NewOfferEvents for o in this process
    restarts      \* restarts so far

loopVars  == <<pc, cutoff, asked, batch, todo, target>>
storeVars == <<known, lastSeen, offersSince, published, told, news>>
heapVars  == <<cancelling, tracked>>
vars == <<now, server, fsm, trigger, loopVars, heapVars, storeVars, saved, restarts>>

-----------------------------------------------------------------------------
Fsm      == {"Stopped", "Polling", "Closed"}
PCs      == {"unborn", "top", "select", "limit", "fetch", "answer", "locked",
             "timeouts", "callTimeout", "count", "peek", "callCount", "dead"}
Live(l)  == pc[l] \notin {"unborn", "dead"}
\* An offer as this account sees it; Canceled is every end but Accepted.  A hold of
\* its trade (InEscrow) is no status of its own here.
Statuses == {"none", "Active", "NeedsConfirmation", "Accepted", "Canceled"}
Final    == {"Accepted", "Canceled"}
Times    == 0..MaxTime
Record   == [status : Statuses, updated : Times]
Answer   == [status : Statuses, updated : Times, glitched : BOOLEAN]
NoOffer  == [status |-> "none", updated |-> 0]
NoAnswer == [o \in Offers |-> [status |-> "none", updated |-> 0, glitched |-> FALSE]]
PollData == [since : Times, known : [Offers -> Statuses], told : [Offers -> Statuses]]

TypeOK ==
    /\ now \in Times
    /\ server \in [Offers -> Record]
    /\ fsm \in Fsm
    /\ trigger \in BOOLEAN
    /\ pc \in [Loops -> PCs]
    /\ cutoff \in [Loops -> Int]
    /\ asked \in [Loops -> Times]
    /\ batch \in [Loops -> [Offers -> Answer]]
    /\ todo \in [Loops -> SUBSET Sent]
    /\ target \in [Loops -> SUBSET Sent]
    /\ cancelling \subseteq Sent
    /\ tracked \in [Sent -> Times]
    /\ known \in [Offers -> Statuses]
    /\ lastSeen \in [Offers -> Times]
    /\ offersSince \in Times
    /\ published \in PollData
    /\ saved \in PollData
    /\ told \in [Offers -> Statuses]
    /\ news \in [Offers -> Nat]
    /\ restarts \in Nat

Nothing == [o \in Offers |-> "none"]
NoData  == [since |-> 0, known |-> Nothing, told |-> Nothing]

Init ==
    /\ now = 1
    /\ server = [o \in Offers |-> NoOffer]
    /\ fsm = "Stopped" /\ trigger = FALSE
    /\ pc = [l \in Loops |-> "unborn"]
    /\ cutoff = [l \in Loops |-> 0] /\ asked = [l \in Loops |-> 0]
    /\ batch = [l \in Loops |-> NoAnswer]
    /\ todo = [l \in Loops |-> {}] /\ target = [l \in Loops |-> {}]
    /\ cancelling = {} /\ tracked = [o \in Sent |-> 0]
    /\ known = Nothing /\ lastSeen = [o \in Offers |-> 0] /\ offersSince = 0
    /\ published = NoData /\ saved = NoData
    /\ told = Nothing /\ news = [o \in Offers |-> 0]
    /\ restarts = 0

Goto(l, s) == pc' = [pc EXCEPT ![l] = s]

\* m.mu is write-locked by a loop at "locked", the queue's mutex by one at "peek".
MuFree    == \A l \in Loops : pc[l] # "locked"
QueueFree == \A l \in Loops : pc[l] # "peek"

-----------------------------------------------------------------------------
(* The Manager's operations.                                               *)

\* StartPolling: the transition and the new loop.
StartPolling(l) ==
    /\ fsm = "Stopped" /\ pc[l] = "unborn"
    /\ fsm' = "Polling"
    /\ Goto(l, "top")
    /\ UNCHANGED <<now, server, trigger, cutoff, asked, batch, todo, target,
                   heapVars, storeVars, saved, restarts>>

\* StopPolling, by the caller, by listenEvents when the login machine becomes
\* Disconnected, or at the beginning of StartAuthed.
StopPolling ==
    /\ fsm = "Polling"
    /\ fsm' = "Stopped"
    /\ UNCHANGED <<now, server, trigger, loopVars, heapVars, storeVars, saved, restarts>>

\* Close: the transition; m.Ctx is cancelled.
Close ==
    /\ fsm # "Closed"
    /\ fsm' = "Closed"
    /\ UNCHANGED <<now, server, trigger, loopVars, heapVars, storeVars, saved, restarts>>

\* TriggerPoll, by the caller or for a trade offer notification.
TriggerPoll ==
    /\ ~trigger
    /\ trigger' = TRUE
    /\ UNCHANGED <<now, server, fsm, loopVars, heapVars, storeVars, saved, restarts>>

-----------------------------------------------------------------------------
(* pollingLoop and the first half of doPoll.                               *)

\* The state check on top of the loop.
CheckState(l) ==
    /\ pc[l] = "top"
    /\ Goto(l, IF fsm = "Polling" THEN "select" ELSE "dead")
    /\ UNCHANGED <<now, server, fsm, trigger, cutoff, asked, batch, todo, target,
                   heapVars, storeVars, saved, restarts>>

\* The select: a closed context, the trigger (no second check) or the ticker.
Select(l) ==
    /\ pc[l] = "select"
    /\ \/ fsm = "Closed" /\ Goto(l, "dead") /\ UNCHANGED trigger
       \/ trigger /\ trigger' = FALSE /\ Goto(l, "limit")
       \/ Goto(l, IF fsm = "Polling" THEN "limit" ELSE "dead") /\ UNCHANGED trigger
    /\ UNCHANGED <<now, server, fsm, cutoff, asked, batch, todo, target,
                   heapVars, storeVars, saved, restarts>>

\* The cutoff of a request: TimeHistoricalCutoff.
Cutoff == IF offersSince > 0 THEN offersSince - Slack ELSE now - Window

\* The rate limiter lets the poll go, and the cutoff is read under m.mu.
Ask(l) ==
    /\ pc[l] = "limit"
    /\ fsm # "Closed" /\ MuFree
    /\ cutoff' = [cutoff EXCEPT ![l] = Cutoff]
    /\ asked' = [asked EXCEPT ![l] = now]
    /\ Goto(l, "fetch")
    /\ UNCHANGED <<now, server, fsm, trigger, batch, todo, target,
                   heapVars, storeVars, saved, restarts>>

\* Mutant: a failed poll ends the loop.
PollFailsForGood(l) ==
    /\ pc[l] \in {"limit", "fetch"}
    /\ pc[l] = "limit" => fsm = "Closed"
    /\ Goto(l, "dead")
    /\ cutoff' = [cutoff EXCEPT ![l] = 0] /\ asked' = [asked EXCEPT ![l] = 0]
    /\ UNCHANGED <<now, server, fsm, trigger, batch, todo, target,
                   heapVars, storeVars, saved, restarts>>

\* The limiter's wait or the request returns an error.
PollFails(l) ==
    /\ pc[l] \in {"limit", "fetch"}
    /\ pc[l] = "limit" => fsm = "Closed"
    /\ Goto(l, "top")
    /\ cutoff' = [cutoff EXCEPT ![l] = 0] /\ asked' = [asked EXCEPT ![l] = 0]
    /\ UNCHANGED <<now, server, fsm, trigger, batch, todo, target,
                   heapVars, storeVars, saved, restarts>>

\* Steam answers: active offers, and those updated since the cutoff; the
\* descriptions of the offers in G are missing.
Reply(l, G) ==
    /\ pc[l] = "fetch"
    /\ LET Visible(o) == \/ server[o].status = "Active"
                         \/ server[o].status # "none" /\ server[o].updated >= cutoff[l]
       IN  batch' = [batch EXCEPT ![l] =
                        [o \in Offers |->
                           IF Visible(o)
                           THEN [status |-> server[o].status, updated |-> server[o].updated,
                                 glitched |-> o \in G]
                           ELSE NoAnswer[o]]]
    /\ cutoff' = [cutoff EXCEPT ![l] = 0]
    /\ Goto(l, "answer")
    /\ UNCHANGED <<now, server, fsm, trigger, asked, todo, target,
                   heapVars, storeVars, saved, restarts>>

Respond(l) == \E G \in SUBSET Offers : Reply(l, G)

\* m.mu.Lock()
LockState(l) ==
    /\ pc[l] = "answer" /\ MuFree
    /\ Goto(l, "locked")
    /\ UNCHANGED <<now, server, fsm, trigger, cutoff, asked, batch, todo, target,
                   heapVars, storeVars, saved, restarts>>

-----------------------------------------------------------------------------
(* The critical section of doPoll.                                         *)

\* Mutant: an offer that is missing from an answer is gone.
InOrGone(l) == {o \in Offers : batch[l][o].status # "none" \/ known[o] # "none"}

In(l)    == {o \in Offers : batch[l][o].status # "none"}
Good(l)  == {o \in In(l) : ~batch[l][o].glitched}
\* Active sent offers, which are pushed on the Canceller's queue.
Pushed(l) == {o \in Good(l) \cap Sent : batch[l][o].status = "Active"}

\* The watermark and the update times of the batch.
TimesOf(l) == {offersSince} \cup {batch[l][o].updated : o \in In(l)}

\* Mutant: the watermark advances past glitched offers.
NextWatermarkUnfrozen(l) == {t \in TimesOf(l) : \A u \in TimesOf(l) : u <= t}

\* The next watermark: the latest time, unless an offer of the batch is glitched.
NextWatermark(l) == IF Good(l) = In(l)
                    THEN {t \in TimesOf(l) : \A u \in TimesOf(l) : u <= t}
                    ELSE {offersSince}

\* Mutant: forgets offers by age alone, active ones included.
ForgottenAnyState(l) ==
    {o \in Offers \ Good(l) : lastSeen[o] > 0 /\ now - lastSeen[o] > GCAge}

\* gcKnownOffers: offers unseen for GCAge that are not active.
Forgotten(l) ==
    {o \in Offers \ Good(l) : /\ lastSeen[o] > 0 /\ now - lastSeen[o] > GCAge
                              /\ known[o] \notin {"none", "Active"}}

\* An offer met for the first time while active, and one whose state differs
\* from the known one (0 for an offer that is not known).
Fresh(l)   == {o \in Good(l) : known[o] = "none" /\ batch[l][o].status = "Active"}
Changed(l) == {o \in Good(l) : known[o] # batch[l][o].status} \ Fresh(l)

\* Mutant: a change of state does not mark the poll data as changed.
DirtyWithoutChanges(l, since) == Fresh(l) # {} \/ since # offersSince

\* pollDataChanged
Dirty(l, since) == Fresh(l) \cup Changed(l) # {} \/ since # offersSince

Apply(l) ==
    /\ pc[l] = "locked"
    /\ Pushed(l) # {} => QueueFree
    /\ known' = [o \in Offers |-> IF o \in Good(l) THEN batch[l][o].status
                                  ELSE IF o \in Forgotten(l) THEN "none" ELSE known[o]]
    /\ lastSeen' = [o \in Offers |-> IF o \in Good(l) THEN now
                                     ELSE IF o \in Forgotten(l) THEN 0 ELSE lastSeen[o]]
    /\ offersSince' \in NextWatermark(l)
    /\ told' = [o \in Offers |-> IF o \in Fresh(l) \cup Changed(l)
                                 THEN batch[l][o].status ELSE told[o]]
    /\ news' = [o \in Offers |-> IF o \in Fresh(l) THEN news[o] + 1 ELSE news[o]]
    /\ tracked' = [o \in Sent |-> IF o \in Pushed(l) THEN batch[l][o].updated ELSE tracked[o]]
    /\ published' = IF Dirty(l, offersSince')
                    THEN [since |-> offersSince', known |-> known', told |-> told']
                    ELSE published
    /\ asked' = [asked EXCEPT ![l] = 0]
    /\ IF In(l) \cap Sent = {}
       THEN /\ Goto(l, "top")
            /\ batch' = [batch EXCEPT ![l] = NoAnswer]
            /\ UNCHANGED todo
       ELSE /\ Goto(l, "timeouts")
            /\ todo' = [todo EXCEPT ![l] = {o \in Sent : batch[l][o].status = "Active"}]
            /\ UNCHANGED batch
    /\ UNCHANGED <<now, server, fsm, trigger, cutoff, target, cancelling, saved, restarts>>

-----------------------------------------------------------------------------
(* The Canceller, run by the loop after m.mu is released.                  *)

BeginCancel(l, o, s) ==
    /\ cancelling' = cancelling \cup {o}
    /\ target' = [target EXCEPT ![l] = {o}]
    /\ Goto(l, s)

\* cancelTimeouts looks at one offer of its list.
CheckTimeout(l) ==
    /\ pc[l] = "timeouts"
    /\ \E o \in todo[l] :
          /\ todo' = [todo EXCEPT ![l] = @ \ {o}]
          /\ IF /\ CancelTime > 0 /\ now - batch[l][o].updated >= CancelTime
                /\ o \notin cancelling
             THEN BeginCancel(l, o, "callTimeout")
             ELSE UNCHANGED <<cancelling, target, pc>>
    /\ UNCHANGED <<now, server, fsm, trigger, cutoff, asked, batch, tracked,
                   storeVars, saved, restarts>>

EndPoll(l) == Goto(l, "top") /\ batch' = [batch EXCEPT ![l] = NoAnswer]

\* The end of cancelTimeouts, and cancelOverLimit's check of the count.
CheckCount(l) ==
    /\ pc[l] = "timeouts" /\ todo[l] = {}
    /\ IF \/ CancelCount = 0
          \/ Cardinality({o \in Sent : batch[l][o].status = "Active"}) < CancelCount
       THEN EndPoll(l)
       ELSE Goto(l, "count") /\ UNCHANGED batch
    /\ UNCHANGED <<now, server, fsm, trigger, cutoff, asked, todo, target,
                   heapVars, storeVars, saved, restarts>>

\* Peek locks the queue.
LockQueue(l) ==
    /\ pc[l] = "count" /\ QueueFree
    /\ Goto(l, "peek")
    /\ UNCHANGED <<now, server, fsm, trigger, cutoff, asked, batch, todo, target,
                   heapVars, storeVars, saved, restarts>>

Queued == {o \in Sent : tracked[o] > 0}

\* isValid, evaluated under m.mu.RLock
Cancellable(o) == known[o] = "Active" /\ (MinAge > 0 => now - tracked[o] >= MinAge)

\* Mutant: the order of the heap is reversed.
TopNewest(S) == {o \in S : \A p \in S : tracked[o] >= tracked[p]}

\* The offers of S that may be on top of the heap: the oldest.
Top(S) == {o \in S : \A p \in S : tracked[o] <= tracked[p]}

\* Peek pops the oldest offers until one is valid; it is cancelled unless
\* another poll is cancelling it.
Peek(l) ==
    /\ pc[l] = "peek"
    /\ Queued # {} => MuFree
    /\ LET Valid == {o \in Queued : Cancellable(o)}
       IN  IF Valid = {}
           THEN /\ tracked' = [o \in Sent |-> 0]
                /\ EndPoll(l)
                /\ UNCHANGED <<cancelling, target>>
           ELSE \E o \in Top(Valid) :
                  /\ \E Tied \in SUBSET {p \in Queued \ Valid : tracked[p] = tracked[o]} :
                        tracked' = [p \in Sent |-> IF p \in Tied \/ tracked[p] < tracked[o]
                                                     THEN 0 ELSE tracked[p]]
                  /\ IF o \in cancelling
                     THEN EndPoll(l) /\ UNCHANGED <<cancelling, target>>
                     ELSE BeginCancel(l, o, "callCount") /\ UNCHANGED batch
    /\ UNCHANGED <<now, server, fsm, trigger, cutoff, asked, todo, storeVars, saved, restarts>>

\* CancelOffer returns.  Steam cancels an active offer only; an error may hide
\* that it did.
CancelReturns(l) ==
    /\ pc[l] \in {"callTimeout", "callCount"}
    /\ \E o \in target[l] :
          /\ cancelling' = cancelling \ {o}
          /\ \/ /\ server[o].status = "Active" /\ QueueFree
                /\ server' = [server EXCEPT ![o] = [status |-> "Canceled", updated |-> now]]
                /\ tracked' = [tracked EXCEPT ![o] = 0]
             \/ /\ server[o].status = "Active"
                /\ server' = [server EXCEPT ![o] = [status |-> "Canceled", updated |-> now]]
                /\ UNCHANGED tracked
             \/ UNCHANGED <<server, tracked>>
    /\ target' = [target EXCEPT ![l] = {}]
    /\ IF pc[l] = "callTimeout" THEN Goto(l, "timeouts") /\ UNCHANGED batch ELSE EndPoll(l)
    /\ UNCHANGED <<now, fsm, trigger, cutoff, asked, todo, storeVars, saved, restarts>>

-----------------------------------------------------------------------------
(* The environment.                                                        *)

\* A poll is answered or fails within MaxPoll.
Tick ==
    /\ now < MaxTime
    /\ \A l \in Loops : pc[l] \in {"fetch", "answer", "locked"} => now - asked[l] < MaxPoll
    /\ now' = now + 1
    /\ UNCHANGED <<server, fsm, trigger, loopVars, heapVars, storeVars, saved, restarts>>

\* An offer is made, confirmed, and settled by the partner or this account.
ServerStep(o) ==
    /\ \E s \in Statuses :
          /\ \/ server[o].status = "none" /\ s = "Active"
             \/ server[o].status = "none" /\ o \in Sent /\ s = "NeedsConfirmation"
             \/ server[o].status = "NeedsConfirmation" /\ s \in {"Active", "Canceled"}
             \/ server[o].status = "Active" /\ s \in Final
          /\ server' = [server EXCEPT ![o] = [status |-> s, updated |-> now]]
    /\ UNCHANGED <<now, fsm, trigger, loopVars, heapVars, storeVars, saved, restarts>>

\* The program persists the last PollDataEvent (of use only before a restart).
Save ==
    /\ saved # published /\ restarts < MaxRestarts
    /\ saved' = published
    /\ UNCHANGED <<now, server, fsm, trigger, loopVars, heapVars, storeVars, restarts>>

\* The process ends anywhere and starts again: SetPollData with what was saved.
Restart ==
    /\ restarts < MaxRestarts
    /\ restarts' = restarts + 1
    /\ fsm' = "Stopped" /\ trigger' = FALSE
    /\ pc' = [l \in Loops |-> "unborn"]
    /\ cutoff' = [l \in Loops |-> 0] /\ asked' = [l \in Loops |-> 0]
    /\ batch' = [l \in Loops |-> NoAnswer]
    /\ todo' = [l \in Loops |-> {}] /\ target' = [l \in Loops |-> {}]
    /\ cancelling' = {} /\ tracked' = [o \in Sent |-> 0]
    /\ known' = saved.known /\ offersSince' = saved.since /\ told' = saved.told
    /\ lastSeen' = [o \in Offers |-> 0] /\ news' = [o \in Offers |-> 0]
    /\ published' = saved
    /\ UNCHANGED <<now, server, saved>>

-----------------------------------------------------------------------------
Loop(l) ==
    \/ CheckState(l) \/ Select(l) \/ Ask(l) \/ PollFails(l) \/ Respond(l)
    \/ LockState(l) \/ Apply(l) \/ CheckTimeout(l) \/ CheckCount(l)
    \/ LockQueue(l) \/ Peek(l) \/ CancelReturns(l)

Control == (\E l \in Loops : StartPolling(l)) \/ StopPolling \/ Close \/ TriggerPoll

Environment == Tick \/ (\E o \in Offers : ServerStep(o)) \/ Save \/ Restart

Next == (\E l \in Loops : Loop(l)) \/ Control \/ Environment

Spec == Init /\ [][Next]_vars

\* A runnable goroutine runs, the ticker keeps firing, and a loop that asks
\* again and again is now and then given a complete answer.
FairSpec ==
    /\ Spec
    /\ \A l \in Loops : WF_vars(Loop(l)) /\ SF_vars(Reply(l, {}))

-----------------------------------------------------------------------------
(* Properties.                                                             *)

\* A Manager that says it is polling has a loop that polls, whatever stops,
\* starts and failures came before (StartPolling, pollingLoop).
PollingHasLoop == fsm = "Polling" => \E l \in Loops : Live(l)

Memory == [since |-> offersSince, known |-> known, told |-> told]

\* Settlements that poll data d (in memory, published or persisted) has not told.
Untold(d) == {o \in Offers : server[o].status \in Final /\ d.told[o] # server[o].status}

\* No change is lost: a settled offer whose settlement subscribers have not
\* been told of is within the reach of the next poll's query, across glitched
\* batches, overlapping polls and restarts from persisted data (the watermark
\* comment of doPoll).
ChangesStayReachable == \A o \in Untold(Memory) : server[o].updated >= Cutoff

\* The condition of it: while there is no watermark, settlements are told before
\* the query window (24 h), which slides with the clock, has left them behind.
SettledInWindow ==
    offersSince = 0 => \A o \in Untold(Memory) : server[o].updated >= now - Window

\* The behaviours that keep the condition.
InWindowSpec == Init /\ [][Next /\ SettledInWindow']_vars

(* The strengthenings that make ChangesStayReachable inductive.            *)

\* What poll data d knows has been told, and its watermark has passed.
Sound(d) ==
    /\ d.since <= now
    /\ \A o \in Offers : d.known[o] # "none" => d.told[o] = d.known[o]

\* A poll in flight is younger than MaxPoll, and asks for at least the overlap;
\* its answer differs from Steam's records only by what happened since it asked,
\* or lacks settlements from before the overlap.
PollSound(l) ==
    /\ pc[l] \in {"fetch", "answer", "locked"} =>
          asked[l] <= now /\ now - asked[l] <= MaxPoll
    /\ pc[l] = "fetch" => cutoff[l] <= asked[l] - Slack
    /\ pc[l] \in {"answer", "locked"} =>
          \A o \in Offers :
             /\ batch[l][o].updated <= now
             /\ server[o].status \in Final =>
                  \/ server[o].updated >= asked[l]
                  \/ batch[l][o].status = server[o].status
                  \/ batch[l][o].status = "none" /\ server[o].updated < asked[l] - Slack

AnswerInv ==
    /\ \A o \in Offers : server[o].updated <= now
    /\ Sound(Memory) /\ Sound(published) /\ Sound(saved)
    /\ \A l \in Loops : PollSound(l)

\* What poll data d has not told is not older than its watermark by more than
\* the overlap, a poll that has asked is given it, and an answer has it, or it
\* is so young that a later poll will see it.
Reaches(d) == \A o \in Untold(d) : server[o].updated >= d.since - Slack

PollReaches(l) ==
    \A o \in Untold(Memory) :
        /\ pc[l] = "fetch" => server[o].updated >= cutoff[l]
        /\ pc[l] \in {"answer", "locked"} =>
              batch[l][o].status # "none" \/ server[o].updated >= asked[l] - Slack

ReachInv ==
    /\ Reaches(Memory) /\ Reaches(published) /\ Reaches(saved)
    /\ \A l \in Loops : PollReaches(l)

\* The last PollDataEvent agrees with the memory it is to restore.
PublishedIsCurrent ==
    /\ published.since = offersSince
    /\ \A o \in Offers : known[o] # "none" => published.known[o] = known[o]

\* An active offer that was received is announced at most once by a process,
\* however its polls overlap and whatever gcKnownOffers forgets.
AnnouncedOnce == \A o \in Offers \ Sent : news[o] <= 1

(* The strengthening that makes AnnouncedOnce inductive.                   *)

\* Only an offer this account sends waits for a confirmation.
NeverConfirmed(o) ==
    /\ "NeedsConfirmation" \notin {server[o].status, known[o], published.known[o], saved.known[o]}
    /\ \A l \in Loops : batch[l][o].status # "NeedsConfirmation"

\* What is settled in an answer or in memory is settled, and memory has seen
\* it after it was.
SettledIsSettled(o) ==
    /\ lastSeen[o] > 0 /\ known[o] \in Final =>
          server[o].status \in Final /\ server[o].updated <= lastSeen[o]
    /\ \A l \in Loops : pc[l] \in {"answer", "locked"} /\ batch[l][o].status \in Final =>
          server[o].status \in Final

\* An offer that was announced and forgotten is settled, and no answer on its
\* way to memory is so old that it shows the offer active.
ForgottenIsSettled(o) ==
    news[o] > 0 /\ known[o] = "none" =>
        /\ server[o].status \in Final
        /\ \A l \in Loops : pc[l] \in {"answer", "locked"} => batch[l][o].status # "Active"

AnnounceInv ==
    \A o \in Offers \ Sent :
        NeverConfirmed(o) /\ SettledIsSettled(o) /\ ForgottenIsSettled(o) /\ news[o] <= 1

Story == INSTANCE OfferStory
             WITH States <- Statuses, status <- [o \in Offers |-> server[o].status],
                  kept <- saved.told

\* Subscribers are told of an offer's states in the order it passed through them:
\* no glitched batch, forgotten offer or old watermark makes a settled offer
\* active again.  After a restart they hear again what was not persisted.
ToldInOrder ==
    [][\A o \in Offers : told'[o] # told[o] =>
          Story!Precedes(told[o], told'[o]) \/ restarts' # restarts]_vars

\* Polling implements OfferStory: with the offers as Steam has them, what was told
\* and the poll data that was persisted, every step is one of the story or none.
ImplementsOfferStory == Story!Spec

\* An active offer is announced at most once by a process, also one that this
\* account sent and that waited for its confirmation.
EachAnnouncedOnce == \A o \in Offers : news[o] <= 1

\* The condition of these: a loop applies its answer before another gets one,
\* as when one generation of the loop has ended before the next begins.
AnswersApart ==
    \A k, l \in Loops : pc[k] \in {"answer", "locked"} /\ pc[l] \in {"answer", "locked"} => k = l

\* What makes them inductive under that condition: all that was told, and what
\* an answer on its way shows, lies between what is told and Steam's record.
ToldUpTo(o) ==
    /\ \A d \in {Memory, published, saved} : Story!UpTo(d.told[o], server[o].status)
    /\ \A l \in Loops : pc[l] \in {"answer", "locked"} /\ batch[l][o].status # "none" =>
          /\ Story!UpTo(told[o], batch[l][o].status)
          /\ Story!UpTo(batch[l][o].status, server[o].status)

\* An offer that was announced is known until it has settled.
NewsAreKept(o) ==
    /\ news[o] <= 1
    /\ news[o] > 0 => told[o] \in {"Active"} \cup Final /\ (known[o] = "none" => told[o] \in Final)

StoryInv == \A o \in Offers : ToldUpTo(o) /\ NewsAreKept(o)

\* What the step from polling to the story needs of the poll data: all that was
\* told is published, and an offer told to be active is known to be.
StoryData ==
    /\ published.told = told
    /\ \A d \in {Memory, published, saved}, o \in Offers :
          d.told[o] = "Active" => d.known[o] = "Active"

\* The count limit cancels the oldest: though the queue is filled by answers of
\* any age and overlapping polls, no other offer in it that is active, and known
\* as such, was updated before the one a poll begins to cancel.
OldestCancelledFirst ==
    [][\A l \in Loops : pc[l] = "peek" /\ pc'[l] = "callCount" =>
          \A o \in target'[l], p \in Queued :
              (/\ server[o].status = "Active" /\ server[p].status = "Active"
               /\ known[p] = "Active")
                  => server[o].updated <= server[p].updated]_vars

\* What it rests on: the update time of an active offer is that of Steam, in an
\* answer and in the queue, since an offer becomes active once.
UpdateTime(o, t) ==
    /\ server[o].status \in {"Active"} \cup Final
    /\ server[o].status = "Active" => server[o].updated = t

QueueInv ==
    /\ \A o \in Queued : UpdateTime(o, tracked[o])
    /\ \A l \in Loops, o \in Offers :
          batch[l][o].status = "Active" => UpdateTime(o, batch[l][o].updated)

\* Overlapping polls never cancel one offer at a time, and an offer is marked as
\* being cancelled only while a loop cancels it, so that no mark is left to keep
\* later polls from cancelling it (Canceller.cancelling).
CancellationsOwned ==
    /\ cancelling = UNION {target[l] : l \in Loops}
    /\ \A k, l \in Loops : k # l => target[k] \cap target[l] = {}

\* However old the answer is that a poll works on, an offer whose cancellation
\* for its age begins is past that age, unless it is not active any more.
TimeoutsAreOld ==
    [][\A l \in Loops : pc[l] = "timeouts" /\ pc'[l] = "callTimeout" =>
          \A o \in target'[l] :
              server[o].status = "Active" => now - server[o].updated >= CancelTime]_vars

\* What they rest on: a loop cancels one offer, and looks at active ones of its answer.
CancelInv ==
    /\ CancellationsOwned
    /\ \A l \in Loops :
          /\ pc[l] \in {"callTimeout", "callCount"} => \E o \in Sent : target[l] = {o}
          /\ pc[l] \notin {"callTimeout", "callCount"} => target[l] = {}
          /\ pc[l] \notin {"timeouts", "callTimeout"} => todo[l] = {}
          /\ \A o \in todo[l] : batch[l][o].status = "Active"

\* An active offer is eventually announced while the Manager keeps polling.
ActiveIsAnnounced ==
    \A o \in Offers :
        server[o].status = "Active"
            ~> (told[o] # "none" \/ server[o].status # "Active" \/ fsm # "Polling")

\* Two polls never wait for each other's mutex, one in Peek for m.mu and one in
\* the critical section for the queue's: the Manager is "safe for concurrent
\* use across all methods" (manager.go).
NoLockCycle ==
    ~ \E k, l \in Loops : /\ pc[k] = "locked" /\ Pushed(k) # {}
                          /\ pc[l] = "peek" /\ Queued # {}
=============================================================================
