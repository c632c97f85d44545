---------------------------- MODULE OfferProcessor ----------------------------
(***************************************************************************)
(* pkg/behavior/processor: the behavior that answers incoming trade offers.*)
(* Every Run of it has a listener, which enqueues the offers that the      *)
(* trade Manager announces (web.NewOfferEvent), and a worker, which takes  *)
(* them from the queue; the queue, the set of offers being processed and   *)
(* the locks on asset IDs are shared.  A worker skips an offer that has a  *)
(* locked asset, else locks its assets in ascending order, runs the engine *)
(* and executes the verdict.                                               *)
(***************************************************************************)
EXTENDS Integers, Sequences

CONSTANTS
    Offers,      \* trade offers
    NoOffer,     \* no offer
    Items,       \* items of the offers
    Asset,       \* Asset[i]: the AssetID of item i
    Give,        \* Give[o]: ItemsToGive of offer o
    Receive,     \* Receive[o]: ItemsToReceive of offer o
    Runs,        \* calls of Run
    Callers,     \* other goroutines, which call Enqueue once
    Capacity     \* of the queue (100)

ASSUME OffersAssumption == NoOffer \notin Offers
ASSUME ItemsAssumption ==
    /\ Asset \in [Items -> Nat]
    /\ Give \in [Offers -> SUBSET Items] /\ Receive \in [Offers -> SUBSET Items]
ASSUME ThreadsAssumption == Runs \cap Callers = {} /\ Capacity \in Nat \ {0}

VARIABLES
    cancelled,   \* runs whose context is cancelled
    announced,   \* offers the Manager has announced
    listener,    \* listener[r]: "new", "on" (subscribed) or "off"
    inbox,       \* inbox[r]: events in r's subscription
    called,      \* callers that have called Enqueue
    sending,     \* sending[e]: the offer e has stored in processing and not sent
    processing,  \* Processor.processing
    queue,       \* Processor.queue
    pc,          \* pc[r]: where r's worker is
    offer,       \* offer[r]: its offer
    left,        \* left[r]: items its loop has not come to yet
    itemLocks    \* locked keys of Processor.itemLocks

listenVars == <<announced, listener, inbox, called>>
workVars   == <<pc, offer, left, itemLocks>>
vars == <<cancelled, listenVars, sending, processing, queue, workVars>>

Enqueuers == Runs \cup Callers
ItemsOf(o) == Give[o] \cup Receive[o]
AssetsOf(o) == {Asset[i] : i \in ItemsOf(o)}
PCs == {"unborn", "idle", "check", "lock", "evaluate", "execute", "unlock", "exited"}

TypeOK ==
    /\ cancelled \subseteq Runs
    /\ announced \subseteq Offers
    /\ listener \in [Runs -> {"new", "on", "off"}]
    /\ inbox \in [Runs -> SUBSET Offers]
    /\ called \subseteq Callers
    /\ sending \in [Enqueuers -> Offers \cup {NoOffer}]
    /\ processing \subseteq Offers
    /\ queue \in Seq(Offers) /\ Len(queue) <= Capacity
    /\ pc \in [Runs -> PCs]
    /\ offer \in [Runs -> Offers \cup {NoOffer}]
    /\ left \in [Runs -> SUBSET Items]
    /\ itemLocks \subseteq Nat

Init ==
    /\ cancelled = {}
    /\ announced = {} /\ called = {}
    /\ listener = [r \in Runs |-> "new"] /\ inbox = [r \in Runs |-> {}]
    /\ sending = [e \in Enqueuers |-> NoOffer]
    /\ processing = {} /\ queue = <<>>
    /\ pc = [r \in Runs |-> "unborn"] /\ offer = [r \in Runs |-> NoOffer]
    /\ left = [r \in Runs |-> {}]
    /\ itemLocks = {}

Goto(r, s) == pc' = [pc EXCEPT ![r] = s]

-----------------------------------------------------------------------------
(* The Manager, the listeners and Enqueue.                                 *)

\* The Manager meets an offer for the first time: NewOfferEvent.
Announce(o) ==
    /\ o \notin announced
    /\ announced' = announced \cup {o}
    /\ inbox' = [r \in Runs |-> IF listener[r] = "on" THEN inbox[r] \cup {o} ELSE inbox[r]]
    /\ UNCHANGED <<cancelled, listener, called, sending, processing, queue, workVars>>

\* Run subscribes and starts its worker.
Run(r) ==
    /\ listener[r] = "new"
    /\ listener' = [listener EXCEPT ![r] = "on"]
    /\ Goto(r, "idle")
    /\ UNCHANGED <<cancelled, announced, inbox, called, sending, processing, queue,
                   offer, left, itemLocks>>

\* Enqueue stores the offer in processing, unless it is there.
Store(e, o) ==
    /\ sending[e] = NoOffer
    /\ processing' = processing \cup {o}
    /\ sending' = [sending EXCEPT ![e] = IF o \in processing THEN NoOffer ELSE o]

\* The listener takes an event and calls Enqueue.
Listen(r) ==
    /\ listener[r] = "on"
    /\ \E o \in inbox[r] :
          /\ inbox' = [inbox EXCEPT ![r] = @ \ {o}]
          /\ Store(r, o)
    /\ UNCHANGED <<cancelled, announced, listener, called, queue, workVars>>

\* Another goroutine calls Enqueue.
CallEnqueue(c) ==
    /\ c \notin called
    /\ called' = called \cup {c}
    /\ \E o \in announced : Store(c, o)
    /\ UNCHANGED <<cancelled, announced, listener, inbox, queue, workVars>>

\* Mutant: a full queue drops the offer and keeps it in processing.
SendDropping(e) ==
    /\ sending[e] # NoOffer
    /\ queue' = IF Len(queue) < Capacity THEN Append(queue, sending[e]) ELSE queue
    /\ sending' = [sending EXCEPT ![e] = NoOffer]
    /\ UNCHANGED <<cancelled, listenVars, processing, workVars>>

\* The select of Enqueue: the offer is queued, or dropped when the queue is full.
Send(e) ==
    /\ sending[e] # NoOffer
    /\ IF Len(queue) < Capacity
       THEN queue' = Append(queue, sending[e]) /\ UNCHANGED processing
       ELSE processing' = processing \ {sending[e]} /\ UNCHANGED queue
    /\ sending' = [sending EXCEPT ![e] = NoOffer]
    /\ UNCHANGED <<cancelled, listenVars, workVars>>

\* Run returns.
RunReturns(r) ==
    /\ r \in cancelled /\ listener[r] = "on" /\ sending[r] = NoOffer
    /\ listener' = [listener EXCEPT ![r] = "off"]
    /\ inbox' = [inbox EXCEPT ![r] = {}]
    /\ UNCHANGED <<cancelled, announced, called, sending, processing, queue, workVars>>

\* The context of a run ends, as before the behaviors are started again.
Cancel(r) ==
    /\ cancelled' = cancelled \cup {r}
    /\ UNCHANGED <<listenVars, sending, processing, queue, workVars>>

-----------------------------------------------------------------------------
(* The worker.                                                             *)

\* Mutant: the offer leaves processing when the worker takes it.
TakeForgetting(r) ==
    /\ pc[r] = "idle" /\ queue # <<>>
    /\ offer' = [offer EXCEPT ![r] = Head(queue)]
    /\ queue' = Tail(queue)
    /\ left' = [left EXCEPT ![r] = ItemsOf(Head(queue))]
    /\ Goto(r, "check")
    /\ processing' = processing \ {Head(queue)}
    /\ UNCHANGED <<cancelled, listenVars, sending, itemLocks>>

\* The select of the worker: an offer, or the end of the context.
Take(r) ==
    /\ pc[r] = "idle" /\ queue # <<>>
    /\ offer' = [offer EXCEPT ![r] = Head(queue)]
    /\ queue' = Tail(queue)
    /\ left' = [left EXCEPT ![r] = ItemsOf(Head(queue))]
    /\ Goto(r, "check")
    /\ UNCHANGED <<cancelled, listenVars, sending, processing, itemLocks>>

WorkerExits(r) ==
    /\ pc[r] = "idle" /\ r \in cancelled
    /\ Goto(r, "exited")
    /\ UNCHANGED <<cancelled, listenVars, sending, processing, queue,
                   offer, left, itemLocks>>

\* The end of handleOffer: the offer leaves processing.
Done(r) ==
    /\ processing' = processing \ {offer[r]}
    /\ offer' = [offer EXCEPT ![r] = NoOffer]
    /\ Goto(r, "idle")

\* isAnyItemBusy looks at the next item, of those to give first.
CheckNext(r) ==
    /\ pc[r] = "check"
    /\ \E i \in left[r] :
          /\ i \in Give[offer[r]] \/ left[r] \cap Give[offer[r]] = {}
          /\ IF Asset[i] \in itemLocks
             THEN /\ Done(r)
                  /\ left' = [left EXCEPT ![r] = {}]
             ELSE /\ left' = [left EXCEPT ![r] = @ \ {i}]
                  /\ UNCHANGED <<processing, offer, pc>>
    /\ UNCHANGED <<cancelled, listenVars, sending, queue, itemLocks>>

\* No item is busy: lockItems begins.
BeginLock(r) ==
    /\ pc[r] = "check" /\ left[r] = {}
    /\ left' = [left EXCEPT ![r] = ItemsOf(offer[r])]
    /\ Goto(r, "lock")
    /\ UNCHANGED <<cancelled, listenVars, sending, processing, queue,
                   offer, itemLocks>>

\* Mutant: the IDs are not sorted.
LowestUnsorted(S) == S

\* The items of S with the lowest asset ID: the IDs are sorted.
Lowest(S) == {i \in S : \A j \in S : Asset[i] <= Asset[j]}

\* Mutant: an asset that was locked since the check is taken over.
LockNextAnyway(r) ==
    /\ pc[r] = "lock"
    /\ \E i \in Lowest(left[r]) :
          /\ itemLocks' = itemLocks \cup {Asset[i]}
          /\ left' = [left EXCEPT ![r] = @ \ {i}]
    /\ UNCHANGED <<cancelled, listenVars, sending, processing, queue,
                   pc, offer>>

\* lockItems locks the next ID, and waits while it is locked.
LockNext(r) ==
    /\ pc[r] = "lock"
    /\ \E i \in Lowest(left[r]) :
          /\ Asset[i] \notin itemLocks
          /\ itemLocks' = itemLocks \cup {Asset[i]}
          /\ left' = [left EXCEPT ![r] = @ \ {i}]
    /\ UNCHANGED <<cancelled, listenVars, sending, processing, queue,
                   pc, offer>>

\* lockItems returns and the engine starts.
Locked(r) ==
    /\ pc[r] = "lock" /\ left[r] = {}
    /\ Goto(r, "evaluate")
    /\ UNCHANGED <<cancelled, listenVars, sending, processing, queue,
                   offer, left, itemLocks>>

BeginUnlock(r) ==
    /\ Goto(r, "unlock")
    /\ left' = [left EXCEPT ![r] = ItemsOf(offer[r])]

\* Mutant: the error of the engine returns without unlockItems.
EvaluateLeaking(r) ==
    /\ pc[r] = "evaluate"
    /\ \/ Goto(r, "execute") /\ UNCHANGED <<processing, offer, left>>
       \/ BeginUnlock(r) /\ UNCHANGED <<processing, offer>>
       \/ Done(r) /\ UNCHANGED left
    /\ UNCHANGED <<cancelled, listenVars, sending, queue, itemLocks>>

\* The engine's verdict: accept or decline, or nothing to execute (an error,
\* review, ignore, skip).
Evaluate(r) ==
    /\ pc[r] = "evaluate"
    /\ \/ Goto(r, "execute") /\ UNCHANGED left
       \/ BeginUnlock(r)
    /\ UNCHANGED <<cancelled, listenVars, sending, processing, queue,
                   offer, itemLocks>>

\* AcceptOffer or DeclineOffer returns.
Execute(r) ==
    /\ pc[r] = "execute"
    /\ BeginUnlock(r)
    /\ UNCHANGED <<cancelled, listenVars, sending, processing, queue,
                   offer, itemLocks>>

\* unlockItems
UnlockNext(r) ==
    /\ pc[r] = "unlock"
    /\ \E i \in Lowest(left[r]) :
          /\ itemLocks' = itemLocks \ {Asset[i]}
          /\ left' = [left EXCEPT ![r] = @ \ {i}]
    /\ UNCHANGED <<cancelled, listenVars, sending, processing, queue,
                   pc, offer>>

Unlocked(r) ==
    /\ pc[r] = "unlock" /\ left[r] = {}
    /\ Done(r)
    /\ UNCHANGED <<cancelled, listenVars, sending, queue, left, itemLocks>>

-----------------------------------------------------------------------------
Worker(r) ==
    \/ Take(r) \/ WorkerExits(r) \/ CheckNext(r) \/ BeginLock(r) \/ LockNext(r)
    \/ Locked(r) \/ Evaluate(r) \/ Execute(r) \/ UnlockNext(r) \/ Unlocked(r)

Next ==
    \/ \E o \in Offers : Announce(o)
    \/ \E r \in Runs : Run(r) \/ Listen(r) \/ RunReturns(r) \/ Cancel(r) \/ Worker(r)
    \/ \E c \in Callers : CallEnqueue(c)
    \/ \E e \in Enqueuers : Send(e)

Spec == Init /\ [][Next]_vars

\* Goroutines run; the engine and the executor return.
FairSpec ==
    /\ Spec
    /\ \A r \in Runs : WF_vars(Worker(r)) /\ WF_vars(Listen(r))
    /\ \A e \in Enqueuers : WF_vars(Send(e))

-----------------------------------------------------------------------------
(* Properties.                                                             *)

\* Where offer o is: being sent, in the queue, or with a worker.
Busy(r) == pc[r] \notin {"unborn", "idle", "exited"}

\* An offer is in one place at a time: no two goroutines work on it, whoever
\* enqueues it meanwhile, and it leaves processing last (Enqueue, handleOffer).
OfferInOnePlace ==
    /\ \A e, f \in Enqueuers : e # f => sending[e] = NoOffer \/ sending[e] # sending[f]
    /\ \A e \in Enqueuers : \A k \in 1..Len(queue) : sending[e] # queue[k]
    /\ \A e \in Enqueuers, r \in Runs : Busy(r) => sending[e] # offer[r]
    /\ \A j, k \in 1..Len(queue) : j # k => queue[j] # queue[k]
    /\ \A k \in 1..Len(queue), r \in Runs : Busy(r) => queue[k] # offer[r]
    /\ \A r, s \in Runs : r # s /\ Busy(r) /\ Busy(s) => offer[r] # offer[s]

\* An offer in processing is in one of these places, whatever failed, was full or
\* was cancelled: no mark is left that makes Enqueue ignore the offer for ever.
NoOrphan ==
    \A o \in processing : \/ \E e \in Enqueuers : sending[e] = o
                          \/ \E k \in 1..Len(queue) : queue[k] = o
                          \/ \E r \in Runs : Busy(r) /\ offer[r] = o

\* Items of r's offer whose assets r has locked.
Holding(r) == {i \in Items :
    \/ pc[r] = "lock"                    /\ i \in ItemsOf(offer[r]) \ left[r]
    \/ pc[r] \in {"evaluate", "execute"} /\ i \in ItemsOf(offer[r])
    \/ pc[r] = "unlock"                  /\ i \in left[r]}
HeldBy(r) == {Asset[i] : i \in Holding(r)}

\* An asset is locked by exactly one worker, and by none when no worker has an
\* offer that needs it, whatever the engine and the executor returned.
LocksOwned ==
    /\ itemLocks = UNION {HeldBy(r) : r \in Runs}
    /\ \A r, s \in Runs : r # s => HeldBy(r) \cap HeldBy(s) = {}

\* A worker in lockItems waits for the asset of the next of its items.
Waiting(r) == pc[r] = "lock" /\ left[r] # {}
Wanted(r) == {Asset[i] : i \in Lowest(left[r])}

\* However many workers lock assets, they never wait for each other in a ring:
\* every set of workers has one that does not wait for another of the set.
NoWorkerRing ==
    \A W \in (SUBSET Runs) \ {{}} :
        \E r \in W : Waiting(r) => \A s \in W \ {r} : Wanted(r) \cap HeldBy(s) = {}

\* So while a worker waits, some worker can go on, or one waits for an asset it
\* holds itself: two items of its offer have one AssetID.
WorkersMove ==
    (\E r \in Runs : Waiting(r)) =>
        \E r \in Runs : \/ Waiting(r) /\ Wanted(r) \cap itemLocks = {}
                        \/ Busy(r) /\ ~Waiting(r)
                        \/ Waiting(r) /\ Wanted(r) \cap HeldBy(r) # {}

\* What makes NoWorkerRing inductive: a worker holds the lowest of its assets.
LocksAscend ==
    \A r \in Runs : pc[r] = "lock" =>
        \A i \in ItemsOf(offer[r]) \ left[r], j \in left[r] : Asset[i] <= Asset[j]

\* The assets of the trade a worker evaluates or executes.
Using == [r \in Runs |-> IF pc[r] \in {"evaluate", "execute"} THEN AssetsOf(offer[r]) ELSE {}]

Use == INSTANCE AssetUse WITH Users <- Runs, Assets <- {Asset[i] : i \in Items}, using <- Using

\* The module implements AssetUse: no asset is in two trades that workers
\* evaluate or execute.
ImplementsAssetUse == Use!Spec

\* An offer that was enqueued leaves processing while there is a run, so that
\* it can be enqueued again: it is dropped, skipped or handled, though the run
\* that enqueued it may have ended, and no workers wait for each other.
OffersLeave == \A o \in Offers :
    o \in processing
        ~> (o \notin processing \/ \A r \in Runs : listener[r] = "new" \/ r \in cancelled)
=============================================================================
