------------------------ MODULE OfferProcessor_proofs ------------------------
(***************************************************************************)
(* Theorems about OfferProcessor, for any offers, items, runs and callers: *)
(* types, an offer is in one place at a time and leaves no mark behind, a  *)
(* locked asset has one owner, workers do not wait for each other in a     *)
(* ring, and the module implements AssetUse.                               *)
(***************************************************************************)
EXTENDS OfferProcessor, WellFoundedInduction, TLAPS

\* The queue grows at its end and shrinks at its front.
LEMMA AppendFacts ==
    ASSUME NEW S, NEW q \in Seq(S), NEW o \in S
    PROVE  /\ Append(q, o) \in Seq(S) /\ Len(Append(q, o)) = Len(q) + 1
           /\ \A k \in 1..Len(q) : Append(q, o)[k] = q[k]
           /\ Append(q, o)[Len(q) + 1] = o
OBVIOUS

LEMMA TailFacts ==
    ASSUME NEW S, NEW q \in Seq(S), q # <<>>
    PROVE  /\ Head(q) \in S /\ Head(q) = q[1] /\ 1 \in 1..Len(q)
           /\ Tail(q) \in Seq(S) /\ Len(Tail(q)) = Len(q) - 1
           /\ \A k \in 1..Len(Tail(q)) : k + 1 \in 1..Len(q) /\ Tail(q)[k] = q[k + 1]
OBVIOUS

-----------------------------------------------------------------------------
(* Types.                                                                  *)

\* A worker with an offer has one; the items of its loop are items.
HasOffer == \A r \in Runs : Busy(r) => offer[r] \in Offers

LEMMA ItemsFacts ==
    ASSUME NEW o \in Offers
    PROVE  ItemsOf(o) \in SUBSET Items
BY ItemsAssumption DEF ItemsOf

LEMMA StoreType ==
    ASSUME TypeOK, NEW e \in Enqueuers, NEW o \in Offers, Store(e, o)
    PROVE  processing' \subseteq Offers /\ sending' \in [Enqueuers -> Offers \cup {NoOffer}]
BY DEF Store, TypeOK

LEMMA DoneType ==
    ASSUME TypeOK, NEW r \in Runs, Done(r)
    PROVE  /\ processing' \subseteq Offers /\ pc' \in [Runs -> PCs]
           /\ offer' \in [Runs -> Offers \cup {NoOffer}]
BY DEF Done, Goto, TypeOK, PCs

LEMMA GotoType ==
    ASSUME TypeOK, NEW r \in Runs, NEW s \in PCs, Goto(r, s)
    PROVE  pc' \in [Runs -> PCs] /\ pc' = [pc EXCEPT ![r] = s]
BY DEF Goto, TypeOK

LEMMA WorkerType ==
    ASSUME TypeOK, HasOffer, NEW r \in Runs, Worker(r)
    PROVE  TypeOK'
<1>1. CASE Take(r)
  <2>1. Head(queue) \in Offers /\ Tail(queue) \in Seq(Offers) /\ Len(Tail(queue)) <= Capacity
    BY <1>1, TailFacts, ThreadsAssumption DEF Take, TypeOK
  <2>2. left' \in [Runs -> SUBSET Items] /\ offer' \in [Runs -> Offers \cup {NoOffer}]
    BY <1>1, <2>1, ItemsFacts DEF Take, TypeOK
  <2>3. pc' \in [Runs -> PCs]
    BY <1>1, GotoType DEF Take, PCs
  <2>4. QED
    BY <1>1, <2>1, <2>2, <2>3 DEF Take, TypeOK, listenVars
<1>2. CASE WorkerExits(r)
  <2>1. pc' \in [Runs -> PCs]
    BY <1>2, GotoType DEF WorkerExits, PCs
  <2>2. QED
    BY <1>2, <2>1 DEF WorkerExits, TypeOK, listenVars
<1>3. CASE CheckNext(r)
  <2>1. offer[r] \in Offers
    BY <1>3 DEF CheckNext, HasOffer, Busy
  <2>2. PICK i \in left[r] :
          IF Asset[i] \in itemLocks
          THEN /\ Done(r)
               /\ left' = [left EXCEPT ![r] = {}]
          ELSE /\ left' = [left EXCEPT ![r] = @ \ {i}]
               /\ UNCHANGED <<processing, offer, pc>>
    BY <1>3 DEF CheckNext
  <2>3. /\ processing' \subseteq Offers /\ pc' \in [Runs -> PCs]
        /\ offer' \in [Runs -> Offers \cup {NoOffer}]
        /\ left' \in [Runs -> SUBSET Items]
    BY <2>1, <2>2, DoneType DEF TypeOK
  <2>4. QED
    BY <1>3, <2>3 DEF CheckNext, TypeOK, listenVars
<1>4. CASE BeginLock(r) \/ Execute(r)
  <2>1. offer[r] \in Offers
    BY <1>4 DEF BeginLock, Execute, HasOffer, Busy
  <2>2. left' \in [Runs -> SUBSET Items]
    BY <1>4, <2>1, ItemsFacts DEF BeginLock, Execute, BeginUnlock, TypeOK
  <2>3. pc' \in [Runs -> PCs]
    BY <1>4, GotoType DEF BeginLock, Execute, BeginUnlock, PCs
  <2>4. QED
    BY <1>4, <2>2, <2>3 DEF BeginLock, Execute, BeginUnlock, TypeOK, listenVars
<1>5. CASE LockNext(r) \/ UnlockNext(r)
  <2>1. PICK i \in left[r] : /\ itemLocks' \subseteq itemLocks \cup {Asset[i]}
                             /\ left' = [left EXCEPT ![r] = @ \ {i}]
    BY <1>5 DEF LockNext, UnlockNext, Lowest
  <2>2. itemLocks' \subseteq Nat /\ left' \in [Runs -> SUBSET Items]
    BY <2>1, ItemsAssumption DEF TypeOK
  <2>3. QED
    BY <1>5, <2>2 DEF LockNext, UnlockNext, TypeOK, listenVars
<1>6. CASE Locked(r)
  <2>1. offer[r] \in Offers
    BY <1>6 DEF Locked, HasOffer, Busy
  <2>2. pc' \in [Runs -> PCs]
    BY <1>6, GotoType DEF Locked, PCs
  <2>3. QED
    BY <1>6, <2>1, <2>2 DEF Locked, TypeOK, listenVars
<1>7. CASE Evaluate(r)
  <2>1. offer[r] \in Offers
    BY <1>7 DEF Evaluate, HasOffer, Busy
  <2>2. left' \in [Runs -> SUBSET Items]
    BY <1>7, <2>1, ItemsFacts DEF Evaluate, BeginUnlock, TypeOK
  <2>3. pc' \in [Runs -> PCs]
    BY <1>7, GotoType DEF Evaluate, BeginUnlock, PCs
  <2>4. QED
    BY <1>7, <2>2, <2>3 DEF Evaluate, TypeOK, listenVars
<1>8. CASE Unlocked(r)
  BY <1>8, DoneType DEF Unlocked, TypeOK, listenVars
<1>9. QED
  BY <1>1, <1>2, <1>3, <1>4, <1>5, <1>6, <1>7, <1>8 DEF Worker

LEMMA ListenerType ==
    ASSUME TypeOK,
           \/ \E o \in Offers : Announce(o)
           \/ \E r \in Runs : Run(r) \/ Listen(r) \/ RunReturns(r)
           \/ \E c \in Callers : CallEnqueue(c)
           \/ \E r \in Runs : Cancel(r)
    PROVE  TypeOK'
<1>1. CASE \E o \in Offers : Announce(o)
  BY <1>1 DEF Announce, TypeOK, workVars
<1>2. CASE \E r \in Runs : Run(r)
  <2>1. pc' \in [Runs -> PCs]
    BY <1>2, GotoType DEF Run, PCs
  <2>2. QED
    BY <1>2, <2>1 DEF Run, TypeOK
<1>3. ASSUME NEW r \in Runs, Listen(r) PROVE TypeOK'
  <2>1. PICK o \in inbox[r] : inbox' = [inbox EXCEPT ![r] = @ \ {o}] /\ Store(r, o)
    BY <1>3 DEF Listen
  <2>2. o \in Offers /\ r \in Enqueuers
    BY <2>1 DEF TypeOK, Enqueuers
  <2>3. inbox' \in [Runs -> SUBSET Offers]
    BY <2>1 DEF TypeOK
  <2>4. QED
    BY <1>3, <2>1, <2>2, <2>3, StoreType DEF Listen, TypeOK, workVars
<1>4. CASE \E r \in Runs : RunReturns(r)
  BY <1>4 DEF RunReturns, TypeOK, workVars
<1>5. ASSUME NEW c \in Callers, CallEnqueue(c) PROVE TypeOK'
  <2>1. PICK o \in announced : Store(c, o)
    BY <1>5 DEF CallEnqueue
  <2>2. o \in Offers /\ c \in Enqueuers
    BY <2>1 DEF TypeOK, Enqueuers
  <2>3. QED
    BY <1>5, <2>1, <2>2, StoreType DEF CallEnqueue, TypeOK, workVars
<1>6. CASE \E r \in Runs : Cancel(r)
  BY <1>6 DEF Cancel, TypeOK, listenVars, workVars
<1>7. QED
  BY <1>1, <1>2, <1>3, <1>4, <1>5, <1>6

LEMMA SendType ==
    ASSUME TypeOK, NEW e \in Enqueuers, Send(e)
    PROVE  TypeOK'
<1>1. sending[e] \in Offers
  BY DEF Send, TypeOK
<1>2. queue' \in Seq(Offers) /\ Len(queue') <= Capacity
  <2>1. queue \in Seq(Offers) /\ Len(queue) \in Nat /\ Len(queue) <= Capacity
    BY DEF TypeOK
  <2>2. CASE Len(queue) < Capacity
    <3>1. queue' = Append(queue, sending[e])
      BY <2>2 DEF Send
    <3>2. QED
      BY <1>1, <2>1, <2>2, <3>1, AppendFacts, ThreadsAssumption
  <2>3. CASE ~ (Len(queue) < Capacity)
    BY <2>1, <2>3 DEF Send
  <2>4. QED
    BY <2>2, <2>3
<1>3. QED
  BY <1>2 DEF Send, TypeOK, listenVars, workVars

LEMMA HasOfferStep ==
    ASSUME TypeOK, HasOffer, [Next]_vars
    PROVE  HasOffer'
<1>1. ASSUME NEW r \in Runs, Worker(r), NEW s \in Runs, Busy(s)' PROVE offer'[s] \in Offers
  <2>1. CASE Take(r)
    BY <1>1, <2>1, TailFacts DEF Take, Goto, TypeOK, HasOffer, Busy
  <2>2. CASE WorkerExits(r) \/ BeginLock(r) \/ Locked(r)
    BY <1>1, <2>2 DEF WorkerExits, BeginLock, Locked, Goto, TypeOK, HasOffer, Busy
  <2>3. CASE Evaluate(r) \/ Execute(r)
    BY <1>1, <2>3 DEF Evaluate, Execute, BeginUnlock, Goto, TypeOK, HasOffer, Busy
  <2>4. CASE CheckNext(r) \/ Unlocked(r)
    BY <1>1, <2>4 DEF CheckNext, Unlocked, Done, Goto, TypeOK, HasOffer, Busy
  <2>5. CASE LockNext(r) \/ UnlockNext(r)
    BY <1>1, <2>5 DEF LockNext, UnlockNext, HasOffer, Busy
  <2>6. QED
    BY <1>1, <2>1, <2>2, <2>3, <2>4, <2>5 DEF Worker
<1>2. ASSUME NEW r \in Runs, Run(r) PROVE HasOffer'
  BY <1>2 DEF Run, Goto, TypeOK, HasOffer, Busy
<1>3. CASE UNCHANGED <<pc, offer>>
  BY <1>3 DEF HasOffer, Busy
<1>4. CASE \/ \E o \in Offers : Announce(o)
           \/ \E r \in Runs : Listen(r) \/ RunReturns(r)
           \/ \E c \in Callers : CallEnqueue(c)
           \/ \E e \in Enqueuers : Send(e)
           \/ \E r \in Runs : Cancel(r)
           \/ UNCHANGED vars
  BY <1>3, <1>4 DEF Announce, Listen, RunReturns, CallEnqueue, Send, Cancel, vars, workVars
<1>5. QED
  BY <1>1, <1>2, <1>4 DEF Next, HasOffer

\* Every variable keeps its type, the queue its capacity.
THEOREM ProcessorTypeCorrect == Spec => []TypeOK
<1>1. Init => TypeOK /\ HasOffer
  <2> SUFFICES ASSUME Init PROVE TypeOK /\ HasOffer
    OBVIOUS
  <2>1. queue \in Seq(Offers) /\ Len(queue) <= Capacity
    BY ThreadsAssumption DEF Init
  <2>2. QED
    BY <2>1 DEF Init, TypeOK, HasOffer, Busy, PCs
<1>2. TypeOK /\ HasOffer /\ [Next]_vars => TypeOK' /\ HasOffer'
  <2> SUFFICES ASSUME TypeOK, HasOffer, [Next]_vars PROVE TypeOK' /\ HasOffer'
    OBVIOUS
  <2>1. ASSUME UNCHANGED vars PROVE TypeOK'
    BY <2>1 DEF TypeOK, vars, listenVars, workVars
  <2>2. TypeOK'
    BY <2>1, WorkerType, ListenerType, SendType DEF Next
  <2>3. QED
    BY <2>2, HasOfferStep
<1>3. QED
  BY <1>1, <1>2, PTL DEF Spec

LEMMA WorkersHaveOffers == Spec => []HasOffer
<1>1. Init => HasOffer
  BY DEF Init, HasOffer, Busy
<1>2. TypeOK /\ HasOffer /\ [Next]_vars => HasOffer'
  BY HasOfferStep
<1>3. QED
  BY <1>1, <1>2, ProcessorTypeCorrect, PTL DEF Spec

-----------------------------------------------------------------------------
(* A locked asset has one owner.                                           *)

\* The loops of lockItems and unlockItems go over the items of the offer, and
\* two items of an offer with one AssetID are never both held: lockItems waits
\* for ever at the second.
InLoop == \A r \in Runs : pc[r] \in {"lock", "unlock"} => left[r] \subseteq ItemsOf(offer[r])
HeldOnce == \A r \in Runs : \A i, j \in Holding(r) : Asset[i] = Asset[j] => i = j
\* A worker starts with its Run.
Unborn == \A r \in Runs : listener[r] = "new" => pc[r] = "unborn"
Owned == Unborn /\ InLoop /\ HeldOnce /\ LocksOwned

\* A step that changes neither the locks nor what the workers hold.
LEMMA KeepOwned ==
    ASSUME HeldOnce, LocksOwned, itemLocks' = itemLocks,
           \A r \in Runs : Holding(r)' = Holding(r)
    PROVE  HeldOnce' /\ LocksOwned'
<1>1. \A r \in Runs : HeldBy(r)' = HeldBy(r)
  BY DEF HeldBy
<1>2. QED
  BY <1>1 DEF HeldOnce, LocksOwned

\* A worker locks the asset of one more item, which nobody has locked.
LEMMA TakeOwned ==
    ASSUME HeldOnce, LocksOwned, NEW r \in Runs, NEW i \in Items,
           Asset[i] \notin itemLocks, itemLocks' = itemLocks \cup {Asset[i]},
           Holding(r)' = Holding(r) \cup {i},
           \A s \in Runs \ {r} : Holding(s)' = Holding(s)
    PROVE  HeldOnce' /\ LocksOwned'
<1>1. HeldBy(r)' = HeldBy(r) \cup {Asset[i]}
  BY DEF HeldBy
<1>2. \A s \in Runs \ {r} : HeldBy(s)' = HeldBy(s)
  BY DEF HeldBy
<1>3. \A s \in Runs : Asset[i] \notin HeldBy(s)
  BY DEF LocksOwned
<1>4. HeldOnce'
  <2>1. \A j \in Holding(r) : Asset[j] # Asset[i]
    BY <1>3 DEF HeldBy
  <2>2. QED
    BY <2>1 DEF HeldOnce
<1>5. itemLocks' = UNION {HeldBy(s)' : s \in Runs}
  BY <1>1, <1>2 DEF LocksOwned
<1>6. \A s, t \in Runs : s # t => HeldBy(s)' \cap HeldBy(t)' = {}
  BY <1>1, <1>2, <1>3 DEF LocksOwned
<1>7. QED
  BY <1>4, <1>5, <1>6 DEF LocksOwned

\* A worker unlocks the asset of an item it holds.
LEMMA GiveOwned ==
    ASSUME HeldOnce, LocksOwned, NEW r \in Runs, NEW i \in Holding(r),
           itemLocks' = itemLocks \ {Asset[i]},
           Holding(r)' = Holding(r) \ {i},
           \A s \in Runs \ {r} : Holding(s)' = Holding(s)
    PROVE  HeldOnce' /\ LocksOwned'
<1>1. HeldBy(r)' = HeldBy(r) \ {Asset[i]}
  BY DEF HeldBy, HeldOnce
<1>2. \A s \in Runs \ {r} : HeldBy(s)' = HeldBy(s)
  BY DEF HeldBy
<1>3. \A s \in Runs \ {r} : Asset[i] \notin HeldBy(s)
  BY DEF LocksOwned, HeldBy
<1>4. HeldOnce'
  BY DEF HeldOnce
<1>5. itemLocks' = UNION {HeldBy(s)' : s \in Runs}
  BY <1>1, <1>2, <1>3 DEF LocksOwned
<1>6. \A s, t \in Runs : s # t => HeldBy(s)' \cap HeldBy(t)' = {}
  BY <1>1, <1>2 DEF LocksOwned
<1>7. QED
  BY <1>4, <1>5, <1>6 DEF LocksOwned

\* What a worker holds depends on its pc, offer and loop only.
LEMMA OthersHold ==
    ASSUME NEW s \in Runs, pc'[s] = pc[s], offer'[s] = offer[s], left'[s] = left[s]
    PROVE  Holding(s)' = Holding(s)
BY DEF Holding

\* A step of a worker leaves the others alone.
LEMMA WorkerTouches ==
    ASSUME TypeOK, NEW r \in Runs, Worker(r)
    PROVE  \A s \in Runs \ {r} : pc'[s] = pc[s] /\ offer'[s] = offer[s] /\ left'[s] = left[s]
<1>1. CASE Take(r) \/ WorkerExits(r) \/ CheckNext(r) \/ BeginLock(r) \/ LockNext(r)
  BY <1>1 DEF TypeOK, Take, WorkerExits, CheckNext, BeginLock, LockNext, Goto, Done
<1>2. CASE Locked(r) \/ Evaluate(r) \/ Execute(r) \/ UnlockNext(r) \/ Unlocked(r)
  BY <1>2 DEF TypeOK, Locked, Evaluate, Execute, UnlockNext, Unlocked, Goto, Done, BeginUnlock
<1>3. QED
  BY <1>1, <1>2 DEF Worker

LEMMA WorkerOwned ==
    ASSUME TypeOK, HasOffer, Owned, NEW r \in Runs, Worker(r)
    PROVE  Owned'
<1> USE DEF Owned
<1>0. \A s \in Runs \ {r} : pc'[s] = pc[s] /\ offer'[s] = offer[s] /\ left'[s] = left[s]
  BY WorkerTouches
<1>1. \A s \in Runs \ {r} : Holding(s)' = Holding(s)
  BY <1>0, OthersHold
<1>2. ASSUME itemLocks' = itemLocks, Holding(r)' = Holding(r) PROVE HeldOnce' /\ LocksOwned'
  BY <1>1, <1>2, KeepOwned
<1>3. ASSUME pc'[r] \in {"lock", "unlock"} => left'[r] \subseteq ItemsOf(offer'[r])
      PROVE  InLoop' /\ Unborn'
  <2>1. pc[r] # "unborn" /\ UNCHANGED listener
    BY DEF Worker, Take, WorkerExits, CheckNext, BeginLock, LockNext, Locked, Evaluate,
           Execute, UnlockNext, Unlocked, listenVars
  <2>2. QED
    BY <1>0, <1>3, <2>1 DEF InLoop, Unborn
<1>4. CASE Take(r) \/ WorkerExits(r)
  BY <1>2, <1>3, <1>4 DEF Take, WorkerExits, Goto, TypeOK, Holding
<1>5. CASE CheckNext(r)
  <2>1. pc[r] = "check" /\ pc'[r] \in {"check", "idle"} /\ itemLocks' = itemLocks
    BY <1>5 DEF CheckNext, Done, Goto, TypeOK
  <2>2. QED
    BY <1>2, <1>3, <2>1 DEF Holding
<1>6. CASE BeginLock(r)
  BY <1>2, <1>3, <1>6 DEF BeginLock, Goto, TypeOK, Holding
<1>7. CASE LockNext(r)
  <2>1. PICK i \in left[r] : /\ Asset[i] \notin itemLocks
                             /\ itemLocks' = itemLocks \cup {Asset[i]}
                             /\ left' = [left EXCEPT ![r] = @ \ {i}]
    BY <1>7 DEF LockNext, Lowest
  <2>2. pc[r] = "lock" /\ UNCHANGED <<pc, offer>> /\ left'[r] = left[r] \ {i}
    BY <1>7, <2>1 DEF LockNext, TypeOK
  <2>3. i \in Items /\ i \in ItemsOf(offer[r])
    BY <2>1, <2>2 DEF TypeOK, InLoop
  <2>4. Holding(r)' = Holding(r) \cup {i}
    BY <2>2, <2>3 DEF Holding
  <2>5. HeldOnce' /\ LocksOwned'
    BY <1>1, <2>1, <2>3, <2>4, TakeOwned
  <2>6. QED
    BY <1>3, <2>2, <2>5 DEF InLoop
<1>8. CASE Locked(r)
  BY <1>2, <1>3, <1>8 DEF Locked, Goto, TypeOK, Holding
<1>9. CASE Evaluate(r) \/ Execute(r)
  <2>1. offer[r] \in Offers /\ pc[r] \in {"evaluate", "execute"} /\ UNCHANGED <<offer, itemLocks>>
    BY <1>9 DEF Evaluate, Execute, HasOffer, Busy
  <2>2. ItemsOf(offer[r]) \subseteq Items
    BY <2>1, ItemsFacts
  <2>3. \/ pc'[r] = "execute"
        \/ pc'[r] = "unlock" /\ left'[r] = ItemsOf(offer[r])
    BY <1>9 DEF Evaluate, Execute, BeginUnlock, Goto, TypeOK
  <2>4. Holding(r)' = Holding(r)
    BY <2>1, <2>2, <2>3 DEF Holding
  <2>5. QED
    BY <1>2, <1>3, <2>1, <2>3, <2>4
<1>10. CASE UnlockNext(r)
  <2>1. PICK i \in left[r] : /\ itemLocks' = itemLocks \ {Asset[i]}
                             /\ left' = [left EXCEPT ![r] = @ \ {i}]
    BY <1>10 DEF UnlockNext, Lowest
  <2>2. pc[r] = "unlock" /\ UNCHANGED <<pc, offer>> /\ left'[r] = left[r] \ {i}
    BY <1>10, <2>1 DEF UnlockNext, TypeOK
  <2>3. i \in Holding(r) /\ Holding(r)' = Holding(r) \ {i}
    BY <2>1, <2>2 DEF Holding, TypeOK
  <2>4. HeldOnce' /\ LocksOwned'
    BY <1>1, <2>1, <2>3, GiveOwned
  <2>5. QED
    BY <1>3, <2>2, <2>4 DEF InLoop
<1>11. CASE Unlocked(r)
  <2>1. pc[r] = "unlock" /\ left[r] = {} /\ pc'[r] = "idle" /\ UNCHANGED itemLocks
    BY <1>11 DEF Unlocked, Done, Goto, TypeOK
  <2>2. QED
    BY <1>2, <1>3, <2>1 DEF Holding
<1>12. QED
  BY <1>4, <1>5, <1>6, <1>7, <1>8, <1>9, <1>10, <1>11 DEF Worker

\* The inductive invariant holds.
LEMMA OwnedAlways == Spec => []Owned
<1>1. Init => Owned
  BY DEF Init, Owned, Unborn, InLoop, HeldOnce, LocksOwned, HeldBy, Holding
<1>2. TypeOK /\ HasOffer /\ Owned /\ [Next]_vars => Owned'
  <2> SUFFICES ASSUME TypeOK, HasOffer, Owned, [Next]_vars PROVE Owned'
    OBVIOUS
  <2>1. ASSUME UNCHANGED <<pc, offer, left, itemLocks>>, Unborn' PROVE Owned'
    <3>1. \A r \in Runs : Holding(r)' = Holding(r)
      BY <2>1 DEF Holding
    <3>2. HeldOnce' /\ LocksOwned'
      BY <2>1, <3>1, KeepOwned DEF Owned
    <3>3. QED
      BY <2>1, <3>2 DEF Owned, InLoop
  <2>2. ASSUME NEW r \in Runs, Run(r) PROVE Owned'
    <3>1. /\ UNCHANGED <<offer, left, itemLocks>> /\ pc' = [pc EXCEPT ![r] = "idle"]
          /\ listener' = [listener EXCEPT ![r] = "on"] /\ pc[r] = "unborn"
      BY <2>2 DEF Run, Goto, Owned, Unborn
    <3>2. InLoop' /\ Unborn' /\ \A s \in Runs : Holding(s)' = Holding(s)
      BY <3>1 DEF TypeOK, Owned, InLoop, Unborn, Holding
    <3>3. QED
      BY <3>1, <3>2, KeepOwned DEF Owned
  <2>3. CASE \/ \E o \in Offers : Announce(o)
             \/ \E r \in Runs : Listen(r) \/ RunReturns(r)
             \/ \E c \in Callers : CallEnqueue(c)
             \/ \E e \in Enqueuers : Send(e)
             \/ \E r \in Runs : Cancel(r)
             \/ UNCHANGED vars
    <3>1. UNCHANGED <<pc, offer, left, itemLocks>>
      BY <2>3 DEF Announce, Listen, RunReturns, CallEnqueue, Send, Cancel, vars, workVars
    <3>2. \A r \in Runs : listener'[r] = "new" => listener[r] = "new"
      BY <2>3 DEF TypeOK, Announce, Listen, RunReturns, CallEnqueue, Send, Cancel, vars, listenVars
    <3>3. Unborn'
      BY <3>1, <3>2 DEF Owned, Unborn
    <3>4. QED
      BY <2>1, <3>1, <3>3
  <2>4. QED
    BY <2>2, <2>3, WorkerOwned DEF Next
<1>3. QED
  BY <1>1, <1>2, ProcessorTypeCorrect, WorkersHaveOffers, PTL DEF Spec

\* An asset is locked by exactly one worker, and only while it is needed.
THEOREM ProcessorLocksOwned == Spec => []LocksOwned
<1>1. Owned => LocksOwned
  BY DEF Owned
<1>2. QED
  BY <1>1, OwnedAlways, PTL

-----------------------------------------------------------------------------
(* Implementation of AssetUse.                                             *)

LEMMA UsingHeld ==
    ASSUME TypeOK, HasOffer, NEW r \in Runs
    PROVE  \A a \in Using[r] : a \in HeldBy(r)
<1>1. CASE pc[r] \in {"evaluate", "execute"}
  <2>1. Using[r] = AssetsOf(offer[r]) /\ ItemsOf(offer[r]) \subseteq Items
    BY <1>1, ItemsFacts DEF Using, HasOffer, Busy
  <2>2. QED
    BY <1>1, <2>1 DEF AssetsOf, HeldBy, Holding
<1>2. CASE pc[r] \notin {"evaluate", "execute"}
  BY <1>2 DEF Using
<1>3. QED
  BY <1>1, <1>2

LEMMA UseStep ==
    ASSUME TypeOK, HasOffer, Owned, [Next]_vars
    PROVE  [Use!Next]_Using
<1> DEFINE U(r) == IF pc[r] \in {"evaluate", "execute"} THEN AssetsOf(offer[r]) ELSE {}
<1>1. Using = [r \in Runs |-> U(r)] /\ Using' = [r \in Runs |-> U(r)']
  BY DEF Using
<1>2. ASSUME NEW r \in Runs, \A s \in Runs \ {r} : UNCHANGED <<pc[s], offer[s]>>
      PROVE  Using' = [Using EXCEPT ![r] = U(r)']
  BY <1>1, <1>2
<1>3. ASSUME \A s \in Runs : U(s)' = U(s) PROVE Using' = Using
  BY <1>1, <1>3
<1> HIDE DEF U
<1>4. ASSUME NEW r \in Runs, Locked(r) PROVE [Use!Next]_Using
  <2>1. /\ pc[r] = "lock" /\ pc' = [pc EXCEPT ![r] = "evaluate"] /\ UNCHANGED offer
        /\ offer[r] \in Offers
    BY <1>4 DEF Locked, Goto, HasOffer, Busy
  <2>2. Using' = [Using EXCEPT ![r] = AssetsOf(offer[r])] /\ Using[r] = {}
    BY <1>1, <1>2, <2>1 DEF TypeOK, U
  <2>3. \A v \in Runs : \A a \in AssetsOf(offer[r]) : a \notin Using[v]
    <3>1. \A a \in AssetsOf(offer[r]) : a \in HeldBy(r)
      <4>1. left[r] = {} /\ ItemsOf(offer[r]) \subseteq Items
        BY <1>4, <2>1, ItemsFacts DEF Locked
      <4>2. QED
        BY <2>1, <4>1 DEF AssetsOf, HeldBy, Holding
    <3>2. \A v \in Runs : \A a \in Using[v] : a \in HeldBy(v)
      BY UsingHeld
    <3>3. QED
      BY <2>2, <3>1, <3>2 DEF Owned, LocksOwned
  <2>4. AssetsOf(offer[r]) \in SUBSET {Asset[i] : i \in Items}
    BY <2>1, ItemsFacts DEF AssetsOf
  <2>5. Use!Acquire(r, AssetsOf(offer[r]))
    BY <2>2, <2>3 DEF Use!Acquire, Use!Disjoint
  <2>6. QED
    BY <2>4, <2>5 DEF Use!Next
<1>5. ASSUME NEW r \in Runs, Evaluate(r) \/ Execute(r) PROVE [Use!Next]_Using
  <2>1. /\ UNCHANGED offer /\ pc[r] \in {"evaluate", "execute"}
        /\ pc' = [pc EXCEPT ![r] = "execute"] \/ pc' = [pc EXCEPT ![r] = "unlock"]
        /\ pc[r] = "execute" => pc' = [pc EXCEPT ![r] = "unlock"]
    BY <1>5 DEF Evaluate, Execute, BeginUnlock, Goto
  <2>2. CASE pc' = [pc EXCEPT ![r] = "execute"]
    BY <1>3, <2>1, <2>2 DEF TypeOK, U
  <2>3. CASE pc' = [pc EXCEPT ![r] = "unlock"]
    <3>1. Using' = [Using EXCEPT ![r] = {}]
      BY <1>2, <2>1, <2>3 DEF TypeOK, U
    <3>2. QED
      BY <3>1 DEF Use!Next, Use!Release
  <2>4. QED
    BY <2>1, <2>2, <2>3
<1>6. ASSUME NEW r \in Runs, \A s \in Runs \ {r} : UNCHANGED <<pc[s], offer[s]>>,
             pc[r] \notin {"evaluate", "execute"}, pc'[r] \notin {"evaluate", "execute"}
      PROVE  Using' = Using
  <2>1. \A s \in Runs : U(s)' = U(s)
    BY <1>6 DEF U
  <2>2. QED
    BY <1>3, <2>1
<1>7. ASSUME NEW r \in Runs, Take(r) \/ WorkerExits(r) \/ CheckNext(r) \/ BeginLock(r)
                             \/ Unlocked(r) \/ Run(r)
      PROVE  Using' = Using
  <2>1. pc[r] \notin {"evaluate", "execute"}
    BY <1>7 DEF Take, WorkerExits, CheckNext, BeginLock, Unlocked, Run, Owned, Unborn
  <2>2. /\ pc'[r] \notin {"evaluate", "execute"}
        /\ \A s \in Runs \ {r} : UNCHANGED <<pc[s], offer[s]>>
    BY <1>7 DEF Take, WorkerExits, CheckNext, BeginLock, Unlocked, Run, Done, Goto, TypeOK
  <2>3. QED
    BY <1>6, <2>1, <2>2
<1>8. ASSUME UNCHANGED <<pc, offer>> PROVE Using' = Using
  BY <1>3, <1>8 DEF U
<1>9. CASE \/ \E o \in Offers : Announce(o)
           \/ \E r \in Runs : Listen(r) \/ RunReturns(r) \/ LockNext(r) \/ UnlockNext(r)
           \/ \E c \in Callers : CallEnqueue(c)
           \/ \E e \in Enqueuers : Send(e)
           \/ \E r \in Runs : Cancel(r)
           \/ UNCHANGED vars
  BY <1>8, <1>9 DEF Announce, Listen, RunReturns, LockNext, UnlockNext, CallEnqueue, Send,
                    Cancel, vars, workVars
<1>10. QED
  BY <1>4, <1>5, <1>7, <1>9 DEF Next, Worker

\* No asset is in two trades that workers evaluate or execute: OfferProcessor
\* implements AssetUse.
THEOREM ProcessorImplementsAssetUse == Spec => ImplementsAssetUse
<1>1. Init => Use!Init
  BY DEF Init, Use!Init, Using
<1>2. QED
  BY <1>1, UseStep, OwnedAlways, ProcessorTypeCorrect, WorkersHaveOffers, PTL
     DEF Spec, ImplementsAssetUse, Use!Spec

\* What AssetUse promises follows from its steps alone.
LEMMA UseExclusive == Use!Exclusive /\ [Use!Next]_Using => Use!Exclusive'
<1> SUFFICES ASSUME Use!Exclusive, [Use!Next]_Using PROVE Use!Exclusive'
  OBVIOUS
<1>1. DOMAIN Using = Runs /\ Using = [u \in DOMAIN Using |-> Using[u]]
  BY DEF Using
<1>2. ASSUME NEW u \in Runs, Use!Release(u) PROVE Use!Exclusive'
  <2>1. Using' = [Using EXCEPT ![u] = {}]
    BY <1>2 DEF Use!Release
  <2>2. \A v \in Runs : Using'[v] = IF v = u THEN {} ELSE Using[v]
    BY <1>1, <2>1
  <2>3. QED
    BY <2>2 DEF Use!Exclusive, Use!Disjoint
<1>3. ASSUME NEW u \in Runs, NEW S, Use!Acquire(u, S) PROVE Use!Exclusive'
  <2>1. /\ \A v \in Runs : \A a \in S : a \notin Using[v]
        /\ Using' = [Using EXCEPT ![u] = S]
    BY <1>3 DEF Use!Acquire, Use!Disjoint
  <2>2. \A v \in Runs : Using'[v] = IF v = u THEN S ELSE Using[v]
    BY <1>1, <2>1
  <2>3. QED
    BY <2>1, <2>2 DEF Use!Exclusive, Use!Disjoint
<1>4. CASE UNCHANGED Using
  BY <1>4 DEF Use!Exclusive, Use!Disjoint
<1>5. QED
  BY <1>2, <1>3, <1>4 DEF Use!Next

\* No asset is in the trades of two workers at a time, through AssetUse.
THEOREM ProcessorExclusive == Spec => []Use!Exclusive
<1>1. Use!Init => Use!Exclusive
  BY DEF Use!Init, Use!Exclusive, Use!Disjoint
<1>2. QED
  BY <1>1, UseExclusive, ProcessorImplementsAssetUse, PTL DEF ImplementsAssetUse, Use!Spec

-----------------------------------------------------------------------------
(* An offer is in one place.                                               *)

\* An offer stays in processing wherever it is.
InProcess ==
    /\ \A e \in Enqueuers : sending[e] # NoOffer => sending[e] \in processing
    /\ \A k \in 1..Len(queue) : queue[k] \in processing
    /\ \A r \in Runs : Busy(r) => offer[r] \in processing
Placed == InProcess /\ OfferInOnePlace

LEMMA StorePlaced ==
    ASSUME TypeOK, Placed, NEW e \in Enqueuers, NEW o \in Offers, Store(e, o),
           UNCHANGED <<queue, pc, offer>>
    PROVE  Placed'
<1> USE DEF Placed
<1>1. CASE o \in processing
  <2>1. UNCHANGED <<processing, sending>>
    BY <1>1 DEF Store, TypeOK
  <2>2. QED
    BY <2>1 DEF InProcess, OfferInOnePlace, Busy
<1>2. CASE o \notin processing
  <2>1. processing' = processing \cup {o} /\ sending' = [sending EXCEPT ![e] = o]
    BY <1>2 DEF Store
  <2>2. InProcess'
    BY <2>1 DEF InProcess, TypeOK, Busy
  <2>3. QED
    BY <1>2, <2>1, <2>2 DEF InProcess, OfferInOnePlace, TypeOK, Busy
<1>3. QED
  BY <1>1, <1>2

LEMMA SendPlaced ==
    ASSUME TypeOK, HasOffer, Placed, NEW e \in Enqueuers, Send(e)
    PROVE  Placed'
<1> USE DEF Placed
<1>1. /\ sending[e] \in Offers /\ sending' = [sending EXCEPT ![e] = NoOffer]
      /\ UNCHANGED <<pc, offer>> /\ Len(queue) \in Nat /\ queue \in Seq(Offers)
      /\ NoOffer \notin Offers
  BY OffersAssumption DEF Send, TypeOK, workVars
<1>2. CASE queue' = Append(queue, sending[e]) /\ UNCHANGED processing
  <2>1. /\ Len(queue') = Len(queue) + 1 /\ queue'[Len(queue) + 1] = sending[e]
        /\ \A k \in 1..Len(queue) : queue'[k] = queue[k]
    BY <1>1, <1>2, AppendFacts
  <2>2. \A k \in 1..Len(queue') : k \in 1..Len(queue) \/ k = Len(queue) + 1
    BY <1>1, <2>1
  <2>3. InProcess'
    BY <1>1, <1>2, <2>1, <2>2 DEF InProcess, TypeOK, Busy
  <2>4. \A j, k \in 1..Len(queue') : j # k => queue'[j] # queue'[k]
    BY <2>1, <2>2 DEF OfferInOnePlace
  <2>5. \A f \in Enqueuers : \A k \in 1..Len(queue') : sending'[f] # queue'[k]
    <3>1. \A k \in 1..Len(queue') : queue'[k] \in Offers
      BY <1>1, <2>1, <2>2
    <3>2. QED
      BY <1>1, <2>1, <2>2, <3>1 DEF OfferInOnePlace, TypeOK
  <2>6. \A k \in 1..Len(queue'), r \in Runs : Busy(r)' => queue'[k] # offer'[r]
    BY <1>1, <2>1, <2>2 DEF OfferInOnePlace, Busy
  <2>7. /\ \A f, g \in Enqueuers : f # g => sending'[f] = NoOffer \/ sending'[f] # sending'[g]
        /\ \A f \in Enqueuers, r \in Runs : Busy(r)' => sending'[f] # offer'[r]
        /\ \A r, s \in Runs : r # s /\ Busy(r)' /\ Busy(s)' => offer'[r] # offer'[s]
    BY <1>1 DEF OfferInOnePlace, Busy, TypeOK, HasOffer
  <2>8. QED
    BY <2>3, <2>4, <2>5, <2>6, <2>7 DEF OfferInOnePlace
<1>3. CASE processing' = processing \ {sending[e]} /\ UNCHANGED queue
  <2>1. InProcess'
    BY <1>1, <1>3 DEF InProcess, OfferInOnePlace, TypeOK, Busy
  <2>2. QED
    BY <1>1, <1>3, <2>1 DEF OfferInOnePlace, TypeOK, HasOffer, Busy
<1>4. QED
  BY <1>2, <1>3 DEF Send

LEMMA TakePlaced ==
    ASSUME TypeOK, Placed, NEW r \in Runs, Take(r)
    PROVE  Placed'
<1> USE DEF Placed
<1>1. /\ queue # <<>> /\ queue \in Seq(Offers) /\ UNCHANGED <<processing, sending>>
      /\ offer' = [offer EXCEPT ![r] = queue[1]] /\ queue' = Tail(queue)
      /\ pc[r] = "idle" /\ pc' = [pc EXCEPT ![r] = "check"] /\ 1 \in 1..Len(queue)
  BY TailFacts DEF Take, Goto, TypeOK
<1>2. \A k \in 1..Len(queue') : k + 1 \in 1..Len(queue) /\ queue'[k] = queue[k + 1]
  BY <1>1, TailFacts
<1>3. /\ offer'[r] = queue[1] /\ \A s \in Runs \ {r} : offer'[s] = offer[s]
      /\ Busy(r)' /\ \A s \in Runs \ {r} : Busy(s)' = Busy(s)
  BY <1>1 DEF TypeOK, Busy
<1>4. InProcess'
  <2>1. \A e \in Enqueuers : sending'[e] # NoOffer => sending'[e] \in processing'
    BY <1>1 DEF InProcess
  <2>2. \A k \in 1..Len(queue') : queue'[k] \in processing'
    BY <1>1, <1>2 DEF InProcess
  <2>3. \A s \in Runs : Busy(s)' => offer'[s] \in processing'
    BY <1>1, <1>3 DEF InProcess
  <2>4. QED
    BY <2>1, <2>2, <2>3 DEF InProcess
<1>5. \A j, k \in 1..Len(queue') : j # k => queue'[j] # queue'[k]
  <2>1. ASSUME NEW j \in 1..Len(queue'), NEW k \in 1..Len(queue'), j # k
        PROVE  j + 1 # k + 1
    BY <2>1
  <2>2. QED
    BY <1>2, <2>1 DEF OfferInOnePlace
<1>6. \A k \in 1..Len(queue'), s \in Runs : Busy(s)' => queue'[k] # offer'[s]
  <2>1. \A k \in 1..Len(queue') : k + 1 # 1
    OBVIOUS
  <2>2. \A k \in 1..Len(queue') : queue'[k] # queue[1]
    BY <1>1, <1>2, <2>1 DEF OfferInOnePlace
  <2>3. QED
    BY <1>2, <1>3, <2>2 DEF OfferInOnePlace
<1>7. \A e \in Enqueuers : \A k \in 1..Len(queue') : sending'[e] # queue'[k]
  BY <1>1, <1>2 DEF OfferInOnePlace
<1>8. \A e \in Enqueuers, s \in Runs : Busy(s)' => sending'[e] # offer'[s]
  BY <1>1, <1>3 DEF OfferInOnePlace
<1>9. \A s, t \in Runs : s # t /\ Busy(s)' /\ Busy(t)' => offer'[s] # offer'[t]
  BY <1>1, <1>3 DEF OfferInOnePlace
<1>10. QED
  BY <1>1, <1>4, <1>5, <1>6, <1>7, <1>8, <1>9 DEF OfferInOnePlace

LEMMA DonePlaced ==
    ASSUME TypeOK, Placed, NEW r \in Runs, Done(r), Busy(r), UNCHANGED <<sending, queue>>
    PROVE  Placed'
<1> USE DEF Placed
<1>1. /\ processing' = processing \ {offer[r]} /\ ~Busy(r)'
      /\ \A s \in Runs \ {r} : Busy(s)' = Busy(s) /\ offer'[s] = offer[s]
  BY DEF Done, Goto, Busy, TypeOK
<1>2. InProcess'
  BY <1>1 DEF InProcess, OfferInOnePlace
<1>3. OfferInOnePlace'
  BY <1>1 DEF OfferInOnePlace
<1>4. QED
  BY <1>2, <1>3

\* A step inside handleOffer, or at its ends.
LEMMA StayPlaced ==
    ASSUME Placed, UNCHANGED <<processing, sending, queue, offer>>,
           \A r \in Runs : Busy(r)' => Busy(r)
    PROVE  Placed'
BY DEF Placed, InProcess, OfferInOnePlace

LEMMA WorkerPlaced ==
    ASSUME TypeOK, Placed, NEW r \in Runs, Worker(r)
    PROVE  Placed'
<1>1. CASE Take(r)
  BY <1>1, TakePlaced
<1>2. CASE (CheckNext(r) /\ Done(r)) \/ Unlocked(r)
  BY <1>2, DonePlaced DEF CheckNext, Unlocked, Busy
<1>3. CASE CheckNext(r) /\ ~Done(r)
  BY <1>3, StayPlaced DEF CheckNext, Busy
<1>4. CASE WorkerExits(r) \/ BeginLock(r) \/ LockNext(r) \/ Locked(r)
  BY <1>4, StayPlaced DEF TypeOK, Busy, WorkerExits, BeginLock, LockNext, Locked, Goto
<1>5. CASE Evaluate(r) \/ Execute(r) \/ UnlockNext(r)
  BY <1>5, StayPlaced DEF TypeOK, Busy, Evaluate, Execute, UnlockNext, BeginUnlock, Goto
<1>6. QED
  BY <1>1, <1>2, <1>3, <1>4, <1>5 DEF Worker

\* No two goroutines work on an offer, and it is not queued while one does.
THEOREM ProcessorOnePlace == Spec => []OfferInOnePlace
<1>1. Init => Placed
  <2> SUFFICES ASSUME Init PROVE Placed
    OBVIOUS
  <2>1. 1..Len(queue) = {}
    BY DEF Init
  <2>2. QED
    BY <2>1 DEF Init, Placed, InProcess, OfferInOnePlace, Busy
<1>2. TypeOK /\ HasOffer /\ Placed /\ [Next]_vars => Placed'
  <2> SUFFICES ASSUME TypeOK, HasOffer, Placed, [Next]_vars PROVE Placed'
    OBVIOUS
  <2>1. ASSUME NEW r \in Runs, Listen(r) PROVE Placed'
    <3>1. PICK o \in inbox[r] : Store(r, o)
      BY <2>1 DEF Listen
    <3>2. o \in Offers /\ r \in Enqueuers /\ UNCHANGED <<queue, pc, offer>>
      BY <2>1, <3>1 DEF Listen, TypeOK, Enqueuers, workVars
    <3>3. QED
      BY <3>1, <3>2, StorePlaced
  <2>2. ASSUME NEW c \in Callers, CallEnqueue(c) PROVE Placed'
    <3>1. PICK o \in announced : Store(c, o)
      BY <2>2 DEF CallEnqueue
    <3>2. o \in Offers /\ c \in Enqueuers /\ UNCHANGED <<queue, pc, offer>>
      BY <2>2, <3>1 DEF CallEnqueue, TypeOK, Enqueuers, workVars
    <3>3. QED
      BY <3>1, <3>2, StorePlaced
  <2>3. CASE \/ \E o \in Offers : Announce(o)
             \/ \E r \in Runs : Run(r) \/ RunReturns(r)
             \/ \E r \in Runs : Cancel(r)
             \/ UNCHANGED vars
    BY <2>3, StayPlaced DEF Announce, Run, RunReturns, Cancel, vars, workVars, Goto, Busy, TypeOK
  <2>4. QED
    BY <2>1, <2>2, <2>3, WorkerPlaced, SendPlaced DEF Next
<1>3. Placed => OfferInOnePlace
  BY DEF Placed
<1>4. QED
  BY <1>1, <1>2, <1>3, ProcessorTypeCorrect, WorkersHaveOffers, PTL DEF Spec
\* Nothing but the places matters: they keep what stays in processing.
LEMMA StayTracked ==
    ASSUME NoOrphan, processing' \subseteq processing,
           \A o \in processing' : \A e \in Enqueuers :
               sending[e] = o => \E f \in Enqueuers : sending'[f] = o,
           \A o \in processing' : \A k \in 1..Len(queue) :
               queue[k] = o => \/ \E j \in 1..Len(queue') : queue'[j] = o
                               \/ \E r \in Runs : Busy(r)' /\ offer'[r] = o,
           \A o \in processing' : \A r \in Runs :
               Busy(r) /\ offer[r] = o => \E s \in Runs : Busy(s)' /\ offer'[s] = o
    PROVE  NoOrphan'
<1>1. SUFFICES ASSUME NEW o \in processing'
               PROVE  \/ \E e \in Enqueuers : sending'[e] = o
                      \/ \E k \in 1..Len(queue') : queue'[k] = o
                      \/ \E r \in Runs : Busy(r)' /\ offer'[r] = o
  BY DEF NoOrphan
<1>2. CASE \E e \in Enqueuers : sending[e] = o
  BY <1>1, <1>2
<1>3. CASE \E k \in 1..Len(queue) : queue[k] = o
  BY <1>1, <1>3
<1>4. CASE \E r \in Runs : Busy(r) /\ offer[r] = o
  BY <1>1, <1>4
<1>5. QED
  BY <1>1, <1>2, <1>3, <1>4 DEF NoOrphan

LEMMA StoreTracked ==
    ASSUME TypeOK, NoOrphan, NEW e \in Enqueuers, NEW o \in Offers, Store(e, o),
           UNCHANGED <<queue, pc, offer>>
    PROVE  NoOrphan'
<1>1. CASE o \in processing
  <2>1. UNCHANGED <<processing, sending>>
    BY <1>1 DEF Store, TypeOK
  <2>2. QED
    BY <2>1 DEF NoOrphan, Busy
<1>2. CASE o \notin processing
  <2>1. /\ processing' = processing \cup {o} /\ sending'[e] = o
        /\ \A f \in Enqueuers : sending[f] # NoOffer => sending'[f] = sending[f]
    BY <1>2 DEF Store, TypeOK
  <2>2. ASSUME NEW p \in processing, p # o
        PROVE  \/ \E f \in Enqueuers : sending'[f] = p
               \/ \E k \in 1..Len(queue') : queue'[k] = p
               \/ \E r \in Runs : Busy(r)' /\ offer'[r] = p
    <3>1. p # NoOffer
      BY OffersAssumption DEF TypeOK
    <3>2. QED
      BY <2>1, <3>1 DEF NoOrphan, Busy
  <2>3. QED
    BY <2>1, <2>2 DEF NoOrphan
<1>3. QED
  BY <1>1, <1>2

LEMMA SendTracked ==
    ASSUME TypeOK, NoOrphan, NEW e \in Enqueuers, Send(e)
    PROVE  NoOrphan'
<1>1. /\ sending[e] \in Offers /\ UNCHANGED <<pc, offer>> /\ queue \in Seq(Offers)
      /\ \A f \in Enqueuers \ {e} : sending'[f] = sending[f]
  BY DEF Send, TypeOK, workVars
<1>2. CASE queue' = Append(queue, sending[e]) /\ UNCHANGED processing
  <2>1. /\ queue'[Len(queue) + 1] = sending[e] /\ Len(queue) + 1 \in 1..Len(queue')
        /\ \A k \in 1..Len(queue) : k \in 1..Len(queue') /\ queue'[k] = queue[k]
    BY <1>1, <1>2, AppendFacts
  <2>2. ASSUME NEW p \in processing
        PROVE  \/ \E f \in Enqueuers : sending'[f] = p
               \/ \E k \in 1..Len(queue') : queue'[k] = p
               \/ \E r \in Runs : Busy(r)' /\ offer'[r] = p
    <3>1. CASE \E f \in Enqueuers : sending[f] = p
      BY <1>1, <2>1, <3>1
    <3>2. CASE \E k \in 1..Len(queue) : queue[k] = p
      BY <2>1, <3>2
    <3>3. CASE \E r \in Runs : Busy(r) /\ offer[r] = p
      BY <1>1, <3>3 DEF Busy
    <3>4. QED
      BY <3>1, <3>2, <3>3 DEF NoOrphan
  <2>3. QED
    BY <1>2, <2>2 DEF NoOrphan
<1>3. CASE processing' = processing \ {sending[e]} /\ UNCHANGED queue
  BY <1>1, <1>3, StayTracked DEF Busy
<1>4. QED
  BY <1>2, <1>3 DEF Send

LEMMA WorkerTracked ==
    ASSUME TypeOK, NoOrphan, NEW r \in Runs, Worker(r)
    PROVE  NoOrphan'
<1>1. CASE Take(r)
  <2>1. /\ queue # <<>> /\ queue \in Seq(Offers) /\ UNCHANGED <<processing, sending>>
        /\ queue' = Tail(queue) /\ pc[r] = "idle" /\ pc'[r] = "check" /\ offer'[r] = queue[1]
    BY <1>1, TailFacts DEF Take, Goto, TypeOK
  <2>2. ASSUME NEW k \in 1..Len(queue), k # 1
        PROVE  k - 1 \in 1..Len(queue') /\ queue'[k - 1] = queue[k]
    <3>1. k - 1 \in 1..Len(queue') /\ (k - 1) + 1 = k
      BY <2>1, <2>2, TailFacts
    <3>2. QED
      BY <2>1, <3>1, TailFacts
  <2>3. ASSUME NEW k \in 1..Len(queue)
        PROVE  \/ \E j \in 1..Len(queue') : queue'[j] = queue[k]
               \/ \E s \in Runs : Busy(s)' /\ offer'[s] = queue[k]
    <3>1. CASE k = 1
      BY <2>1, <3>1 DEF Busy
    <3>2. CASE k # 1
      BY <2>2, <3>2
    <3>3. QED
      BY <3>1, <3>2
  <2>4. ASSUME NEW s \in Runs, Busy(s) PROVE Busy(s)' /\ offer'[s] = offer[s]
    BY <1>1, <2>1, <2>4, WorkerTouches DEF Busy
  <2>5. QED
    BY <2>1, <2>3, <2>4, StayTracked
<1>2. CASE (CheckNext(r) /\ Done(r)) \/ Unlocked(r)
  <2>1. /\ UNCHANGED <<sending, queue>> /\ processing' = processing \ {offer[r]}
        /\ \A s \in Runs \ {r} : Busy(s)' = Busy(s) /\ offer'[s] = offer[s]
    BY <1>2, WorkerTouches DEF CheckNext, Unlocked, Done, Busy
  <2>2. QED
    BY <2>1, StayTracked
<1>3. CASE \/ WorkerExits(r) \/ BeginLock(r) \/ LockNext(r) \/ Locked(r)
           \/ Evaluate(r) \/ Execute(r) \/ UnlockNext(r) \/ (CheckNext(r) /\ ~Done(r))
  <2>1. UNCHANGED <<processing, sending, queue, offer>>
    BY <1>3 DEF WorkerExits, BeginLock, LockNext, Locked, Evaluate, Execute, UnlockNext,
                CheckNext, BeginUnlock
  <2>2. Busy(r) => Busy(r)'
    <3>1. CASE WorkerExits(r) \/ BeginLock(r) \/ LockNext(r) \/ Locked(r)
      BY <3>1 DEF WorkerExits, BeginLock, LockNext, Locked, Busy, Goto, TypeOK
    <3>2. CASE Evaluate(r) \/ Execute(r) \/ UnlockNext(r) \/ (CheckNext(r) /\ ~Done(r))
      BY <3>2 DEF Evaluate, Execute, UnlockNext, CheckNext, BeginUnlock, Busy, Goto, TypeOK
    <3>3. QED
      BY <1>3, <3>1, <3>2
  <2>3. \A s \in Runs : Busy(s) => Busy(s)'
    BY <2>2, WorkerTouches DEF Busy
  <2>4. QED
    BY <2>1, <2>3, StayTracked
<1>4. CASE CheckNext(r)
  BY <1>2, <1>3, <1>4
<1>5. QED
  BY <1>1, <1>2, <1>3, <1>4 DEF Worker

\* An offer in processing is being sent, queued or handled.
THEOREM ProcessorNoOrphan == Spec => []NoOrphan
<1>1. Init => NoOrphan
  BY DEF Init, NoOrphan
<1>2. TypeOK /\ Owned /\ NoOrphan /\ [Next]_vars => NoOrphan'
  <2> SUFFICES ASSUME TypeOK, Owned, NoOrphan, [Next]_vars PROVE NoOrphan'
    OBVIOUS
  <2>1. ASSUME NEW r \in Runs, Listen(r) PROVE NoOrphan'
    <3>1. PICK o \in inbox[r] : Store(r, o)
      BY <2>1 DEF Listen
    <3>2. o \in Offers /\ r \in Enqueuers /\ UNCHANGED <<queue, pc, offer>>
      BY <2>1, <3>1 DEF Listen, TypeOK, Enqueuers, workVars
    <3>3. QED
      BY <3>1, <3>2, StoreTracked
  <2>2. ASSUME NEW c \in Callers, CallEnqueue(c) PROVE NoOrphan'
    <3>1. PICK o \in announced : Store(c, o)
      BY <2>2 DEF CallEnqueue
    <3>2. o \in Offers /\ c \in Enqueuers /\ UNCHANGED <<queue, pc, offer>>
      BY <2>2, <3>1 DEF CallEnqueue, TypeOK, Enqueuers, workVars
    <3>3. QED
      BY <3>1, <3>2, StoreTracked
  <2>3. CASE \/ \E o \in Offers : Announce(o)
             \/ \E r \in Runs : Run(r) \/ RunReturns(r)
             \/ \E r \in Runs : Cancel(r)
             \/ UNCHANGED vars
    <3>1. /\ UNCHANGED <<processing, sending, queue, offer>>
          /\ \A r \in Runs : Busy(r) => Busy(r)'
      <4>1. CASE \E r \in Runs : Run(r)
        <5>1. PICK r \in Runs : Run(r)
          BY <4>1
        <5>2. pc' = [pc EXCEPT ![r] = "idle"] /\ UNCHANGED <<processing, sending, queue, offer>>
          BY <5>1 DEF Run, Goto
        <5>3. ~Busy(r)
          BY <5>1 DEF Run, Owned, Unborn, Busy
        <5>4. QED
          BY <5>2, <5>3 DEF Busy, TypeOK
      <4>2. CASE ~ \E r \in Runs : Run(r)
        BY <2>3, <4>2 DEF Announce, RunReturns, Cancel, vars, workVars, Busy
      <4>3. QED
        BY <4>1, <4>2
    <3>2. QED
      BY <3>1, StayTracked
  <2>4. QED
    BY <2>1, <2>2, <2>3, WorkerTracked, SendTracked DEF Next
<1>3. QED
  BY <1>1, <1>2, ProcessorTypeCorrect, OwnedAlways, PTL DEF Spec

-----------------------------------------------------------------------------
(* Workers do not wait for each other.                                     *)

LEMMA LowestFacts ==
    ASSUME NEW S, NEW i \in Lowest(S)
    PROVE  i \in S /\ \A j \in S : Asset[i] <= Asset[j]
BY DEF Lowest

\* A worker locks the lowest of its assets first.
LEMMA AscendStep ==
    ASSUME TypeOK, HasOffer, LocksAscend, NEW r \in Runs, Worker(r)
    PROVE  LocksAscend'
<1>1. \A s \in Runs \ {r} : pc'[s] = pc[s] /\ offer'[s] = offer[s] /\ left'[s] = left[s]
  BY WorkerTouches
<1>2. ASSUME pc'[r] = "lock" => \A i \in ItemsOf(offer'[r]) \ left'[r], j \in left'[r] :
                                    Asset[i] <= Asset[j]
      PROVE  LocksAscend'
  BY <1>1, <1>2 DEF LocksAscend
<1>3. CASE LockNext(r)
  <2>1. PICK k \in Lowest(left[r]) : left' = [left EXCEPT ![r] = @ \ {k}]
    BY <1>3 DEF LockNext
  <2>2. UNCHANGED <<pc, offer>> /\ pc[r] = "lock" /\ left'[r] = left[r] \ {k}
    BY <1>3, <2>1 DEF LockNext, TypeOK
  <2>3. ASSUME NEW i \in ItemsOf(offer[r]) \ left'[r], NEW j \in left'[r]
        PROVE  Asset[i] <= Asset[j]
    <3>1. CASE i = k
      BY <2>1, <2>2, <2>3, <3>1, LowestFacts
    <3>2. CASE i # k
      BY <2>2, <2>3, <3>2 DEF LocksAscend
    <3>3. QED
      BY <3>1, <3>2
  <2>4. QED
    BY <1>2, <2>2, <2>3
<1>4. CASE BeginLock(r)
  <2>1. left'[r] = ItemsOf(offer'[r])
    BY <1>4 DEF BeginLock, TypeOK
  <2>2. QED
    BY <1>2, <2>1
<1>5. CASE Take(r) \/ WorkerExits(r) \/ CheckNext(r) \/ Unlocked(r)
  <2>1. pc'[r] # "lock"
    BY <1>5 DEF Take, WorkerExits, CheckNext, Unlocked, Done, Goto, TypeOK
  <2>2. QED
    BY <1>2, <2>1
<1>6. CASE Locked(r) \/ Evaluate(r) \/ Execute(r) \/ UnlockNext(r)
  <2>1. pc'[r] # "lock"
    BY <1>6 DEF Locked, Evaluate, Execute, UnlockNext, BeginUnlock, Goto, TypeOK
  <2>2. QED
    BY <1>2, <2>1
<1>7. QED
  BY <1>3, <1>4, <1>5, <1>6 DEF Worker

LEMMA AscendAlways == Spec => []LocksAscend
<1>1. Init => LocksAscend
  BY DEF Init, LocksAscend
<1>2. TypeOK /\ HasOffer /\ LocksAscend /\ [Next]_vars => LocksAscend'
  <2> SUFFICES ASSUME TypeOK, HasOffer, LocksAscend, [Next]_vars PROVE LocksAscend'
    OBVIOUS
  <2>1. ASSUME NEW r \in Runs, Run(r) PROVE LocksAscend'
    BY <2>1 DEF Run, Goto, TypeOK, LocksAscend
  <2>2. CASE \/ \E o \in Offers : Announce(o)
             \/ \E r \in Runs : Listen(r) \/ RunReturns(r)
             \/ \E c \in Callers : CallEnqueue(c)
             \/ \E e \in Enqueuers : Send(e)
             \/ \E r \in Runs : Cancel(r)
             \/ UNCHANGED vars
    <3>1. UNCHANGED <<pc, offer, left>>
      BY <2>2 DEF Announce, Listen, RunReturns, CallEnqueue, Send, Cancel, vars, workVars
    <3>2. QED
      BY <3>1 DEF LocksAscend
  <2>3. QED
    BY <2>1, <2>2, AscendStep DEF Next
<1>3. QED
  BY <1>1, <1>2, ProcessorTypeCorrect, WorkersHaveOffers, PTL DEF Spec

\* A set of numbers that is bounded has a greatest.
LEMMA GreatestAsset ==
    ASSUME NEW n \in Nat, NEW S, S \subseteq 0..n, S # {}
    PROVE  \E m \in S : \A k \in S : k <= m
<1> DEFINE Below == {n - k : k \in S}
<1>1. Below \subseteq Nat /\ Below # {}
  <2>1. \A k \in S : n - k \in Nat
    OBVIOUS
  <2>2. QED
    BY <2>1
<1>2. PICK t \in Below : \A u \in Below : <<u, t>> \notin OpToRel(<, Nat)
  BY <1>1, NatLessThanWellFounded, WFMin
<1>3. \A u \in Below : ~ (u < t)
  BY <1>1, <1>2 DEF OpToRel
<1>4. PICK m \in S : t = n - m
  OBVIOUS
<1>5. ASSUME NEW k \in S PROVE k <= m
  <2>1. ~ (n - k < n - m)
    BY <1>3, <1>4
  <2>2. QED
    BY <2>1
<1>6. QED
  BY <1>5

\* The assets of a waiting worker are at most the one it waits for.
LEMMA HeldBelowWanted ==
    ASSUME TypeOK, HasOffer, LocksAscend, NEW r \in Runs, Waiting(r),
           NEW a \in HeldBy(r), NEW b \in Wanted(r)
    PROVE  a \in Nat /\ b \in Nat /\ a <= b
<1>1. PICK i \in ItemsOf(offer[r]) \ left[r] : a = Asset[i]
  BY DEF Waiting, HeldBy, Holding
<1>2. PICK j \in left[r] : b = Asset[j]
  BY DEF Wanted, Lowest
<1>3. i \in Items /\ j \in Items
  BY <1>1, <1>2, ItemsFacts DEF TypeOK, HasOffer, Waiting, Busy
<1>4. QED
  BY <1>1, <1>2, <1>3, ItemsAssumption DEF LocksAscend, Waiting

\* A worker waits for one asset at a time.
LEMMA WantsOne ==
    ASSUME TypeOK, NEW r \in Runs, NEW a \in Wanted(r), NEW b \in Wanted(r)
    PROVE  a = b /\ a \in {Asset[i] : i \in Items}
<1>1. PICK i \in Lowest(left[r]) : a = Asset[i]
  BY DEF Wanted
<1>2. PICK j \in Lowest(left[r]) : b = Asset[j]
  BY DEF Wanted
<1>3. i \in Items /\ j \in Items /\ Asset[i] <= Asset[j] /\ Asset[j] <= Asset[i]
  BY <1>1, <1>2, LowestFacts DEF TypeOK
<1>4. QED
  BY <1>1, <1>2, <1>3, ItemsAssumption

\* Workers cannot wait for each other in a ring, however many they are: in a
\* ring, the one that wants the greatest asset would wait for a worker that
\* wants this asset too and holds it, but an asset has one owner.  AssetIDs are
\* bounded, as the code's uint64.
THEOREM ProcessorNoRing ==
    ASSUME NEW MaxID \in Nat, \A i \in Items : Asset[i] \in 0..MaxID
    PROVE  Spec => []NoWorkerRing
<1>1. TypeOK /\ HasOffer /\ Owned /\ LocksAscend => NoWorkerRing
  <2> SUFFICES ASSUME TypeOK, HasOffer, Owned, LocksAscend,
                      NEW W \in SUBSET Runs, W # {},
                      \A r \in W : /\ Waiting(r)
                                   /\ \E s \in W \ {r} : Wanted(r) \cap HeldBy(s) # {}
               PROVE  FALSE
    BY DEF NoWorkerRing
  <2> DEFINE Waited == UNION {Wanted(r) : r \in W}
  <2>1. Waited \subseteq 0..MaxID
    BY WantsOne
  <2>2. Waited # {}
    OBVIOUS
  <2>3. PICK m \in Waited : \A k \in Waited : k <= m
    <3> HIDE DEF Waited
    <3> QED
      BY <2>1, <2>2, GreatestAsset
  <2>4. PICK r \in W : m \in Wanted(r)
    OBVIOUS
  <2>5. PICK s \in W \ {r} : m \in HeldBy(s)
    BY <2>4, WantsOne
  <2>6. PICK t \in W \ {s}, b \in Wanted(s) : b \in HeldBy(t)
    OBVIOUS
  <2>7. b <= m /\ b \in Nat /\ m \in Nat
    BY <2>1, <2>3, <2>6
  <2>8. m <= b
    BY <2>5, <2>6, HeldBelowWanted
  <2>9. b = m
    BY <2>7, <2>8
  <2>10. QED
    BY <2>5, <2>6, <2>9 DEF Owned, LocksOwned
<1>2. QED
  BY <1>1, OwnedAlways, AscendAlways, ProcessorTypeCorrect, WorkersHaveOffers, PTL

\* So the workers come to a standstill only when one of them waits for itself:
\* lockItems locks an AssetID that two items of its offer share twice.
THEOREM ProcessorNoDeadlock ==
    ASSUME NEW MaxID \in Nat, \A i \in Items : Asset[i] \in 0..MaxID
    PROVE  Spec => []WorkersMove
<1>1. Owned /\ NoWorkerRing => WorkersMove
  <2> SUFFICES ASSUME Owned, NoWorkerRing, NEW w \in Runs, Waiting(w),
                      \A r \in Runs : /\ Waiting(r) => Wanted(r) \cap itemLocks # {}
                                      /\ Waiting(r) => Wanted(r) \cap HeldBy(r) = {}
                                      /\ Busy(r) => Waiting(r)
               PROVE  FALSE
    BY DEF WorkersMove
  <2> DEFINE W == {r \in Runs : Waiting(r)}
  <2>1. PICK r \in W : \A s \in W \ {r} : Wanted(r) \cap HeldBy(s) = {}
    <3>1. W \in (SUBSET Runs) \ {{}}
      OBVIOUS
    <3>2. QED
      BY <3>1 DEF NoWorkerRing
  <2>2. PICK s \in Runs : Wanted(r) \cap HeldBy(s) # {}
    <3>1. PICK a \in Wanted(r) : a \in itemLocks
      OBVIOUS
    <3>2. QED
      BY <3>1 DEF Owned, LocksOwned
  <2>3. Busy(s)
    BY <2>2 DEF HeldBy, Holding, Busy
  <2>4. QED
    BY <2>1, <2>2, <2>3
<1>2. QED
  BY <1>1, OwnedAlways, ProcessorNoRing, PTL
=============================================================================
