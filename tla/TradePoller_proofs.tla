------------------------- MODULE TradePoller_proofs -------------------------
(***************************************************************************)
(* Theorems about TradePoller, for any offers, loops, time bounds and      *)
(* configuration: types, a polling Manager has a loop, it implements       *)
(* OfferStory where answers are applied one by one, no settled offer       *)
(* slips behind the watermark, the published data agrees with the memory,  *)
(* a received offer is announced once, and the Canceller cancels the       *)
(* oldest, in time and one call per offer.                                 *)
(***************************************************************************)
EXTENDS TradePoller, TLAPS

LEMMA TimesFacts ==
    /\ Times \subseteq Nat /\ 0 \in Times /\ 1 \in Times
    /\ NoOffer \in Record /\ NoAnswer \in [Offers -> Answer]
    /\ Nothing \in [Offers -> Statuses] /\ NoData \in PollData
BY BoundAssumption
   DEF Times, NoOffer, Record, NoAnswer, Answer, Statuses, Nothing, NoData, PollData

\* The Canceller claims an offer.
LEMMA BeginCancelType ==
    ASSUME TypeOK, NEW l \in Loops, NEW o \in Sent,
           NEW s \in {"callTimeout", "callCount"}, BeginCancel(l, o, s)
    PROVE  /\ pc' \in [Loops -> PCs] /\ cancelling' \subseteq Sent
           /\ target' \in [Loops -> SUBSET Sent]
<1>1. pc' \in [Loops -> PCs]
  BY DEF BeginCancel, Goto, TypeOK, PCs
<1>2. cancelling' \subseteq Sent
  BY DEF BeginCancel, TypeOK
<1>3. {o} \in SUBSET Sent
  OBVIOUS
<1>4. target' \in [Loops -> SUBSET Sent]
  BY <1>3 DEF BeginCancel, TypeOK
<1>5. QED
  BY <1>1, <1>2, <1>4

LEMMA GotoType ==
    ASSUME TypeOK, NEW l \in Loops, NEW s \in PCs, Goto(l, s)
    PROVE  pc' \in [Loops -> PCs]
BY DEF TypeOK, Goto

\* The critical section of doPoll.
LEMMA ApplyType ==
    ASSUME TypeOK, NEW l \in Loops, Apply(l)
    PROVE  TypeOK'
<1>1. batch[l] \in [Offers -> Answer]
  BY DEF TypeOK
<1>2. \A o \in Offers : batch[l][o].status \in Statuses /\ batch[l][o].updated \in Times
  BY <1>1 DEF Answer
<1>3. offersSince' \in Times
  <2>1. TimesOf(l) \subseteq Times
    BY <1>2 DEF TimesOf, In, TypeOK
  <2>2. QED
    BY <2>1 DEF Apply, NextWatermark, TypeOK
<1>4. known' \in [Offers -> Statuses] /\ told' \in [Offers -> Statuses]
  BY <1>2 DEF Apply, TypeOK, Statuses
<1>5. lastSeen' \in [Offers -> Times]
  BY <1>2, TimesFacts DEF Apply, TypeOK
<1>5a. tracked' \in [Sent -> Times]
  BY <1>2, SentAssumption DEF Apply, TypeOK
<1>6. published' \in PollData
  BY <1>3, <1>4 DEF Apply, TypeOK, PollData
<1>7. news' \in [Offers -> Nat]
  BY DEF Apply, TypeOK
<1>8. pc' \in [Loops -> PCs]
  BY GotoType DEF Apply, PCs
<1>9. todo' \in [Loops -> SUBSET Sent]
  <2>1. {o \in Sent : batch[l][o].status = "Active"} \in SUBSET Sent
    OBVIOUS
  <2>2. todo' \in {todo, [todo EXCEPT ![l] = {o \in Sent : batch[l][o].status = "Active"}]}
    BY DEF Apply
  <2>3. QED
    BY <2>1, <2>2 DEF TypeOK
<1>9a. batch' \in [Loops -> [Offers -> Answer]]
  BY TimesFacts DEF Apply, TypeOK
<1>10. asked' \in [Loops -> Times]
  BY TimesFacts DEF Apply, TypeOK
<1>11. QED
  BY <1>3, <1>4, <1>5, <1>5a, <1>6, <1>7, <1>8, <1>9, <1>9a, <1>10
     DEF Apply, TypeOK

\* The other steps of a loop.
LEMMA LoopType ==
    ASSUME TypeOK, NEW l \in Loops, Loop(l)
    PROVE  TypeOK'
<1>1. CASE CheckState(l) \/ LockState(l) \/ LockQueue(l)
  <2>1. pc' \in [Loops -> PCs]
    BY <1>1, GotoType DEF CheckState, LockState, LockQueue, PCs
  <2>2. QED
    BY <1>1, <2>1 DEF CheckState, LockState, LockQueue, TypeOK, heapVars, storeVars
<1>2. CASE Select(l)
  <2>1. pc' \in [Loops -> PCs]
    BY <1>2, GotoType DEF Select, PCs
  <2>2. trigger' \in BOOLEAN
    BY <1>2, Zenon DEF Select, TypeOK
  <2>3. QED
    BY <1>2, <2>1, <2>2 DEF Select, TypeOK, heapVars, storeVars
<1>3. CASE Ask(l)
  <2>1. Cutoff \in Int
    BY TimesFacts, TimeAssumption DEF Cutoff, TypeOK
  <2>2. pc' \in [Loops -> PCs]
    BY <1>3, GotoType DEF Ask, PCs
  <2>3. QED
    BY <1>3, <2>1, <2>2 DEF Ask, TypeOK, heapVars, storeVars
<1>4. CASE PollFails(l)
  <2>1. pc' \in [Loops -> PCs]
    BY <1>4, GotoType DEF PollFails, PCs
  <2>2. cutoff' \in [Loops -> Int] /\ asked' \in [Loops -> Times]
    BY <1>4, TimesFacts DEF PollFails, TypeOK
  <2>3. QED
    BY <1>4, <2>1, <2>2 DEF PollFails, TypeOK, heapVars, storeVars
<1>5. CASE Respond(l)
  <2>1. PICK G \in SUBSET Offers : Reply(l, G)
    BY <1>5 DEF Respond
  <2>2. pc' \in [Loops -> PCs]
    BY <2>1, GotoType DEF Reply, PCs
  <2>3. batch' \in [Loops -> [Offers -> Answer]]
    BY <2>1, TimesFacts DEF Reply, TypeOK, Record, Answer
  <2>4. QED
    BY <2>1, <2>2, <2>3 DEF Reply, TypeOK, heapVars, storeVars
<1>6. CASE Apply(l)
  BY <1>6, ApplyType
<1>7. CASE CheckTimeout(l)
  <2>1. PICK o \in todo[l] :
          /\ todo' = [todo EXCEPT ![l] = @ \ {o}]
          /\ \/ BeginCancel(l, o, "callTimeout")
             \/ UNCHANGED <<cancelling, target, pc>>
    BY <1>7 DEF CheckTimeout
  <2>2. o \in Sent /\ todo' \in [Loops -> SUBSET Sent]
    <3>1. todo[l] \subseteq Sent
      BY DEF TypeOK
    <3>2. todo[l] \ {o} \in SUBSET Sent
      BY <3>1
    <3>3. QED
      BY <2>1, <3>1, <3>2 DEF TypeOK
  <2>3. /\ pc' \in [Loops -> PCs] /\ cancelling' \subseteq Sent
        /\ target' \in [Loops -> SUBSET Sent]
    <3>1. CASE BeginCancel(l, o, "callTimeout")
      BY <3>1, <2>2, BeginCancelType
    <3>2. CASE UNCHANGED <<cancelling, target, pc>>
      BY <3>2 DEF TypeOK
    <3>3. QED
      BY <2>1, <3>1, <3>2
  <2>4. QED
    BY <1>7, <2>2, <2>3 DEF CheckTimeout, TypeOK, storeVars
<1>8. CASE CheckCount(l)
  <2>1. pc' \in [Loops -> PCs] /\ batch' \in [Loops -> [Offers -> Answer]]
    BY <1>8, GotoType, TimesFacts DEF CheckCount, EndPoll, TypeOK, PCs
  <2>2. QED
    BY <1>8, <2>1 DEF CheckCount, TypeOK, heapVars, storeVars
<1>9. CASE Peek(l)
  <2>1. Queued \subseteq Sent
    BY DEF Queued
  <2>2. tracked' \in [Sent -> Times]
    BY <1>9, TimesFacts DEF Peek, TypeOK
  <2>3. \/ EndPoll(l) /\ UNCHANGED <<cancelling, target>>
        \/ \E o \in Sent : BeginCancel(l, o, "callCount") /\ UNCHANGED batch
    BY <1>9, <2>1 DEF Peek, Top
  <2>3a. /\ pc' \in [Loops -> PCs] /\ batch' \in [Loops -> [Offers -> Answer]]
         /\ cancelling' \subseteq Sent /\ target' \in [Loops -> SUBSET Sent]
    <3>1. CASE EndPoll(l) /\ UNCHANGED <<cancelling, target>>
      BY <3>1, GotoType, TimesFacts DEF EndPoll, TypeOK, PCs
    <3>2. CASE \E o \in Sent : BeginCancel(l, o, "callCount") /\ UNCHANGED batch
      BY <3>2, BeginCancelType DEF TypeOK
    <3>3. QED
      BY <2>3, <3>1, <3>2
  <2>4. QED
    BY <1>9, <2>2, <2>3a DEF Peek, TypeOK, storeVars
<1>10. CASE CancelReturns(l)
  <2>1. PICK o \in target[l] :
          /\ cancelling' = cancelling \ {o}
          /\ server' \in {server, [server EXCEPT ![o] = [status |-> "Canceled", updated |-> now]]}
          /\ tracked' \in {tracked, [tracked EXCEPT ![o] = 0]}
    BY <1>10 DEF CancelReturns
  <2>2. server' \in [Offers -> Record] /\ tracked' \in [Sent -> Times]
    <3>1. [status |-> "Canceled", updated |-> now] \in Record
      BY DEF TypeOK, Record, Statuses
    <3>2. server' \in [Offers -> Record]
      BY <2>1, <3>1 DEF TypeOK
    <3>3. tracked' \in [Sent -> Times]
      BY <2>1, TimesFacts DEF TypeOK
    <3>4. QED
      BY <3>2, <3>3
  <2>3. pc' \in [Loops -> PCs] /\ batch' \in [Loops -> [Offers -> Answer]]
    BY <1>10, GotoType, TimesFacts DEF CancelReturns, EndPoll, TypeOK, PCs
  <2>4. cancelling' \subseteq Sent /\ target' \in [Loops -> SUBSET Sent]
    BY <1>10, <2>1 DEF CancelReturns, TypeOK
  <2>5. QED
    BY <1>10, <2>2, <2>3, <2>4 DEF CancelReturns, TypeOK, storeVars
<1>11. QED
  BY <1>1, <1>2, <1>3, <1>4, <1>5, <1>6, <1>7, <1>8, <1>9, <1>10 DEF Loop

\* The Manager's operations.
LEMMA ControlType ==
    ASSUME TypeOK, Control
    PROVE  TypeOK'
<1>1. CASE \E l \in Loops : StartPolling(l)
  <2>1. PICK l \in Loops : StartPolling(l)
    BY <1>1
  <2>2. pc' \in [Loops -> PCs]
    BY <2>1, GotoType DEF StartPolling, PCs
  <2>3. QED
    BY <2>1, <2>2 DEF StartPolling, TypeOK, Fsm, heapVars, storeVars
<1>2. CASE StopPolling \/ Close
  BY <1>2 DEF StopPolling, Close, TypeOK, Fsm, loopVars, heapVars, storeVars
<1>3. CASE TriggerPoll
  BY <1>3 DEF TriggerPoll, TypeOK, loopVars, heapVars, storeVars
<1>4. QED
  BY <1>1, <1>2, <1>3 DEF Control

\* Time, Steam, and the process as a whole.
LEMMA EnvironmentType ==
    ASSUME TypeOK, Environment
    PROVE  TypeOK'
<1>1. CASE Tick
  <2>1. now' \in Times
    BY <1>1, BoundAssumption DEF Tick, TypeOK, Times
  <2>2. QED
    BY <1>1, <2>1 DEF Tick, TypeOK, loopVars, heapVars, storeVars
<1>2. CASE \E o \in Offers : ServerStep(o)
  <2>1. PICK o \in Offers, s \in Statuses :
          server' = [server EXCEPT ![o] = [status |-> s, updated |-> now]]
    BY <1>2 DEF ServerStep
  <2>2. [status |-> s, updated |-> now] \in Record
    BY DEF Record, TypeOK
  <2>3. server' \in [Offers -> Record]
    BY <2>1, <2>2 DEF TypeOK
  <2>4. QED
    BY <1>2, <2>3 DEF ServerStep, TypeOK, loopVars, heapVars, storeVars
<1>3. CASE Save
  BY <1>3 DEF Save, TypeOK, loopVars, heapVars, storeVars
<1>4. CASE Restart
  <2>1. /\ known' \in [Offers -> Statuses] /\ told' \in [Offers -> Statuses]
        /\ offersSince' \in Times /\ published' \in PollData /\ saved' \in PollData
    BY <1>4 DEF Restart, TypeOK, PollData
  <2>2. /\ pc' \in [Loops -> PCs] /\ cutoff' \in [Loops -> Int]
        /\ asked' \in [Loops -> Times] /\ batch' \in [Loops -> [Offers -> Answer]]
        /\ todo' \in [Loops -> SUBSET Sent] /\ target' \in [Loops -> SUBSET Sent]
    BY <1>4, TimesFacts DEF Restart, PCs
  <2>3. /\ cancelling' \subseteq Sent /\ tracked' \in [Sent -> Times]
        /\ lastSeen' \in [Offers -> Times] /\ news' \in [Offers -> Nat]
        /\ restarts' \in Nat
    BY <1>4, TimesFacts DEF Restart, TypeOK
  <2>4. QED
    BY <1>4, <2>1, <2>2, <2>3 DEF Restart, TypeOK, Fsm
<1>5. QED
  BY <1>1, <1>2, <1>3, <1>4 DEF Environment

\* Every variable keeps its type.
THEOREM PollerTypeCorrect == Spec => []TypeOK
<1>1. Init => TypeOK
  <2> SUFFICES ASSUME Init PROVE TypeOK
    OBVIOUS
  <2>1. server \in [Offers -> Record] /\ batch \in [Loops -> [Offers -> Answer]]
    BY TimesFacts, Zenon DEF Init
  <2>2. /\ known \in [Offers -> Statuses] /\ told \in [Offers -> Statuses]
        /\ published \in PollData /\ saved \in PollData
    BY TimesFacts DEF Init
  <2>3. /\ cutoff \in [Loops -> Int] /\ asked \in [Loops -> Times]
        /\ tracked \in [Sent -> Times] /\ lastSeen \in [Offers -> Times]
        /\ news \in [Offers -> Nat] /\ pc \in [Loops -> PCs]
    BY TimesFacts DEF Init, PCs
  <2>4. todo \in [Loops -> SUBSET Sent] /\ target \in [Loops -> SUBSET Sent]
    BY DEF Init
  <2>5. QED
    BY <2>1, <2>2, <2>3, <2>4, TimesFacts DEF Init, TypeOK, Fsm
<1>2. TypeOK /\ [Next]_vars => TypeOK'
  <2> SUFFICES ASSUME TypeOK, [Next]_vars PROVE TypeOK'
    OBVIOUS
  <2>1. CASE UNCHANGED vars
    BY <2>1 DEF TypeOK, vars, loopVars, heapVars, storeVars
  <2>2. QED
    BY <2>1, LoopType, ControlType, EnvironmentType DEF Next
<1>3. QED
  BY <1>1, <1>2, PTL DEF Spec

-----------------------------------------------------------------------------
(* A polling Manager has a loop.                                           *)

LEMMA HasLoopStep ==
    ASSUME TypeOK, PollingHasLoop, [Next]_vars
    PROVE  PollingHasLoop'
<1> SUFFICES ASSUME fsm' = "Polling" PROVE \E l \in Loops : Live(l)'
  BY DEF PollingHasLoop
<1>1. ASSUME UNCHANGED pc, fsm = "Polling" PROVE \E l \in Loops : Live(l)'
  BY <1>1 DEF PollingHasLoop, Live
<1>2. ASSUME NEW l \in Loops, NEW s \in PCs \ {"unborn", "dead"}, Goto(l, s)
      PROVE  \E k \in Loops : Live(k)'
  BY <1>2 DEF Goto, Live, TypeOK
<1>3. ASSUME NEW l \in Loops, Loop(l) PROVE \E k \in Loops : Live(k)'
  <2>1. fsm = "Polling"
    BY <1>3 DEF Loop, CheckState, Select, Ask, PollFails, Respond, Reply, LockState, Apply,
                CheckTimeout, CheckCount, LockQueue, Peek, CancelReturns
  <2>2. CASE UNCHANGED pc
    BY <2>1, <2>2, <1>1
  <2>3. CASE CheckState(l) \/ Select(l)
    BY <2>1, <2>3, <1>2 DEF CheckState, Select, PCs
  <2>4. CASE Ask(l) \/ PollFails(l) \/ Respond(l) \/ LockState(l) \/ Apply(l)
    BY <2>4, <1>2 DEF Ask, PollFails, Respond, Reply, LockState, Apply, PCs
  <2>5. CASE CheckCount(l) \/ LockQueue(l) \/ CancelReturns(l)
    BY <2>5, <1>2 DEF CheckCount, LockQueue, CancelReturns, EndPoll, PCs
  <2>6. CASE CheckTimeout(l) \/ Peek(l)
    BY <2>2, <2>6, <1>2 DEF CheckTimeout, Peek, EndPoll, BeginCancel, PCs
  <2>7. QED
    BY <1>3, <2>3, <2>4, <2>5, <2>6 DEF Loop
<1>4. CASE Control
  BY <1>4, <1>1, <1>2 DEF Control, StartPolling, StopPolling, Close, TriggerPoll, loopVars, PCs
<1>5. CASE Environment
  BY <1>5, <1>1 DEF Environment, Tick, ServerStep, Save, Restart, loopVars
<1>6. CASE UNCHANGED vars
  BY <1>6, <1>1 DEF vars, loopVars
<1>7. QED
  BY <1>3, <1>4, <1>5, <1>6 DEF Next

\* Whenever the Manager says it is polling, some loop is running.
THEOREM PollerAlive == Spec => []PollingHasLoop
<1>1. Init => PollingHasLoop
  BY DEF Init, PollingHasLoop
<1>2. TypeOK /\ PollingHasLoop /\ [Next]_vars => PollingHasLoop'
  BY HasLoopStep
<1>3. QED
  BY <1>1, <1>2, PollerTypeCorrect, PTL DEF Spec

-----------------------------------------------------------------------------
(* What memory and the answers in flight show is sound.                     *)

\* What AnswerInv and TypeOK say of one poll and one record, as numbers.
LEMMA Numbers ==
    ASSUME TypeOK
    PROVE  /\ now \in Int /\ now <= MaxTime /\ offersSince \in Nat
           /\ published.since \in Nat /\ saved.since \in Nat
           /\ \A o \in Offers : server[o].updated \in Nat
           /\ \A l \in Loops : asked[l] \in Nat /\ cutoff[l] \in Int
           /\ \A l \in Loops, o \in Offers : batch[l][o].updated \in Nat
           /\ MaxTime \in Nat /\ Slack \in Nat /\ MaxPoll \in Nat /\ Window \in Nat
           /\ MaxPoll <= Slack /\ Slack <= Window
<1>1. \A t \in Times : t \in Nat /\ t <= MaxTime
  BY BoundAssumption DEF Times
<1>2. \A o \in Offers : server[o].updated \in Times
  BY DEF TypeOK, Record
<1>3. \A l \in Loops, o \in Offers : batch[l][o].updated \in Times
  BY DEF TypeOK, Answer
<1>4. published.since \in Times /\ saved.since \in Times
  BY DEF TypeOK, PollData
<1>5. QED
  BY <1>1, <1>2, <1>3, <1>4, BoundAssumption, TimeAssumption DEF TypeOK

\* A step in which Steam, memory and persisted data stand still and no loop
\* asks or gets an answer.
LEMMA QuietStep ==
    ASSUME TypeOK, AnswerInv,
           UNCHANGED <<now, server, known, told, offersSince, published>>,
           saved' \in {saved, published},
           \A l \in Loops : \/ pc'[l] \notin {"fetch", "answer", "locked"}
                            \/ /\ pc'[l] = pc[l] \/ (pc[l] = "answer" /\ pc'[l] = "locked")
                               /\ asked'[l] = asked[l] /\ cutoff'[l] = cutoff[l]
                               /\ batch'[l] = batch[l]
    PROVE  AnswerInv'
<1>1. Sound(Memory)' /\ Sound(published)' /\ Sound(saved)'
  BY DEF AnswerInv, Sound, Memory
<1>2. ASSUME NEW l \in Loops PROVE PollSound(l)'
  BY <1>2 DEF AnswerInv, PollSound
<1>3. QED
  BY <1>1, <1>2 DEF AnswerInv

\* Steam changes an offer that is not settled.
LEMMA ServerChange ==
    ASSUME TypeOK, AnswerInv, NEW o \in Offers, NEW s \in Statuses,
           server[o].status \notin Final,
           server' = [server EXCEPT ![o] = [status |-> s, updated |-> now]],
           UNCHANGED <<now, known, told, offersSince, published, saved>>,
           \A l \in Loops : \/ pc'[l] \notin {"fetch", "answer", "locked"}
                            \/ /\ pc'[l] = pc[l] /\ asked'[l] = asked[l]
                               /\ cutoff'[l] = cutoff[l] /\ batch'[l] = batch[l]
    PROVE  AnswerInv'
<1>1. \A p \in Offers : \/ p # o /\ server'[p] = server[p]
                        \/ p = o /\ server'[p].status = s /\ server'[p].updated = now
  BY DEF TypeOK
<1>4. Sound(Memory)' /\ Sound(published)' /\ Sound(saved)'
  BY DEF AnswerInv, Sound, Memory
<1>5. ASSUME NEW l \in Loops PROVE PollSound(l)'
  <2>1. CASE pc'[l] \notin {"fetch", "answer", "locked"}
    BY <2>1 DEF PollSound
  <2>2. CASE pc'[l] = pc[l] /\ pc[l] = "fetch"
    BY <2>2 DEF PollSound, AnswerInv
  <2>3. CASE pc'[l] = pc[l] /\ pc[l] \in {"answer", "locked"}
    BY <1>1, <2>3, Numbers DEF PollSound, AnswerInv
  <2>4. QED
    BY <2>1, <2>2, <2>3
<1>6. \A p \in Offers : server'[p].updated <= now'
  BY <1>1, Numbers DEF AnswerInv
<1>7. QED
  BY <1>4, <1>5, <1>6 DEF AnswerInv

LEMMA TickStep ==
    ASSUME TypeOK, AnswerInv, Tick
    PROVE  AnswerInv'
<1>1. now' = now + 1 /\ UNCHANGED <<server, loopVars, storeVars, saved>>
  BY DEF Tick
<1>2. Sound(Memory)' /\ Sound(published)' /\ Sound(saved)'
  BY <1>1, Numbers DEF AnswerInv, Sound, Memory, storeVars
<1>3. ASSUME NEW l \in Loops PROVE PollSound(l)'
  BY <1>1, Numbers DEF AnswerInv, PollSound, Tick, loopVars, storeVars
<1>4. \A o \in Offers : server'[o].updated <= now'
  BY <1>1, Numbers DEF AnswerInv
<1>5. QED
  BY <1>2, <1>3, <1>4 DEF AnswerInv

LEMMA AskStep ==
    ASSUME TypeOK, AnswerInv, NEW l \in Loops, Ask(l)
    PROVE  AnswerInv'
<1>1. Sound(Memory)' /\ Sound(published)' /\ Sound(saved)'
  BY DEF Ask, AnswerInv, Sound, Memory, storeVars
<1>2. PollSound(l)'
  <2>1. pc'[l] = "fetch" /\ asked'[l] = now /\ cutoff'[l] = Cutoff /\ now' = now
    BY DEF Ask, Goto, TypeOK
  <2>2. offersSince <= now
    BY DEF AnswerInv, Sound, Memory
  <2>3. Cutoff <= now - Slack
    BY <2>2, Numbers DEF Cutoff
  <2>4. QED
    BY <2>1, <2>3, Numbers DEF PollSound, Ask, storeVars
<1>3. ASSUME NEW k \in Loops \ {l} PROVE PollSound(k)'
  BY DEF Ask, Goto, TypeOK, PollSound, AnswerInv, storeVars
<1>4. QED
  BY <1>1, <1>2, <1>3 DEF AnswerInv, Ask

LEMMA ReplyStep ==
    ASSUME TypeOK, AnswerInv, NEW l \in Loops, Respond(l)
    PROVE  AnswerInv'
<1>1. PICK G \in SUBSET Offers : Reply(l, G)
  BY DEF Respond
<1>2. UNCHANGED <<now, server, asked, known, told, offersSince, published, saved>>
  BY <1>1 DEF Reply, storeVars
<1>3. Sound(Memory)' /\ Sound(published)' /\ Sound(saved)'
  BY <1>2 DEF AnswerInv, Sound, Memory
<1>4. PollSound(l)'
  <2>1. pc'[l] = "answer" /\ asked'[l] <= now /\ now - asked'[l] <= MaxPoll
    BY <1>1, <1>2 DEF Reply, Goto, TypeOK, AnswerInv, PollSound
  <2> SUFFICES ASSUME NEW o \in Offers
               PROVE  /\ batch'[l][o].updated <= now
                      /\ server[o].status \in Final =>
                           \/ server[o].updated >= asked[l]
                           \/ batch'[l][o].status = server[o].status
                           \/ batch'[l][o].status = "none" /\ server[o].updated < asked[l] - Slack
    BY <1>2, <2>1 DEF PollSound
  <2>2. CASE \/ server[o].status = "Active"
             \/ server[o].status # "none" /\ server[o].updated >= cutoff[l]
    <3>1. batch'[l][o].status = server[o].status /\ batch'[l][o].updated = server[o].updated
      BY <1>1, <2>2 DEF Reply, TypeOK
    <3>2. QED
      BY <3>1 DEF AnswerInv
  <2>3. CASE ~ (\/ server[o].status = "Active"
                \/ server[o].status # "none" /\ server[o].updated >= cutoff[l])
    <3>1. batch'[l][o].status = "none" /\ batch'[l][o].updated = 0
      BY <1>1, <2>3 DEF Reply, TypeOK, NoAnswer
    <3>2. ASSUME server[o].status \in Final
          PROVE  server[o].updated < asked[l] - Slack
      <4>1. server[o].updated < cutoff[l]
        BY <2>3, <3>2, Numbers DEF Final
      <4>2. cutoff[l] <= asked[l] - Slack
        BY <1>1 DEF Reply, AnswerInv, PollSound
      <4>3. QED
        BY <4>1, <4>2, Numbers
    <3>3. QED
      BY <3>1, <3>2, Numbers DEF TypeOK, Times
  <2>4. QED
    BY <2>2, <2>3
<1>5. ASSUME NEW k \in Loops \ {l} PROVE PollSound(k)'
  <2>1. pc'[k] = pc[k] /\ cutoff'[k] = cutoff[k] /\ batch'[k] = batch[k]
    BY <1>1 DEF Reply, Goto, TypeOK
  <2>2. QED
    BY <1>2, <2>1 DEF PollSound, AnswerInv
<1>6. QED
  BY <1>2, <1>3, <1>4, <1>5 DEF AnswerInv

\* What the critical section does to the watermark and to what was told.
LEMMA ApplyFacts ==
    ASSUME TypeOK, AnswerInv, NEW l \in Loops, Apply(l)
    PROVE  /\ offersSince <= offersSince' /\ offersSince' <= now
           /\ Good(l) # In(l) => offersSince' = offersSince
           /\ \A o \in Offers \ Good(l) :
                 told'[o] = told[o] /\ known'[o] \in {"none", known[o]}
           /\ \A o \in Good(l) : /\ known'[o] = batch[l][o].status
                                 /\ told'[o] = batch[l][o].status
<1>1. \A t \in TimesOf(l) : t \in Nat /\ t <= now
  BY Numbers DEF TimesOf, In, AnswerInv, PollSound, Sound, Memory, Apply
<1>2. offersSince \in TimesOf(l)
  BY DEF TimesOf
<1>3. /\ offersSince <= offersSince' /\ offersSince' <= now
      /\ Good(l) # In(l) => offersSince' = offersSince
  BY <1>1, <1>2, Numbers DEF Apply, NextWatermark
<1>4. \A o \in Offers \ Good(l) : told'[o] = told[o] /\ known'[o] \in {"none", known[o]}
  BY DEF Apply, Fresh, Changed
<1>5. ASSUME NEW o \in Good(l)
      PROVE  known'[o] = batch[l][o].status /\ told'[o] = batch[l][o].status
  <2>1. o \in Offers /\ batch[l][o].status # "none"
    BY DEF Good, In
  <2>2. CASE o \in Fresh(l) \cup Changed(l)
    BY <2>1, <2>2 DEF Apply
  <2>3. CASE o \notin Fresh(l) \cup Changed(l)
    <3>1. known[o] = batch[l][o].status
      BY <2>3 DEF Changed
    <3>2. told[o] = known[o]
      BY <2>1, <3>1 DEF AnswerInv, Sound, Memory
    <3>3. QED
      BY <2>1, <2>3, <3>1, <3>2 DEF Apply
  <2>4. QED
    BY <2>2, <2>3
<1>6. QED
  BY <1>3, <1>4, <1>5

LEMMA ApplyStep ==
    ASSUME TypeOK, AnswerInv, NEW l \in Loops, Apply(l)
    PROVE  AnswerInv'
<1>1. UNCHANGED <<now, server, cutoff, saved>> /\ pc[l] = "locked"
  BY DEF Apply
<1>4. Sound(Memory)'
  BY <1>1, ApplyFacts DEF AnswerInv, Sound, Memory
<1>5. Sound(published)'
  <2>1. CASE published' = published
    BY <1>1, <2>1 DEF AnswerInv, Sound
  <2>2. CASE published' = Memory'
    BY <1>4, <2>2
  <2>3. published' = published \/ published' = Memory'
    BY DEF Apply, Memory
  <2>4. QED
    BY <2>1, <2>2, <2>3
<1>6. Sound(saved)'
  BY <1>1 DEF AnswerInv, Sound
<1>7. PollSound(l)'
  BY DEF Apply, Goto, TypeOK, PollSound
<1>8. ASSUME NEW k \in Loops \ {l} PROVE PollSound(k)'
  <2>1. /\ pc'[k] = pc[k] /\ asked'[k] = asked[k] /\ cutoff'[k] = cutoff[k]
        /\ batch'[k] = batch[k]
    BY DEF Apply, Goto, TypeOK
  <2>2. CASE pc[k] = "fetch"
    BY <1>1, <2>1, <2>2 DEF PollSound, AnswerInv
  <2>3. CASE pc[k] \in {"answer", "locked"}
    BY <1>1, <2>1, <2>3 DEF PollSound, AnswerInv
  <2>4. CASE pc[k] \notin {"fetch", "answer", "locked"}
    BY <2>1, <2>4 DEF PollSound
  <2>5. QED
    BY <2>2, <2>3, <2>4
<1>9. QED
  BY <1>1, <1>4, <1>5, <1>6, <1>7, <1>8 DEF AnswerInv

LEMMA RestartStep ==
    ASSUME TypeOK, AnswerInv, Restart
    PROVE  AnswerInv'
<1>1. UNCHANGED <<now, server, saved>>
  BY DEF Restart
<1>2. Memory' = saved
  <2>1. saved = [since |-> saved.since, known |-> saved.known, told |-> saved.told]
    BY DEF TypeOK, PollData
  <2>2. QED
    BY <2>1 DEF Restart, Memory
<1>3. Sound(Memory)' /\ Sound(published)' /\ Sound(saved)'
  BY <1>1, <1>2 DEF AnswerInv, Sound, Restart
<1>4. \A l \in Loops : PollSound(l)'
  BY DEF Restart, PollSound
<1>5. QED
  BY <1>1, <1>3, <1>4 DEF AnswerInv

\* CancelOffer may have cancelled the offer.
LEMMA CancelReturnsStep ==
    ASSUME TypeOK, AnswerInv, NEW l \in Loops, CancelReturns(l)
    PROVE  AnswerInv'
<1>1. UNCHANGED <<now, asked, cutoff, known, told, offersSince, published, saved>>
  BY DEF CancelReturns, storeVars
<1>2. /\ pc'[l] \notin {"fetch", "answer", "locked"}
      /\ \A k \in Loops \ {l} : pc'[k] = pc[k] /\ batch'[k] = batch[k]
  BY DEF CancelReturns, EndPoll, Goto, TypeOK
<1>3. CASE UNCHANGED server
  <2>1. \A k \in Loops : \/ pc'[k] \notin {"fetch", "answer", "locked"}
                         \/ /\ pc'[k] = pc[k] \/ (pc[k] = "answer" /\ pc'[k] = "locked")
                            /\ asked'[k] = asked[k] /\ cutoff'[k] = cutoff[k]
                            /\ batch'[k] = batch[k]
    BY <1>1, <1>2
  <2>2. QED
    BY <1>1, <1>3, <2>1, QuietStep
<1>4. CASE \E o \in Offers :
              /\ server[o].status = "Active"
              /\ server' = [server EXCEPT ![o] = [status |-> "Canceled", updated |-> now]]
  <2>1. PICK o \in Offers :
              /\ server[o].status = "Active"
              /\ server' = [server EXCEPT ![o] = [status |-> "Canceled", updated |-> now]]
    BY <1>4
  <2>2. server[o].status \notin Final /\ "Canceled" \in Statuses
    BY <2>1 DEF Final, Statuses
  <2>3. \A k \in Loops : \/ pc'[k] \notin {"fetch", "answer", "locked"}
                         \/ /\ pc'[k] = pc[k] /\ asked'[k] = asked[k]
                            /\ cutoff'[k] = cutoff[k] /\ batch'[k] = batch[k]
    BY <1>1, <1>2
  <2>4. QED
    BY <1>1, <2>1, <2>2, <2>3, ServerChange
<1>5. target[l] \subseteq Offers
  BY SentAssumption DEF TypeOK
<1>6. QED
  BY <1>3, <1>4, <1>5 DEF CancelReturns

\* The steps of a loop that neither ask, nor get an answer, nor apply one.
LEMMA OtherLoopStep ==
    ASSUME TypeOK, AnswerInv, NEW l \in Loops,
           \/ CheckState(l) \/ Select(l) \/ PollFails(l) \/ LockState(l)
           \/ CheckTimeout(l) \/ CheckCount(l) \/ LockQueue(l) \/ Peek(l)
    PROVE  AnswerInv'
<1>1. UNCHANGED <<now, server, known, told, offersSince, published, saved>>
  BY DEF CheckState, Select, PollFails, LockState, CheckTimeout, CheckCount, LockQueue,
         Peek, storeVars
<1>2. ASSUME NEW k \in Loops \ {l}
      PROVE  /\ pc'[k] = pc[k] /\ asked'[k] = asked[k] /\ cutoff'[k] = cutoff[k]
             /\ batch'[k] = batch[k]
  BY DEF CheckState, Select, PollFails, LockState, CheckTimeout, CheckCount, LockQueue,
         Peek, BeginCancel, EndPoll, Goto, TypeOK
<1>3. \/ pc'[l] \notin {"fetch", "answer", "locked"}
      \/ /\ pc[l] = "answer" /\ pc'[l] = "locked"
         /\ asked'[l] = asked[l] /\ cutoff'[l] = cutoff[l] /\ batch'[l] = batch[l]
  <2>1. CASE LockState(l)
    BY <2>1 DEF LockState, Goto, TypeOK
  <2>2. CASE CheckState(l) \/ Select(l) \/ PollFails(l)
    BY <2>2 DEF CheckState, Select, PollFails, Goto, TypeOK
  <2>3. CASE CheckTimeout(l) \/ CheckCount(l) \/ LockQueue(l) \/ Peek(l)
    BY <2>3 DEF CheckTimeout, CheckCount, LockQueue, Peek, BeginCancel, EndPoll, Goto, TypeOK
  <2>4. QED
    BY <2>1, <2>2, <2>3
<1>4. QED
  BY <1>1, <1>2, <1>3, QuietStep

LEMMA ControlStep ==
    ASSUME TypeOK, AnswerInv, Control
    PROVE  AnswerInv'
<1>1. UNCHANGED <<now, server, known, told, offersSince, published, saved,
                  asked, cutoff, batch>>
  BY DEF Control, StartPolling, StopPolling, Close, TriggerPoll, loopVars, storeVars
<1>2. \A l \in Loops : pc'[l] = pc[l] \/ pc'[l] = "top"
  BY DEF Control, StartPolling, StopPolling, Close, TriggerPoll, Goto, loopVars, TypeOK
<1>3. QED
  BY <1>1, <1>2, QuietStep

LEMMA EnvironmentStep ==
    ASSUME TypeOK, AnswerInv, Environment
    PROVE  AnswerInv'
<1>1. CASE Save
  BY <1>1, QuietStep DEF Save, loopVars, storeVars
<1>2. CASE \E o \in Offers : ServerStep(o)
  <2>1. PICK o \in Offers, s \in Statuses :
          /\ server[o].status \notin Final
          /\ server' = [server EXCEPT ![o] = [status |-> s, updated |-> now]]
          /\ UNCHANGED <<now, loopVars, storeVars, saved>>
    BY <1>2 DEF ServerStep, Final
  <2>2. QED
    BY <2>1, ServerChange DEF loopVars, storeVars
<1>3. QED
  BY <1>1, <1>2, TickStep, RestartStep DEF Environment

LEMMA AnswerStep ==
    ASSUME TypeOK, AnswerInv, [Next]_vars
    PROVE  AnswerInv'
<1>1. CASE UNCHANGED vars
  BY <1>1, QuietStep DEF vars, loopVars, storeVars
<1>2. ASSUME NEW l \in Loops, Loop(l) PROVE AnswerInv'
  BY <1>2, AskStep, ReplyStep, ApplyStep, CancelReturnsStep, OtherLoopStep DEF Loop
<1>3. QED
  BY <1>1, <1>2, ControlStep, EnvironmentStep DEF Next

\* AnswerInv holds in every behaviour.
THEOREM AnswersAreSound == Spec => []AnswerInv
<1>1. Init => AnswerInv
  <2> SUFFICES ASSUME Init PROVE AnswerInv
    OBVIOUS
  <2>1. \A o \in Offers : server[o].status = "none" /\ server[o].updated = 0
    BY DEF Init, NoOffer
  <2>2. now = 1 /\ \A l \in Loops : pc[l] = "unborn"
    BY DEF Init
  <2>3. Sound(Memory) /\ Sound(published) /\ Sound(saved)
    BY <2>1, <2>2 DEF Init, Sound, Memory, NoData, Nothing, Final
  <2>4. QED
    BY <2>1, <2>2, <2>3 DEF AnswerInv, PollSound
<1>2. TypeOK /\ AnswerInv /\ [Next]_vars => AnswerInv'
  BY AnswerStep
<1>3. QED
  BY <1>1, <1>2, PollerTypeCorrect, PTL DEF Spec

-----------------------------------------------------------------------------
(* What any step does to memory, to Steam's records and to the answers.    *)

\* Memory changes in the critical section and at a restart only.
LEMMA MemorySteps ==
    ASSUME [Next]_vars, ~Restart, \A l \in Loops : ~Apply(l)
    PROVE  /\ UNCHANGED <<known, lastSeen, offersSince, published, told, news>>
           /\ saved' \in {saved, published}
<1>1. CASE UNCHANGED vars
  BY <1>1 DEF vars, storeVars
<1>2. CASE \E l \in Loops : Loop(l)
  BY <1>2 DEF Loop, CheckState, Select, Ask, PollFails, Respond, Reply, LockState,
              CheckTimeout, CheckCount, LockQueue, Peek, CancelReturns, storeVars
<1>3. CASE Control
  BY <1>3 DEF Control, StartPolling, StopPolling, Close, TriggerPoll, storeVars
<1>4. CASE Environment
  BY <1>4 DEF Environment, Tick, ServerStep, Save, storeVars
<1>5. QED
  BY <1>1, <1>2, <1>3, <1>4 DEF Next

\* Steam's records change when somebody acts on an offer, or cancels one.
LEMMA ServerMoves ==
    ASSUME [Next]_vars
    PROVE  UNCHANGED server \/ (\E q \in Offers : ServerStep(q)) \/ (\E l \in Loops : CancelReturns(l))
<1>1. CASE UNCHANGED vars
  BY <1>1 DEF vars
<1>2. CASE \E l \in Loops : Loop(l)
  BY <1>2 DEF Loop, CheckState, Select, Ask, PollFails, Respond, Reply, LockState, Apply,
              CheckTimeout, CheckCount, LockQueue, Peek
<1>3. CASE Control
  BY <1>3 DEF Control, StartPolling, StopPolling, Close, TriggerPoll
<1>4. CASE Environment
  BY <1>4 DEF Environment, Tick, Save, Restart
<1>5. QED
  BY <1>1, <1>2, <1>3, <1>4 DEF Next

\* A settled offer stays as it is, an active one can only be settled, and an
\* offer this account does not send needs no confirmation.
LEMMA ServerSteps ==
    ASSUME TypeOK, [Next]_vars, NEW o \in Offers
    PROVE  /\ server[o].status \in Final => server'[o] = server[o]
           /\ server[o].status = "Active" =>
                 server'[o] = server[o] \/ server'[o].status \in Final
           /\ o \notin Sent /\ server'[o].status = "NeedsConfirmation" =>
                 server[o].status = "NeedsConfirmation"
<1>1. CASE UNCHANGED server
  BY <1>1
<1>2. ASSUME NEW q \in Offers, ServerStep(q)
      PROVE  /\ server[o].status \in Final => server'[o] = server[o]
             /\ server[o].status = "Active" =>
                   server'[o] = server[o] \/ server'[o].status \in Final
             /\ o \notin Sent /\ server'[o].status = "NeedsConfirmation" =>
                   server[o].status = "NeedsConfirmation"
  BY <1>2 DEF ServerStep, TypeOK, Final, Record
<1>3. ASSUME NEW l \in Loops, CancelReturns(l)
      PROVE  /\ server[o].status \in Final => server'[o] = server[o]
             /\ server[o].status = "Active" =>
                   server'[o] = server[o] \/ server'[o].status \in Final
             /\ o \notin Sent /\ server'[o].status = "NeedsConfirmation" =>
                   server[o].status = "NeedsConfirmation"
  <2>1. \/ UNCHANGED server
        \/ \E q \in target[l] :
              /\ server[q].status = "Active"
              /\ server' = [server EXCEPT ![q] = [status |-> "Canceled", updated |-> now]]
    BY <1>3 DEF CancelReturns
  <2>2. QED
    BY <2>1 DEF TypeOK, Final, Record
<1>4. UNCHANGED server \/ (\E q \in Offers : ServerStep(q)) \/ (\E l \in Loops : CancelReturns(l))
  BY ServerMoves
<1>5. QED
  BY <1>1, <1>2, <1>3, <1>4

\* The answer a loop holds comes from Respond, stays as it is, or is dropped.
LEMMA AnswerSteps ==
    ASSUME TypeOK, [Next]_vars, NEW l \in Loops
    PROVE  \/ Respond(l)
           \/ /\ batch'[l] = batch[l]
              /\ pc'[l] \in {"answer", "locked"} => pc[l] \in {"answer", "locked"}
           \/ batch'[l] = NoAnswer /\ pc'[l] \notin {"answer", "locked"}
<1> DEFINE Kept(k) == \/ /\ batch'[k] = batch[k]
                         /\ pc'[k] \in {"answer", "locked"} => pc[k] \in {"answer", "locked"}
                      \/ batch'[k] = NoAnswer /\ pc'[k] \notin {"answer", "locked"}
<1>1. ASSUME NEW k \in Loops, Loop(k), ~Respond(k) PROVE Kept(k)
  <2>1. CASE CheckState(k) \/ Select(k) \/ Ask(k) \/ PollFails(k) \/ LockState(k) \/ LockQueue(k)
    BY <2>1 DEF CheckState, Select, Ask, PollFails, LockState, LockQueue, Goto, TypeOK
  <2>2. CASE Apply(k)
    BY <2>2 DEF Apply, Goto, TypeOK
  <2>3. CASE CheckTimeout(k) \/ CheckCount(k)
    BY <2>3 DEF CheckTimeout, CheckCount, BeginCancel, EndPoll, Goto, TypeOK
  <2>4. CASE Peek(k)
    BY <2>4 DEF Peek, BeginCancel, EndPoll, Goto, TypeOK
  <2>5. CASE CancelReturns(k)
    BY <2>5 DEF CancelReturns, EndPoll, Goto, TypeOK
  <2>6. QED
    BY <1>1, <2>1, <2>2, <2>3, <2>4, <2>5 DEF Loop
<1>2. ASSUME NEW k \in Loops \ {l}, Loop(k) PROVE batch'[l] = batch[l] /\ pc'[l] = pc[l]
  BY <1>2 DEF Loop, CheckState, Select, Ask, PollFails, Respond, Reply, LockState, Apply,
              CheckTimeout, CheckCount, LockQueue, Peek, CancelReturns, BeginCancel, EndPoll,
              Goto, TypeOK
<1>3. CASE Control
  BY <1>3 DEF Control, StartPolling, StopPolling, Close, TriggerPoll, Goto, loopVars, TypeOK
<1>4. CASE Environment
  BY <1>4 DEF Environment, Tick, ServerStep, Save, Restart, loopVars
<1>5. CASE UNCHANGED vars
  BY <1>5 DEF vars, loopVars
<1>6. QED
  BY <1>1, <1>2, <1>3, <1>4, <1>5 DEF Next

\* An answer shows every active offer, and of any offer what Steam has of it or
\* nothing at all.
LEMMA ReplyFacts ==
    ASSUME TypeOK, NEW l \in Loops, Respond(l), NEW o \in Offers
    PROVE  /\ UNCHANGED <<now, server, known, lastSeen, news>> /\ pc'[l] = "answer"
           /\ \/ batch'[l][o].status = "none"
              \/ /\ batch'[l][o].status = server[o].status
                 /\ batch'[l][o].updated = server[o].updated
<1>1. PICK G \in SUBSET Offers : Reply(l, G)
  BY DEF Respond
<1>2. UNCHANGED <<now, server, known, lastSeen, news>> /\ pc'[l] = "answer"
  BY <1>1 DEF Reply, Goto, TypeOK, storeVars
<1>3. \/ batch'[l][o] = NoAnswer[o]
      \/ /\ batch'[l][o].status = server[o].status
         /\ batch'[l][o].updated = server[o].updated
  BY <1>1 DEF Reply, TypeOK
<1>4. QED
  BY <1>2, <1>3 DEF NoAnswer

\* Whoever changes an offer at Steam, its update time is that moment.
LEMMA ServerUpdates ==
    ASSUME TypeOK, [Next]_vars, NEW o \in Offers
    PROVE  server'[o] = server[o] \/ server'[o].updated = now
<1>1. ASSUME NEW q \in Offers, ServerStep(q)
      PROVE  server'[o] = server[o] \/ server'[o].updated = now
  BY <1>1 DEF ServerStep, TypeOK
<1>2. ASSUME NEW l \in Loops, CancelReturns(l)
      PROVE  server'[o] = server[o] \/ server'[o].updated = now
  <2>1. \/ UNCHANGED server
        \/ \E q \in target[l] :
              server' = [server EXCEPT ![q] = [status |-> "Canceled", updated |-> now]]
    BY <1>2 DEF CancelReturns
  <2>2. QED
    BY <2>1 DEF TypeOK
<1>3. QED
  BY <1>1, <1>2, ServerMoves

\* A restart restores what was saved.
LEMMA RestartMemory ==
    ASSUME TypeOK, Restart
    PROVE  Memory' = saved
<1>1. saved = [since |-> saved.since, known |-> saved.known, told |-> saved.told]
  BY DEF TypeOK, PollData
<1>2. QED
  BY <1>1 DEF Restart, Memory

\* A poll is in flight because it asks, gets its answer, or was before.
LEMMA PollSteps ==
    ASSUME TypeOK, [Next]_vars, ~Restart, NEW l \in Loops, pc'[l] \in {"fetch", "answer", "locked"}
    PROVE  \/ Ask(l)
           \/ Respond(l)
           \/ /\ asked'[l] = asked[l] /\ cutoff'[l] = cutoff[l] /\ batch'[l] = batch[l]
              /\ pc[l] \in {"fetch", "answer", "locked"}
              /\ pc'[l] = pc[l] \/ (pc[l] = "answer" /\ pc'[l] = "locked")
<1>1. CASE Loop(l) /\ ~Ask(l) /\ ~Respond(l)
  <2>1. CASE LockState(l)
    BY <2>1 DEF LockState, Goto, TypeOK
  <2>2. CASE CheckState(l) \/ Select(l) \/ PollFails(l) \/ Apply(l)
    BY <2>2 DEF CheckState, Select, PollFails, Apply, Goto, TypeOK
  <2>3. CASE CheckTimeout(l)
    BY <2>3 DEF CheckTimeout, BeginCancel, Goto, TypeOK
  <2>4. CASE CheckCount(l) \/ LockQueue(l) \/ Peek(l) \/ CancelReturns(l)
    BY <2>4 DEF CheckCount, LockQueue, Peek, CancelReturns, BeginCancel, EndPoll, Goto, TypeOK
  <2>5. QED
    BY <1>1, <2>1, <2>2, <2>3, <2>4 DEF Loop
<1>2. ASSUME NEW k \in Loops \ {l}, Loop(k)
      PROVE  /\ asked'[l] = asked[l] /\ cutoff'[l] = cutoff[l] /\ batch'[l] = batch[l]
             /\ pc'[l] = pc[l]
  BY <1>2 DEF Loop, CheckState, Select, Ask, PollFails, Respond, Reply, LockState, Apply,
              CheckTimeout, CheckCount, LockQueue, Peek, CancelReturns, BeginCancel, EndPoll,
              Goto, TypeOK
<1>3. CASE Control
  BY <1>3 DEF Control, StartPolling, StopPolling, Close, TriggerPoll, Goto, loopVars, TypeOK
<1>4. CASE Environment
  BY <1>4 DEF Environment, Tick, ServerStep, Save, loopVars
<1>5. CASE UNCHANGED vars
  BY <1>5 DEF vars, loopVars
<1>6. QED
  BY <1>1, <1>2, <1>3, <1>4, <1>5 DEF Next

-----------------------------------------------------------------------------
(* No settled offer slips behind the watermark.                            *)

\* A step leaves a settlement told unless Steam settles the offer, or an answer
\* from before the settlement is applied: then the settlement is young.
LEMMA UntoldStep ==
    ASSUME TypeOK, AnswerInv, [Next]_vars, ~Restart, NEW o \in Untold(Memory)'
    PROVE  \/ server'[o].updated >= now - Slack
           \/ o \in Untold(Memory) /\ server'[o] = server[o] /\ told'[o] = told[o]
<1>1. o \in Offers /\ server'[o].status \in Final /\ told'[o] # server'[o].status
  BY DEF Untold, Memory
<1>2. server'[o] = server[o] \/ server'[o].updated = now
  BY <1>1, ServerUpdates
<1>3. CASE server'[o].updated = now
  BY <1>3, Numbers
<1>4. CASE server'[o] = server[o] /\ told'[o] = told[o]
  BY <1>1, <1>4 DEF Untold, Memory
<1>5. CASE server'[o] = server[o] /\ told'[o] # told[o]
  <2>1. PICK l \in Loops : Apply(l)
    BY <1>5, MemorySteps
  <2>2. o \in Good(l) /\ told'[o] = batch[l][o].status
    BY <1>1, <1>5, <2>1, ApplyFacts
  <2>3. pc[l] = "locked" /\ batch[l][o].status # "none"
    BY <2>1, <2>2 DEF Apply, Good, In
  <2>4. server[o].updated >= asked[l] /\ now - asked[l] <= MaxPoll
    BY <1>1, <1>5, <2>2, <2>3 DEF AnswerInv, PollSound
  <2>5. QED
    BY <1>1, <1>5, <2>4, Numbers
<1>6. QED
  BY <1>2, <1>3, <1>4, <1>5

\* The critical section moves the watermark past nothing that is not told.
LEMMA ApplyReaches ==
    ASSUME TypeOK, AnswerInv, ReachInv, NEW l \in Loops, Apply(l)
    PROVE  Reaches(Memory)'
<1>1. UNCHANGED <<now, server>> /\ pc[l] = "locked"
  BY DEF Apply
<1>2. offersSince' \in Nat /\ offersSince' <= now
  BY ApplyFacts, ApplyType, BoundAssumption DEF TypeOK, Times
<1>3. asked[l] <= now /\ now - asked[l] <= MaxPoll
  BY <1>1 DEF AnswerInv, PollSound
<1>4. ASSUME NEW o \in Untold(Memory)' PROVE server[o].updated >= offersSince' - Slack
  <2>1. o \in Offers /\ server[o].status \in Final /\ told'[o] # server[o].status
    BY <1>1 DEF Untold, Memory
  <2>2. CASE server[o].updated >= asked[l]
    BY <1>2, <1>3, <2>1, <2>2, Numbers
  <2>3. CASE ~(server[o].updated >= asked[l])
    <3>1. \/ batch[l][o].status = server[o].status
          \/ batch[l][o].status = "none" /\ server[o].updated < asked[l] - Slack
      BY <1>1, <2>1, <2>3 DEF AnswerInv, PollSound
    <3>2. o \notin Good(l)
      BY <2>1, <3>1, ApplyFacts DEF Good, In
    <3>3. o \in Untold(Memory)
      BY <2>1, <3>2, ApplyFacts DEF Untold, Memory
    <3>4. batch[l][o].status # "none"
      BY <1>1, <2>1, <3>1, <3>3, Numbers DEF ReachInv, PollReaches, Final
    <3>5. offersSince' = offersSince
      BY <2>1, <3>2, <3>4, ApplyFacts DEF In
    <3>6. QED
      BY <3>3, <3>5 DEF ReachInv, Reaches, Memory
  <2>4. QED
    BY <2>2, <2>3
<1>5. QED
  BY <1>1, <1>4 DEF Reaches, Memory

LEMMA ReachesStep ==
    ASSUME TypeOK, AnswerInv, ReachInv, [Next]_vars
    PROVE  Reaches(Memory)' /\ Reaches(published)' /\ Reaches(saved)'
\* Poll data that stays what it is.
<1>1. ASSUME NEW d \in PollData, Reaches(d), d.since <= now,
             NEW o \in Offers, server'[o].status \in Final, d.told[o] # server'[o].status
      PROVE  server'[o].updated >= d.since - Slack
  <2>1. server'[o] = server[o] \/ server'[o].updated = now
    BY <1>1, ServerUpdates
  <2>2. d.since \in Nat
    BY BoundAssumption DEF PollData, Times
  <2>3. CASE server'[o] = server[o]
    BY <1>1, <2>3 DEF Reaches, Untold
  <2>4. QED
    BY <1>1, <2>1, <2>2, <2>3, Numbers
<1>2. Memory \in PollData /\ published \in PollData /\ saved \in PollData
  BY DEF TypeOK, Memory, PollData
<1>3. \A d \in {Memory, published, saved} : Reaches(d) /\ d.since <= now
  BY DEF ReachInv, AnswerInv, Sound
<1>4. \A d \in {Memory, published, saved}, o \in Offers :
          server'[o].status \in Final /\ d.told[o] # server'[o].status
              => server'[o].updated >= d.since - Slack
  BY <1>1, <1>2, <1>3
<1>5. CASE Restart
  <2>1. Memory' = saved /\ published' = saved /\ saved' = saved
    BY <1>5, RestartMemory DEF Restart
  <2>2. QED
    BY <1>4, <2>1 DEF Reaches, Untold
<1>6. ASSUME NEW l \in Loops, Apply(l)
      PROVE  Reaches(Memory)' /\ Reaches(published)' /\ Reaches(saved)'
  <2>1. saved' = saved /\ published' \in {published, Memory'}
    BY <1>6 DEF Apply, Memory
  <2>2. Reaches(Memory)'
    BY <1>6, ApplyReaches
  <2>3. QED
    BY <1>4, <2>1, <2>2 DEF Reaches, Untold
<1>7. CASE ~Restart /\ \A l \in Loops : ~Apply(l)
  <2>1. Memory' = Memory /\ published' = published /\ saved' \in {saved, published}
    BY <1>7, MemorySteps DEF Memory
  <2>2. QED
    BY <1>4, <2>1 DEF Reaches, Untold
<1>8. QED
  BY <1>5, <1>6, <1>7

\* A poll that is about to ask, has asked or holds an answer misses nothing.
LEMMA PollReachesStep ==
    ASSUME TypeOK, AnswerInv, AnswerInv', ReachInv, SettledInWindow, [Next]_vars, NEW l \in Loops
    PROVE  PollReaches(l)'
<1>1. CASE Restart
  BY <1>1 DEF Restart, PollReaches
<1>2. CASE ~Restart
  <2> SUFFICES ASSUME NEW o \in Untold(Memory)'
               PROVE  /\ pc'[l] = "fetch" => server'[o].updated >= cutoff'[l]
                      /\ pc'[l] \in {"answer", "locked"} =>
                            \/ batch'[l][o].status # "none"
                            \/ server'[o].updated >= asked'[l] - Slack
    BY DEF PollReaches
  <2>0. o \in Offers /\ server'[o].status \in Final
    BY DEF Untold
  <2>1. pc'[l] \in {"fetch", "answer", "locked"} =>
           \/ Ask(l)
           \/ Respond(l)
           \/ /\ asked'[l] = asked[l] /\ cutoff'[l] = cutoff[l] /\ batch'[l] = batch[l]
              /\ pc'[l] = pc[l] \/ (pc[l] = "answer" /\ pc'[l] = "locked")
    BY <1>2, PollSteps
  <2>2. CASE Ask(l)
    <3>1. pc'[l] = "fetch" /\ cutoff'[l] = Cutoff /\ Memory' = Memory /\ UNCHANGED <<server, now>>
      BY <2>2 DEF Ask, Goto, TypeOK, Memory, storeVars
    <3>2. o \in Untold(Memory)
      BY <3>1 DEF Untold
    <3>3. server[o].updated >= Cutoff
      BY <2>0, <3>2, Numbers DEF ReachInv, Reaches, Memory, SettledInWindow, Cutoff
    <3>4. QED
      BY <3>1, <3>3
  <2>3. CASE Respond(l)
    <3>1. PICK G \in SUBSET Offers : Reply(l, G)
      BY <2>3 DEF Respond
    <3>2. pc[l] = "fetch" /\ pc'[l] = "answer" /\ Memory' = Memory /\ UNCHANGED <<server, now>>
      BY <3>1 DEF Reply, Goto, TypeOK, Memory, storeVars
    <3>3. o \in Untold(Memory)
      BY <3>2 DEF Untold
    <3>4. server[o].updated >= cutoff[l] /\ server[o].status # "none"
      BY <2>0, <3>2, <3>3 DEF ReachInv, PollReaches, Final
    <3>5. batch'[l][o].status = server[o].status
      BY <2>0, <3>1, <3>4 DEF Reply, TypeOK
    <3>6. QED
      BY <3>2, <3>4, <3>5
  <2>4. CASE /\ asked'[l] = asked[l] /\ cutoff'[l] = cutoff[l] /\ batch'[l] = batch[l]
             /\ pc[l] \in {"fetch", "answer", "locked"}
             /\ pc'[l] = pc[l] \/ (pc[l] = "answer" /\ pc'[l] = "locked")
    <3>1. \/ server'[o].updated >= now - Slack
          \/ o \in Untold(Memory) /\ server'[o] = server[o]
      BY <1>2, UntoldStep
    <3>2. CASE server'[o].updated >= now - Slack
      <4>1. asked[l] <= now /\ (pc[l] = "fetch" => cutoff[l] <= asked[l] - Slack)
        BY <2>4 DEF AnswerInv, PollSound
      <4>2. server'[o].updated \in Int
        BY <2>0, ServerUpdates, Numbers
      <4>3. QED
        BY <2>4, <3>2, <4>1, <4>2, Numbers
    <3>3. CASE o \in Untold(Memory) /\ server'[o] = server[o]
      BY <2>4, <3>3 DEF ReachInv, PollReaches
    <3>4. QED
      BY <3>1, <3>2, <3>3
  <2>5. QED
    BY <2>1, <2>2, <2>3, <2>4
<1>3. QED
  BY <1>1, <1>2

\* While there is no watermark only the clock can lose a settlement; with one,
\* nothing can: ReachInv is kept by every step.
THEOREM ReachInvariant == Spec /\ []SettledInWindow => []ReachInv
<1>1. Init => ReachInv
  <2> SUFFICES ASSUME Init PROVE ReachInv
    OBVIOUS
  <2>1. \A d \in {Memory, published, saved} : Untold(d) = {}
    BY DEF Init, Untold, NoOffer, Final
  <2>2. QED
    BY <2>1 DEF ReachInv, Reaches, PollReaches
<1>2. TypeOK /\ AnswerInv /\ AnswerInv' /\ ReachInv /\ SettledInWindow /\ [Next]_vars => ReachInv'
  BY ReachesStep, PollReachesStep DEF ReachInv
<1>3. QED
  BY <1>1, <1>2, PollerTypeCorrect, AnswersAreSound, PTL DEF Spec

\* Whatever polls overlap, batches are glitched, requests fail and processes
\* restart from persisted data, for however long: a settlement that was not told
\* is within the reach of the next poll, if none leaves the window while there
\* is no watermark.
THEOREM NothingLost == Spec /\ []SettledInWindow => []ChangesStayReachable
<1>1. TypeOK /\ ReachInv /\ SettledInWindow => ChangesStayReachable
  <2> SUFFICES ASSUME TypeOK, ReachInv, SettledInWindow, NEW o \in Untold(Memory)
               PROVE  server[o].updated >= Cutoff
    BY DEF ChangesStayReachable
  <2>1. server[o].updated >= offersSince - Slack
    BY DEF ReachInv, Reaches, Memory
  <2>2. QED
    BY <2>1, Numbers DEF Cutoff, SettledInWindow
<1>2. QED
  BY <1>1, PollerTypeCorrect, ReachInvariant, PTL

\* InWindowSpec has just these behaviours.
THEOREM InWindowNothingLost == InWindowSpec => []ChangesStayReachable
<1>1. Init => SettledInWindow
  BY DEF Init, SettledInWindow, Untold, NoOffer, Final
<1>2. SettledInWindow /\ UNCHANGED vars => SettledInWindow'
  BY DEF SettledInWindow, Untold, Memory, vars, storeVars
<1>3. [Next /\ SettledInWindow']_vars => [Next]_vars
  OBVIOUS
<1>4. SettledInWindow /\ [Next /\ SettledInWindow']_vars => SettledInWindow'
  BY <1>2
<1>5. QED
  BY <1>1, <1>3, <1>4, NothingLost, PTL DEF InWindowSpec, Spec

\* In the first day, or whatever the window is, the condition holds by itself.
THEOREM NothingLostAtFirst ==
    ASSUME MaxTime <= Window PROVE Spec => []ChangesStayReachable
<1>1. TypeOK => SettledInWindow
  BY Numbers DEF SettledInWindow, Untold
<1>2. QED
  BY <1>1, PollerTypeCorrect, NothingLost, PTL

-----------------------------------------------------------------------------
(* Published data.                                                         *)

\* The last published poll data has what memory has: whatever it lacks would
\* be lost at a restart.
THEOREM PublishedMatches == Spec => []PublishedIsCurrent
<1>1. Init => PublishedIsCurrent
  BY DEF Init, PublishedIsCurrent, NoData, Nothing
<1>2. TypeOK /\ PublishedIsCurrent /\ [Next]_vars => PublishedIsCurrent'
  <2> SUFFICES ASSUME TypeOK, PublishedIsCurrent, [Next]_vars PROVE PublishedIsCurrent'
    OBVIOUS
  <2>1. ASSUME NEW l \in Loops, Apply(l) PROVE PublishedIsCurrent'
    <3>1. CASE Dirty(l, offersSince')
      BY <2>1, <3>1 DEF Apply, PublishedIsCurrent
    <3>2. CASE ~Dirty(l, offersSince')
      <4>1. offersSince' = offersSince /\ published' = published
        BY <2>1, <3>2 DEF Apply, Dirty
      <4>2. ASSUME NEW o \in Good(l) PROVE known[o] = batch[l][o].status
        BY <3>2, <4>2 DEF Dirty, Changed
      <4>3. \A o \in Offers : known'[o] # "none" => known'[o] = known[o]
        BY <2>1, <4>2 DEF Apply
      <4>4. QED
        BY <4>1, <4>3 DEF PublishedIsCurrent
    <3>3. QED
      BY <3>1, <3>2
  <2>2. CASE Restart
    BY <2>2 DEF Restart, PublishedIsCurrent
  <2>3. CASE ~Restart /\ \A l \in Loops : ~Apply(l)
    BY <2>3, MemorySteps DEF PublishedIsCurrent
  <2>4. QED
    BY <2>1, <2>2, <2>3
<1>3. QED
  BY <1>1, <1>2, PollerTypeCorrect, PTL DEF Spec

-----------------------------------------------------------------------------
(* A received offer is announced once: AnnounceInv is inductive.           *)

LEMMA NeverConfirmedStep ==
    ASSUME TypeOK, [Next]_vars, NEW o \in Offers, o \notin Sent, NeverConfirmed(o)
    PROVE  NeverConfirmed(o)'
<1>1. server'[o].status # "NeedsConfirmation"
  BY ServerSteps DEF NeverConfirmed
<1>2. ASSUME NEW l \in Loops PROVE batch'[l][o].status # "NeedsConfirmation"
  <2>1. CASE Respond(l)
    BY <2>1, ReplyFacts DEF NeverConfirmed
  <2>2. CASE batch'[l] = batch[l]
    BY <2>2 DEF NeverConfirmed
  <2>3. CASE batch'[l] = NoAnswer
    BY <2>3 DEF NoAnswer
  <2>4. QED
    BY <2>1, <2>2, <2>3, AnswerSteps
<1>3. "NeedsConfirmation" \notin {known'[o], published'.known[o], saved'.known[o]}
  <2>1. ASSUME NEW l \in Loops, Apply(l)
        PROVE  "NeedsConfirmation" \notin {known'[o], published'.known[o], saved'.known[o]}
    <3>1. known'[o] # "NeedsConfirmation"
      BY <2>1 DEF Apply, NeverConfirmed
    <3>2. published'.known[o] \in {published.known[o], known'[o]}
      BY <2>1 DEF Apply
    <3>3. saved' = saved
      BY <2>1 DEF Apply
    <3>4. QED
      BY <3>1, <3>2, <3>3 DEF NeverConfirmed
  <2>2. CASE Restart
    BY <2>2 DEF Restart, NeverConfirmed
  <2>3. CASE ~Restart /\ \A l \in Loops : ~Apply(l)
    BY <2>3, MemorySteps DEF NeverConfirmed
  <2>4. QED
    BY <2>1, <2>2, <2>3
<1>4. QED
  BY <1>1, <1>2, <1>3 DEF NeverConfirmed

LEMMA SettledStep ==
    ASSUME TypeOK, AnswerInv, [Next]_vars, NEW o \in Offers, SettledIsSettled(o)
    PROVE  SettledIsSettled(o)'
<1>1. ASSUME NEW l \in Loops, pc'[l] \in {"answer", "locked"}, batch'[l][o].status \in Final
      PROVE  server'[o].status \in Final
  <2>1. CASE Respond(l)
    BY <1>1, <2>1, ReplyFacts DEF Final
  <2>2. CASE batch'[l] = batch[l] /\ pc[l] \in {"answer", "locked"}
    BY <1>1, <2>2, ServerSteps DEF SettledIsSettled
  <2>3. QED
    BY <1>1, <2>1, <2>2, AnswerSteps
<1>2. ASSUME lastSeen'[o] > 0, known'[o] \in Final
      PROVE  server'[o].status \in Final /\ server'[o].updated <= lastSeen'[o]
  <2>1. ASSUME NEW l \in Loops, Apply(l)
        PROVE  server'[o].status \in Final /\ server'[o].updated <= lastSeen'[o]
    <3>1. server' = server /\ pc[l] = "locked"
      BY <2>1 DEF Apply
    <3>2. CASE o \in Good(l)
      <4>1. lastSeen'[o] = now /\ batch[l][o].status \in Final
        BY <1>2, <2>1, <3>2 DEF Apply
      <4>2. server[o].status \in Final
        BY <3>1, <4>1 DEF SettledIsSettled
      <4>3. QED
        BY <3>1, <4>1, <4>2 DEF AnswerInv
    <3>3. CASE o \notin Good(l)
      <4>1. known'[o] # "none"
        BY <1>2 DEF Final
      <4>2. lastSeen'[o] = lastSeen[o] /\ known'[o] = known[o]
        BY <2>1, <3>3, <4>1 DEF Apply
      <4>3. QED
        BY <1>2, <3>1, <4>2 DEF SettledIsSettled
    <3>4. QED
      BY <3>2, <3>3
  <2>2. CASE Restart
    BY <1>2, <2>2 DEF Restart
  <2>3. CASE ~Restart /\ \A l \in Loops : ~Apply(l)
    <3>1. lastSeen' = lastSeen /\ known' = known
      BY <2>3, MemorySteps
    <3>2. server[o].status \in Final /\ server[o].updated <= lastSeen[o]
      BY <1>2, <3>1 DEF SettledIsSettled
    <3>3. QED
      BY <3>1, <3>2, ServerSteps
  <2>4. QED
    BY <2>1, <2>2, <2>3
<1>3. QED
  BY <1>1, <1>2 DEF SettledIsSettled

\* An offer is forgotten only when every answer still on its way was asked for
\* after the offer had settled: MaxPoll <= GCAge.
LEMMA ForgetFacts ==
    ASSUME TypeOK, AnswerInv, NEW l \in Loops, Apply(l),
           NEW o \in Forgotten(l), o \notin Sent, NeverConfirmed(o), SettledIsSettled(o)
    PROVE  /\ server[o].status \in Final
           /\ \A k \in Loops : pc[k] \in {"answer", "locked"} => batch[k][o].status # "Active"
<1>1. o \in Offers /\ lastSeen[o] > 0 /\ now - lastSeen[o] > GCAge /\ known[o] \in Final
  BY DEF Forgotten, NeverConfirmed, TypeOK, Statuses, Final
<1>2. server[o].status \in Final /\ server[o].updated <= lastSeen[o]
  BY <1>1 DEF SettledIsSettled
<1>3. ASSUME NEW k \in Loops, pc[k] \in {"answer", "locked"}
      PROVE  batch[k][o].status # "Active"
  <2>1. now - asked[k] <= MaxPoll
    BY <1>3 DEF AnswerInv, PollSound
  <2>2. lastSeen[o] \in Nat /\ GCAge \in Nat /\ MaxPoll <= GCAge
    BY <1>1, TimesFacts, TimeAssumption DEF TypeOK
  <2>3. ~ (server[o].updated >= asked[k])
    BY <1>1, <1>2, <2>1, <2>2, Numbers
  <2>4. batch[k][o].status \in {server[o].status, "none"}
    BY <1>1, <1>2, <1>3, <2>3 DEF AnswerInv, PollSound
  <2>5. QED
    BY <1>2, <2>4 DEF Final
<1>4. QED
  BY <1>2, <1>3

LEMMA ForgottenStep ==
    ASSUME TypeOK, AnswerInv, [Next]_vars, NEW o \in Offers, o \notin Sent,
           NeverConfirmed(o), SettledIsSettled(o), ForgottenIsSettled(o), news[o] <= 1
    PROVE  ForgottenIsSettled(o)' /\ news'[o] <= 1
\* What was forgotten before the step stays settled, and shown so.
<1>1. ASSUME news[o] > 0, known[o] = "none"
      PROVE  /\ server'[o].status \in Final
             /\ \A k \in Loops : pc'[k] \in {"answer", "locked"} => batch'[k][o].status # "Active"
  <2>1. server'[o] = server[o] /\ server[o].status \in Final
    BY <1>1, ServerSteps DEF ForgottenIsSettled
  <2>2. ASSUME NEW k \in Loops, pc'[k] \in {"answer", "locked"}
        PROVE  batch'[k][o].status # "Active"
    <3>1. CASE Respond(k)
      BY <2>1, <3>1, ReplyFacts DEF Final
    <3>2. CASE batch'[k] = batch[k] /\ pc[k] \in {"answer", "locked"}
      BY <1>1, <3>2 DEF ForgottenIsSettled
    <3>3. QED
      BY <2>2, <3>1, <3>2, AnswerSteps
  <2>3. QED
    BY <2>1, <2>2
<1>2. ASSUME NEW l \in Loops, Apply(l)
      PROVE  ForgottenIsSettled(o)' /\ news'[o] <= 1
  <2>1. pc[l] = "locked" /\ server' = server
    BY <1>2 DEF Apply
  <2>2. \A k \in Loops : pc'[k] \in {"answer", "locked"} =>
                              pc[k] \in {"answer", "locked"} /\ batch'[k] = batch[k]
    BY <1>2 DEF Apply, Goto, TypeOK
  <2>3. CASE o \in Fresh(l)
    <3>1. known[o] = "none" /\ batch[l][o].status = "Active" /\ o \in Good(l)
      BY <2>3 DEF Fresh
    <3>2. news[o] = 0
      BY <2>1, <3>1 DEF ForgottenIsSettled, TypeOK
    <3>3. news'[o] = 1 /\ known'[o] = "Active"
      BY <1>2, <2>3, <3>1, <3>2 DEF Apply
    <3>4. QED
      BY <3>3 DEF ForgottenIsSettled
  <2>4. CASE o \in Forgotten(l)
    <3>1. news'[o] = news[o]
      BY <1>2, <2>4 DEF Apply, Fresh, Forgotten
    <3>2. /\ server[o].status \in Final
          /\ \A k \in Loops : pc[k] \in {"answer", "locked"} => batch[k][o].status # "Active"
      BY <1>2, <2>4, ForgetFacts
    <3>3. QED
      BY <2>1, <2>2, <3>1, <3>2 DEF ForgottenIsSettled
  <2>5. CASE o \notin Fresh(l) \cup Forgotten(l)
    <3>1. news'[o] = news[o] /\ (known'[o] = "none" => known[o] = "none")
      BY <1>2, <2>5 DEF Apply, Good, In
    <3>2. QED
      BY <1>1, <3>1 DEF ForgottenIsSettled
  <2>6. QED
    BY <2>3, <2>4, <2>5
<1>3. CASE Restart
  BY <1>3 DEF Restart, ForgottenIsSettled
<1>4. CASE ~Restart /\ \A l \in Loops : ~Apply(l)
  BY <1>1, <1>4, MemorySteps DEF ForgottenIsSettled
<1>5. QED
  BY <1>2, <1>3, <1>4

\* A process announces an active offer it received once, whatever polls
\* overlap, however often it forgets, and however old the answers it applies.
THEOREM ReceivedAnnouncedOnce == Spec => []AnnouncedOnce
<1>1. Init => AnnounceInv
  <2> SUFFICES ASSUME Init, NEW o \in Offers
               PROVE  /\ NeverConfirmed(o) /\ SettledIsSettled(o)
                      /\ ForgottenIsSettled(o) /\ news[o] <= 1
    BY DEF AnnounceInv
  <2>1. NeverConfirmed(o)
    BY DEF Init, NeverConfirmed, NoOffer, NoAnswer, NoData, Nothing
  <2>2. SettledIsSettled(o) /\ ForgottenIsSettled(o) /\ news[o] <= 1
    BY DEF Init, SettledIsSettled, ForgottenIsSettled
  <2>3. QED
    BY <2>1, <2>2
<1>2. TypeOK /\ AnswerInv /\ AnnounceInv /\ [Next]_vars => AnnounceInv'
  BY NeverConfirmedStep, SettledStep, ForgottenStep DEF AnnounceInv
<1>3. AnnounceInv => AnnouncedOnce
  BY DEF AnnounceInv, AnnouncedOnce
<1>4. QED
  BY <1>1, <1>2, <1>3, PollerTypeCorrect, AnswersAreSound, PTL DEF Spec

-----------------------------------------------------------------------------
(* Subscribers hear the story in order: StoryInv is inductive as long as    *)
(* AnswersApart holds.                                                     *)

LEMMA UpToTransitive ==
    \A s, t, u \in Statuses : Story!UpTo(s, t) /\ Story!UpTo(t, u) => Story!UpTo(s, u)
BY DEF Story!UpTo, Story!Precedes, Story!Final, Statuses, Final

LEMMA ServerForward ==
    ASSUME TypeOK, [Next]_vars, NEW o \in Offers
    PROVE  Story!UpTo(server[o].status, server'[o].status)
<1>1. CASE UNCHANGED server
  BY <1>1 DEF Story!UpTo
<1>2. ASSUME NEW q \in Offers, ServerStep(q)
      PROVE  Story!UpTo(server[o].status, server'[o].status)
  <2>1. PICK s \in Statuses :
           /\ \/ server[q].status = "none" /\ s \in {"Active", "NeedsConfirmation"}
              \/ server[q].status = "NeedsConfirmation" /\ s \in {"Active", "Canceled"}
              \/ server[q].status = "Active" /\ s \in Final
           /\ server' = [server EXCEPT ![q] = [status |-> s, updated |-> now]]
    BY <1>2 DEF ServerStep
  <2>2. Story!Precedes(server[q].status, s)
    BY <2>1 DEF Story!Precedes, Story!Final, Final
  <2>3. server'[o].status = IF o = q THEN s ELSE server[o].status
    BY <2>1 DEF TypeOK
  <2>4. QED
    BY <2>2, <2>3 DEF Story!UpTo
<1>3. CASE server[o].status = "Active" /\ server'[o].status \in Final
  BY <1>3 DEF Story!UpTo, Story!Precedes, Story!Final, Final
<1>4. CASE server'[o] = server[o]
  BY <1>4 DEF Story!UpTo
<1>5. UNCHANGED server \/ (\E q \in Offers : ServerStep(q)) \/ (\E l \in Loops : CancelReturns(l))
  BY ServerMoves
<1>6. ASSUME NEW l \in Loops, CancelReturns(l)
      PROVE  (server[o].status = "Active" /\ server'[o].status \in Final) \/ server'[o] = server[o]
  <2>1. \/ UNCHANGED server
        \/ \E q \in target[l] :
              /\ server[q].status = "Active"
              /\ server' = [server EXCEPT ![q] = [status |-> "Canceled", updated |-> now]]
    BY <1>6 DEF CancelReturns
  <2>2. QED
    BY <2>1 DEF TypeOK, Final, Record
<1>7. QED
  BY <1>1, <1>2, <1>3, <1>4, <1>5, <1>6

\* What the critical section tells of an offer.
LEMMA ApplyTells ==
    ASSUME TypeOK, AnswerInv, NEW l \in Loops, Apply(l), NEW o \in Offers, ToldUpTo(o)
    PROVE  /\ server' = server /\ saved' = saved
           /\ told'[o] = told[o] \/ (told'[o] = batch[l][o].status /\ o \in Good(l))
           /\ Story!UpTo(told[o], told'[o]) /\ Story!UpTo(told'[o], server[o].status)
           /\ published'.told[o] \in {published.told[o], told'[o]}
<1>1. server' = server /\ saved' = saved /\ pc[l] = "locked"
  BY DEF Apply
<1>2. told'[o] = told[o] \/ (told'[o] = batch[l][o].status /\ o \in Good(l))
  BY DEF Apply, Fresh, Changed
<1>3. o \in Good(l) => batch[l][o].status # "none"
  BY DEF Good, In
<1>4. Story!UpTo(told[o], server[o].status)
  BY DEF ToldUpTo, Memory
<1>5. Story!UpTo(told[o], told'[o]) /\ Story!UpTo(told'[o], server[o].status)
  <2>1. CASE told'[o] = told[o]
    BY <1>4, <2>1 DEF Story!UpTo
  <2>2. CASE told'[o] = batch[l][o].status /\ o \in Good(l)
    BY <1>1, <1>3, <2>2 DEF ToldUpTo
  <2>3. QED
    BY <1>2, <2>1, <2>2
<1>6. published'.told[o] \in {published.told[o], told'[o]}
  BY DEF Apply
<1>7. QED
  BY <1>1, <1>2, <1>5, <1>6

LEMMA ToldStep ==
    ASSUME TypeOK, TypeOK', AnswerInv, AnswersApart, [Next]_vars, NEW o \in Offers, ToldUpTo(o)
    PROVE  ToldUpTo(o)'
<1> DEFINE Holds(l) == pc[l] \in {"answer", "locked"} /\ batch[l][o].status # "none"
           Between(l) == /\ Story!UpTo(told[o], batch[l][o].status)
                         /\ Story!UpTo(batch[l][o].status, server[o].status)
<1>1. /\ server[o].status \in Statuses /\ server'[o].status \in Statuses
      /\ told[o] \in Statuses /\ published.told[o] \in Statuses /\ saved.told[o] \in Statuses
      /\ \A l \in Loops : batch[l][o].status \in Statuses
  BY DEF TypeOK, Record, Answer, PollData
<1>2. Story!UpTo(server[o].status, server'[o].status)
  BY ServerForward
<1>3. ASSUME NEW d \in Statuses, Story!UpTo(d, server[o].status) PROVE Story!UpTo(d, server'[o].status)
  BY <1>1, <1>2, <1>3, UpToTransitive
<1>4. /\ Story!UpTo(told[o], server[o].status) /\ Story!UpTo(published.told[o], server[o].status)
      /\ Story!UpTo(saved.told[o], server[o].status)
  BY DEF ToldUpTo, Memory
<1>5. ASSUME NEW l \in Loops, Apply(l) PROVE ToldUpTo(o)'
  <2>1. /\ server' = server /\ saved' = saved /\ Story!UpTo(told'[o], server[o].status)
        /\ published'.told[o] \in {published.told[o], told'[o]}
    BY <1>5, ApplyTells
  <2>2. ASSUME NEW k \in Loops, pc'[k] \in {"answer", "locked"} PROVE FALSE
    <3>1. pc[l] = "locked" /\ (k # l => pc'[k] = pc[k]) /\ pc'[l] \notin {"answer", "locked"}
      BY <1>5 DEF Apply, Goto, TypeOK
    <3>2. QED
      BY <2>2, <3>1 DEF AnswersApart
  <2>3. QED
    BY <1>4, <2>1, <2>2 DEF ToldUpTo, Memory
<1>6. CASE Restart
  <2>1. /\ told' = saved.told /\ published' = saved /\ saved' = saved
        /\ \A k \in Loops : pc'[k] = "unborn"
    BY <1>6 DEF Restart
  <2>2. QED
    BY <1>1, <1>3, <1>4, <2>1 DEF ToldUpTo, Memory
<1>7. CASE ~Restart /\ \A l \in Loops : ~Apply(l)
  <2>1. told' = told /\ published' = published /\ saved' \in {saved, published}
    BY <1>7, MemorySteps
  <2>2. ASSUME NEW l \in Loops, Holds(l)' PROVE Between(l)'
    <3>1. CASE Respond(l)
      <4>1. batch'[l][o].status = server[o].status /\ server' = server
        BY <2>2, <3>1, ReplyFacts
      <4>2. QED
        BY <1>4, <2>1, <4>1 DEF Story!UpTo
    <3>2. CASE batch'[l] = batch[l] /\ pc[l] \in {"answer", "locked"}
      <4>1. Between(l)
        BY <2>2, <3>2 DEF ToldUpTo
      <4>2. QED
        BY <1>1, <1>3, <2>1, <3>2, <4>1
    <3>3. QED
      BY <2>2, <3>1, <3>2, AnswerSteps
  <2>3. \A d \in {Memory, published, saved}' : Story!UpTo(d.told[o], server'[o].status)
    BY <1>1, <1>3, <1>4, <2>1 DEF Memory
  <2>4. QED
    BY <2>2, <2>3 DEF ToldUpTo
<1>8. QED
  BY <1>5, <1>6, <1>7

LEMMA NewsStep ==
    ASSUME TypeOK, AnswerInv, [Next]_vars, NEW o \in Offers, ToldUpTo(o), NewsAreKept(o)
    PROVE  NewsAreKept(o)'
<1>1. ASSUME NEW l \in Loops, Apply(l) PROVE NewsAreKept(o)'
  <2>0. Story!UpTo(told[o], told'[o])
    BY <1>1, ApplyTells
  <2>1. pc[l] = "locked" /\ news[o] \in Nat
    BY <1>1 DEF Apply, TypeOK
  <2>2. known[o] # "none" => told[o] = known[o]
    BY DEF AnswerInv, Sound, Memory
  <2>3. CASE o \in Fresh(l)
    <3>1. o \in Good(l) /\ known[o] = "none" /\ batch[l][o].status = "Active"
      BY <2>3 DEF Fresh
    <3>2. Story!UpTo(told[o], "Active")
      BY <2>1, <3>1 DEF ToldUpTo
    <3>3. news[o] = 0
      BY <2>1, <3>1, <3>2 DEF NewsAreKept, Story!UpTo, Story!Precedes, Story!Final, Final
    <3>4. news'[o] = 1 /\ told'[o] = "Active" /\ known'[o] = "Active"
      BY <1>1, <2>3, <3>1, <3>3 DEF Apply
    <3>5. QED
      BY <3>4 DEF NewsAreKept
  <2>4. CASE o \notin Fresh(l)
    <3>1. news'[o] = news[o]
      BY <1>1, <2>4 DEF Apply
    <3>2. ASSUME news[o] > 0 PROVE told'[o] \in {"Active"} \cup Final
      BY <2>0, <3>2 DEF NewsAreKept, Story!UpTo, Story!Precedes, Story!Final, Final
    <3>3. ASSUME news[o] > 0, known'[o] = "none" PROVE told'[o] \in Final
      <4>1. o \notin Good(l)
        BY <1>1, <3>3 DEF Apply, Good, In
      <4>2. told'[o] = told[o]
        BY <1>1, <4>1, ApplyTells
      <4>3. CASE known[o] = "none"
        BY <3>3, <4>2, <4>3 DEF NewsAreKept
      <4>4. CASE known[o] # "none"
        <5>1. o \in Forgotten(l)
          BY <1>1, <3>3, <4>1, <4>4 DEF Apply
        <5>2. told[o] = known[o] /\ known[o] # "Active"
          BY <2>2, <4>4, <5>1 DEF Forgotten
        <5>3. QED
          BY <3>3, <4>2, <5>2 DEF NewsAreKept
      <4>5. QED
        BY <4>3, <4>4
    <3>4. QED
      BY <3>1, <3>2, <3>3 DEF NewsAreKept
  <2>5. QED
    BY <2>3, <2>4
<1>2. CASE Restart
  BY <1>2 DEF Restart, NewsAreKept
<1>3. CASE ~Restart /\ \A l \in Loops : ~Apply(l)
  <2>1. UNCHANGED <<known, news, told>>
    BY <1>3, MemorySteps
  <2>2. QED
    BY <2>1 DEF NewsAreKept
<1>4. QED
  BY <1>1, <1>2, <1>3

LEMMA StoryAlways == Spec /\ []AnswersApart => []StoryInv
<1>1. Init => StoryInv
  <2> SUFFICES ASSUME Init, NEW o \in Offers PROVE ToldUpTo(o) /\ NewsAreKept(o)
    BY DEF StoryInv
  <2>1. ToldUpTo(o)
    BY DEF Init, ToldUpTo, Memory, NoData, Nothing, NoOffer, Story!UpTo
  <2>2. NewsAreKept(o)
    BY DEF Init, NewsAreKept
  <2>3. QED
    BY <2>1, <2>2
<1>2. TypeOK /\ TypeOK' /\ AnswerInv /\ AnswersApart /\ StoryInv /\ [Next]_vars => StoryInv'
  BY ToldStep, NewsStep DEF StoryInv
<1>3. QED
  BY <1>1, <1>2, PollerTypeCorrect, AnswersAreSound, PTL DEF Spec

\* While the answers of loops are applied one at a time, subscribers are told of
\* an offer's states in their order, whatever is glitched, forgotten or restored.
THEOREM ToldForward == Spec /\ []AnswersApart => ToldInOrder
<1>1. TypeOK /\ AnswerInv /\ StoryInv /\ [Next]_vars =>
          [\A o \in Offers : told'[o] # told[o] =>
              Story!Precedes(told[o], told'[o]) \/ restarts' # restarts]_vars
  <2> SUFFICES ASSUME TypeOK, AnswerInv, StoryInv, [Next]_vars, NEW o \in Offers,
                      told'[o] # told[o]
               PROVE  Story!Precedes(told[o], told'[o]) \/ restarts' # restarts
    OBVIOUS
  <2>1. ToldUpTo(o)
    BY DEF StoryInv
  <2>2. ASSUME NEW l \in Loops, Apply(l) PROVE Story!Precedes(told[o], told'[o])
    BY <2>1, <2>2, ApplyTells DEF Story!UpTo
  <2>3. CASE Restart
    BY <2>3 DEF Restart, TypeOK
  <2>4. CASE ~Restart /\ \A l \in Loops : ~Apply(l)
    BY <2>4, MemorySteps
  <2>5. QED
    BY <2>2, <2>3, <2>4
<1>2. QED
  BY <1>1, PollerTypeCorrect, AnswersAreSound, StoryAlways, PTL DEF Spec, ToldInOrder

LEMMA StoryDataAlways == Spec => []StoryData
<1>1. Init => StoryData
  BY DEF Init, StoryData, Memory, NoData, Nothing
<1>2. TypeOK /\ StoryData /\ [Next]_vars => StoryData'
  <2> SUFFICES ASSUME TypeOK, StoryData, [Next]_vars PROVE StoryData'
    OBVIOUS
  <2>1. ASSUME NEW l \in Loops, Apply(l) PROVE StoryData'
    <3>1. ASSUME NEW o \in Offers, told'[o] = "Active" PROVE known'[o] = "Active"
      <4>1. CASE o \in Good(l)
        BY <2>1, <3>1, <4>1 DEF Apply, Fresh, Changed, StoryData, Memory
      <4>2. CASE o \notin Good(l)
        <5>1. told[o] = "Active"
          BY <2>1, <3>1, <4>2 DEF Apply, Fresh, Changed
        <5>2. known[o] = "Active"
          BY <5>1 DEF StoryData, Memory
        <5>3. QED
          BY <2>1, <4>2, <5>2 DEF Apply, Forgotten
      <4>3. QED
        BY <4>1, <4>2
    <3>2. CASE Dirty(l, offersSince')
      <4>1. /\ published' = [since |-> offersSince', known |-> known', told |-> told']
            /\ saved' = saved
        BY <2>1, <3>2 DEF Apply
      <4>2. QED
        BY <3>1, <4>1 DEF StoryData, Memory
    <3>3. CASE ~Dirty(l, offersSince')
      <4>1. published' = published /\ saved' = saved /\ Fresh(l) \cup Changed(l) = {}
        BY <2>1, <3>3 DEF Apply, Dirty
      <4>2. told' = told
        BY <2>1, <4>1 DEF Apply, TypeOK
      <4>3. QED
        BY <3>1, <4>1, <4>2 DEF StoryData, Memory
    <3>4. QED
      BY <3>2, <3>3
  <2>2. CASE Restart
    BY <2>2 DEF Restart, StoryData, Memory
  <2>3. CASE ~Restart /\ \A l \in Loops : ~Apply(l)
    BY <2>3, MemorySteps DEF StoryData, Memory
  <2>4. QED
    BY <2>1, <2>2, <2>3
<1>3. QED
  BY <1>1, <1>2, PollerTypeCorrect, PTL DEF Spec

\* What happens to one offer at Steam, as the story has it.
LEMMA HappenStep ==
    ASSUME TypeOK, NEW q \in Offers, NEW s \in Statuses,
           Story!Precedes(server[q].status, s),
           server' = [server EXCEPT ![q] = [status |-> s, updated |-> now]],
           UNCHANGED <<told, news, saved>>
    PROVE  Story!Happen(q)
<1>1. [o \in Offers |-> server'[o].status]
        = [[o \in Offers |-> server[o].status] EXCEPT ![q] = s]
  BY DEF TypeOK
<1>2. QED
  BY <1>1 DEF Story!Happen

\* The program persists poll data when it does nothing else.
LEMMA SavedSteps ==
    ASSUME [Next]_vars, ~Save
    PROVE  saved' = saved
<1>1. CASE UNCHANGED vars
  BY <1>1 DEF vars
<1>2. CASE \E l \in Loops : Loop(l)
  BY <1>2 DEF Loop, CheckState, Select, Ask, PollFails, Respond, Reply, LockState, Apply,
              CheckTimeout, CheckCount, LockQueue, Peek, CancelReturns
<1>3. CASE Control
  BY <1>3 DEF Control, StartPolling, StopPolling, Close, TriggerPoll
<1>4. CASE Environment
  BY <1>4 DEF Environment, Tick, ServerStep, Restart
<1>5. QED
  BY <1>1, <1>2, <1>3, <1>4 DEF Next

\* Every step of polling is one of the story, or none.
LEMMA StoryStep ==
    ASSUME TypeOK, TypeOK', AnswerInv, StoryInv, StoryData, [Next]_vars
    PROVE  [Story!Next]_(Story!vars)
<1>1. ASSUME NEW l \in Loops, Apply(l) PROVE Story!Tell
  <2>1. server' = server /\ saved' = saved
    BY <1>1 DEF Apply
  <2>2. told' \in [Offers -> Statuses] /\ news' \in [Offers -> Nat]
    BY DEF TypeOK
  <2>3. ASSUME NEW o \in Offers
        PROVE  /\ Story!UpTo(told[o], told'[o]) /\ Story!UpTo(told'[o], server[o].status)
               /\ \/ news'[o] = news[o]
                  \/ told[o] # "Active" /\ told'[o] = "Active" /\ news'[o] = news[o] + 1
    <3>1. Story!UpTo(told[o], told'[o]) /\ Story!UpTo(told'[o], server[o].status)
      BY <1>1, ApplyTells DEF StoryInv
    <3>2. CASE o \in Fresh(l)
      <4>1. told'[o] = "Active" /\ news'[o] = news[o] + 1 /\ known[o] = "none"
        BY <1>1, <3>2 DEF Apply, Fresh
      <4>2. told[o] # "Active"
        BY <4>1 DEF StoryData, Memory
      <4>3. QED
        BY <3>1, <4>1, <4>2
    <3>3. CASE o \notin Fresh(l)
      BY <1>1, <3>1, <3>3 DEF Apply
    <3>4. QED
      BY <3>2, <3>3
  <2>4. QED
    BY <2>1, <2>2, <2>3 DEF Story!Tell
<1>2. ASSUME Restart PROVE Story!Restart
  BY <1>2 DEF Restart, Story!Restart
<1>3. ASSUME Save PROVE Story!Keep
  <2>1. UNCHANGED <<server, told, news>> /\ saved' = published
    BY <1>3 DEF Save, storeVars
  <2>2. QED
    BY <2>1 DEF Story!Keep, StoryData
<1>4. ASSUME NEW q \in Offers, ServerStep(q) PROVE Story!Happen(q)
  <2>1. PICK s \in Statuses :
           /\ \/ server[q].status = "none" /\ s \in {"Active", "NeedsConfirmation"}
              \/ server[q].status = "NeedsConfirmation" /\ s \in {"Active", "Canceled"}
              \/ server[q].status = "Active" /\ s \in Final
           /\ server' = [server EXCEPT ![q] = [status |-> s, updated |-> now]]
    BY <1>4 DEF ServerStep
  <2>2. Story!Precedes(server[q].status, s)
    BY <2>1 DEF Story!Precedes, Story!Final, Final
  <2>3. UNCHANGED <<told, news, saved>>
    BY <1>4 DEF ServerStep, storeVars
  <2>4. QED
    BY <2>1, <2>2, <2>3, HappenStep
<1>5. ASSUME NEW l \in Loops, CancelReturns(l)
      PROVE  UNCHANGED server \/ \E q \in Offers : Story!Happen(q)
  <2>1. UNCHANGED <<told, news, saved>>
    BY <1>5 DEF CancelReturns, storeVars
  <2>2. ASSUME NEW q \in target[l], server[q].status = "Active",
               server' = [server EXCEPT ![q] = [status |-> "Canceled", updated |-> now]]
        PROVE  q \in Offers /\ Story!Happen(q)
    <3>1. q \in Offers
      BY SentAssumption DEF TypeOK
    <3>2. "Canceled" \in Statuses /\ Story!Precedes(server[q].status, "Canceled")
      BY <2>2 DEF Statuses, Story!Precedes, Story!Final
    <3>3. QED
      BY <2>1, <2>2, <3>1, <3>2, HappenStep
  <2>3. QED
    BY <1>5, <2>2 DEF CancelReturns
<1>6. CASE UNCHANGED server /\ ~Restart /\ ~Save /\ \A l \in Loops : ~Apply(l)
  <2>1. UNCHANGED <<server, told, news, saved>>
    BY <1>6, MemorySteps, SavedSteps
  <2>2. QED
    BY <2>1 DEF Story!vars
<1>7. QED
  BY <1>1, <1>2, <1>3, <1>4, <1>5, <1>6, ServerMoves DEF Story!Next

\* While the answers of loops are applied one at a time, polling implements
\* OfferStory, through restarts, glitched answers and forgotten offers.
THEOREM TellsTheStory == Spec /\ []AnswersApart => ImplementsOfferStory
<1>1. Init => Story!Init
  BY DEF Init, Story!Init, NoOffer, Nothing, NoData
<1>2. /\ TypeOK /\ TypeOK' /\ AnswerInv /\ StoryInv /\ StoryData
      /\ [Next]_vars
      => [Story!Next]_(Story!vars)
  BY StoryStep
<1>3. QED
  BY <1>1, <1>2, PollerTypeCorrect, AnswersAreSound, StoryAlways, StoryDataAlways, PTL
     DEF Spec, ImplementsOfferStory, Story!Spec

\* The story's promise about one offer, made inductive, with the types it needs.
StoryTypes ==
    /\ \A o \in Offers : {server[o].status, told[o], saved.told[o]} \subseteq Statuses
    /\ told \in [Offers -> Statuses] /\ saved.told \in [Offers -> Statuses]
    /\ news \in [Offers -> Nat]

StoryPart(o) ==
    /\ Story!UpTo(told[o], server[o].status) /\ Story!UpTo(saved.told[o], server[o].status)
    /\ news[o] <= 1 /\ (news[o] > 0 => told[o] \in {"Active"} \cup Final)

StoryTold == StoryTypes /\ \A o \in Offers : StoryPart(o)

LEMMA StoryKept ==
    ASSUME StoryTold, [Story!Next]_(Story!vars)
    PROVE  StoryTold'
<1>0. StoryTypes /\ \A o \in Offers : StoryPart(o)
  BY DEF StoryTold
<1>1. CASE Story!Tell
  <2>1. \A o \in Offers : server'[o].status = server[o].status
    <3>1. [o \in Offers |-> server'[o].status] = [o \in Offers |-> server[o].status]
      BY <1>1 DEF Story!Tell
    <3>2. QED
      BY <3>1
  <2>2. StoryTypes'
    BY <1>0, <1>1, <2>1 DEF Story!Tell, StoryTypes
  <2>3. ASSUME NEW o \in Offers PROVE StoryPart(o)'
    <3>1. /\ Story!UpTo(told[o], told'[o]) /\ Story!UpTo(told'[o], server'[o].status)
          /\ saved'.told = saved.told
      BY <1>1, <2>1, Zenon DEF Story!Tell
    <3>2. news'[o] <= 1 /\ (news'[o] > 0 => told'[o] \in {"Active"} \cup Final)
      <4>1. CASE news'[o] = news[o]
        BY <1>0, <3>1, <4>1 DEF StoryPart, Story!UpTo, Story!Precedes, Story!Final, Final
      <4>2. CASE told[o] # "Active" /\ told'[o] = "Active" /\ news'[o] = news[o] + 1
        BY <1>0, <3>1, <4>2
           DEF StoryPart, StoryTypes, Story!UpTo, Story!Precedes, Story!Final, Final
      <4>3. QED
        BY <1>1, <4>1, <4>2 DEF Story!Tell
    <3>3. QED
      BY <1>0, <2>1, <3>1, <3>2 DEF StoryPart
  <2>4. QED
    BY <2>2, <2>3 DEF StoryTold
<1>2. ASSUME NEW q \in Offers, Story!Happen(q)
      PROVE  StoryTold'
  <2>1. PICK s \in Statuses :
           /\ Story!Precedes(server[q].status, s)
           /\ [o \in Offers |-> server'[o].status]
                = [[o \in Offers |-> server[o].status] EXCEPT ![q] = s]
    BY <1>2 DEF Story!Happen
  <2>2. \A o \in Offers : server'[o].status = IF o = q THEN s ELSE server[o].status
    BY <2>1
  <2>3. told' = told /\ news' = news /\ saved'.told = saved.told
    BY <1>2 DEF Story!Happen
  <2>4. StoryTypes'
    BY <1>0, <2>2, <2>3 DEF StoryTypes
  <2>5. ASSUME NEW o \in Offers PROVE StoryPart(o)'
    <3>1. Story!UpTo(server[o].status, server'[o].status)
      BY <2>1, <2>2 DEF Story!UpTo
    <3>2. Story!UpTo(told[o], server'[o].status) /\ Story!UpTo(saved.told[o], server'[o].status)
      BY <1>0, <2>4, <3>1, UpToTransitive DEF StoryPart, StoryTypes
    <3>3. QED
      BY <1>0, <2>3, <3>2 DEF StoryPart
  <2>6. QED
    BY <2>4, <2>5 DEF StoryTold
<1>3. CASE Story!Keep \/ Story!Restart \/ UNCHANGED Story!vars
  <2>1. \A o \in Offers : server'[o].status = server[o].status
    <3>1. [o \in Offers |-> server'[o].status] = [o \in Offers |-> server[o].status]
      BY <1>3 DEF Story!Keep, Story!Restart, Story!vars
    <3>2. QED
      BY <3>1
  <2>2. /\ told' \in {told, saved.told} /\ saved'.told \in {told, saved.told}
        /\ \/ told' = told /\ news' = news
           \/ news' = [o \in Offers |-> 0]
    BY <1>3 DEF Story!Keep, Story!Restart, Story!vars
  <2>3. StoryTypes'
    BY <1>0, <2>1, <2>2 DEF StoryTypes
  <2>4. ASSUME NEW o \in Offers PROVE StoryPart(o)'
    BY <1>0, <2>1, <2>2 DEF StoryPart
  <2>5. QED
    BY <2>3, <2>4 DEF StoryTold
<1>4. QED
  BY <1>1, <1>2, <1>3 DEF Story!Next

\* Whatever implements the story tells nothing ahead of Steam, and announces an
\* offer at most once between two restarts.
THEOREM StoryIsTold == ImplementsOfferStory => []Story!OnceAndInTime
<1>1. Story!Init => StoryTold
  <2> SUFFICES ASSUME Story!Init PROVE StoryTold
    OBVIOUS
  <2>1. \A o \in Offers : server[o].status = "none"
    <3>1. [o \in Offers |-> server[o].status] = [o \in Offers |-> "none"]
      BY DEF Story!Init
    <3>2. QED
      BY <3>1
  <2>2. told = [o \in Offers |-> "none"] /\ saved.told = told /\ news = [o \in Offers |-> 0]
    BY DEF Story!Init
  <2>3. QED
    BY <2>1, <2>2 DEF StoryTold, StoryTypes, StoryPart, Statuses, Story!UpTo
<1>2. StoryTold => Story!OnceAndInTime
  BY DEF StoryTold, StoryPart, Story!OnceAndInTime
<1>3. StoryTold /\ [Story!Next]_(Story!vars) => StoryTold'
  BY StoryKept
<1>4. QED
  BY <1>1, <1>2, <1>3, PTL DEF ImplementsOfferStory, Story!Spec

\* Under the same condition no offer is announced twice, sent ones included.
THEOREM AnnouncedOnceApart == Spec /\ []AnswersApart => []EachAnnouncedOnce
<1>1. StoryInv => EachAnnouncedOnce
  BY DEF StoryInv, NewsAreKept, EachAnnouncedOnce
<1>2. QED
  BY <1>1, StoryAlways, PTL

\* A single loop satisfies the condition by itself.
THEOREM SingleLoopTells ==
    ASSUME \A k, l \in Loops : k = l
    PROVE  Spec => ImplementsOfferStory /\ ToldInOrder /\ []EachAnnouncedOnce
<1>1. AnswersApart
  BY DEF AnswersApart
<1>2. QED
  BY <1>1, TellsTheStory, ToldForward, AnnouncedOnceApart, PTL

-----------------------------------------------------------------------------
(* The count limit cancels the oldest.                                     *)

\* An update time that was right stays right.
LEMMA UpdateTimeStep ==
    ASSUME TypeOK, [Next]_vars, NEW o \in Offers, NEW t, UpdateTime(o, t)
    PROVE  /\ server'[o].status \in {"Active"} \cup Final
           /\ server'[o].status = "Active" => server'[o].updated = t
BY ServerSteps DEF UpdateTime, Final

LEMMA QueueStep ==
    ASSUME TypeOK, QueueInv, [Next]_vars
    PROVE  QueueInv'
<1>1. ASSUME NEW l \in Loops, NEW o \in Offers, batch'[l][o].status = "Active"
      PROVE  UpdateTime(o, batch[l][o].updated)'
  <2>1. CASE Respond(l)
    BY <1>1, <2>1, ReplyFacts DEF UpdateTime
  <2>2. CASE batch'[l] = batch[l]
    <3>1. UpdateTime(o, batch[l][o].updated)
      BY <1>1, <2>2 DEF QueueInv
    <3>2. QED
      BY <2>2, <3>1, UpdateTimeStep DEF UpdateTime
  <2>3. CASE batch'[l] = NoAnswer
    BY <1>1, <2>3 DEF NoAnswer
  <2>4. QED
    BY <2>1, <2>2, <2>3, AnswerSteps
<1>2. ASSUME NEW o \in Sent, tracked'[o] > 0
      PROVE  \/ tracked'[o] = tracked[o]
             \/ \E l \in Loops : batch[l][o].status = "Active" /\ tracked'[o] = batch[l][o].updated
  <2>1. ASSUME NEW l \in Loops, Apply(l)
        PROVE  \/ tracked'[o] = tracked[o]
               \/ \E k \in Loops : batch[k][o].status = "Active" /\ tracked'[o] = batch[k][o].updated
    BY <2>1 DEF Apply, Pushed
  <2>2. ASSUME NEW l \in Loops, Peek(l)
        PROVE  tracked'[o] = tracked[o]
    <3>1. tracked'[o] \in {0, tracked[o]}
      BY <2>2 DEF Peek
    <3>2. QED
      BY <1>2, <3>1
  <2>3. ASSUME NEW l \in Loops, CancelReturns(l)
        PROVE  tracked'[o] = tracked[o]
    BY <1>2, <2>3 DEF CancelReturns, TypeOK
  <2>4. ASSUME NEW l \in Loops, Loop(l), ~Apply(l), ~Peek(l), ~CancelReturns(l)
        PROVE  tracked' = tracked
    BY <2>4 DEF Loop, CheckState, Select, Ask, PollFails, Respond, Reply, LockState,
                CheckTimeout, CheckCount, LockQueue, heapVars
  <2>5. CASE Control
    BY <2>5 DEF Control, StartPolling, StopPolling, Close, TriggerPoll, heapVars
  <2>6. CASE Environment
    BY <1>2, <2>6 DEF Environment, Tick, ServerStep, Save, Restart, heapVars
  <2>7. CASE UNCHANGED vars
    BY <2>7 DEF vars, heapVars
  <2>8. QED
    BY <2>1, <2>2, <2>3, <2>4, <2>5, <2>6, <2>7 DEF Next
<1>3. ASSUME NEW o \in Sent, tracked'[o] > 0 PROVE UpdateTime(o, tracked[o])'
  <2>1. o \in Offers
    BY SentAssumption
  <2>2. UpdateTime(o, tracked'[o])
    BY <1>2, <1>3, <2>1 DEF QueueInv, Queued
  <2>3. QED
    BY <2>1, <2>2, UpdateTimeStep DEF UpdateTime
<1>4. QED
  BY <1>1, <1>3 DEF QueueInv, Queued

LEMMA QueueAlways == Spec => []QueueInv
<1>1. Init => QueueInv
  BY DEF Init, QueueInv, Queued, NoAnswer
<1>2. TypeOK /\ QueueInv /\ [Next]_vars => QueueInv'
  BY QueueStep
<1>3. QED
  BY <1>1, <1>2, PollerTypeCorrect, PTL DEF Spec

\* An offer too young for the count limit is younger than one that is not, so
\* what Peek takes from the queue is the oldest of all that are active in it.
THEOREM OldestFirst == Spec => OldestCancelledFirst
<1> DEFINE Oldest == \A l \in Loops : pc[l] = "peek" /\ pc'[l] = "callCount" =>
          \A o \in target'[l], p \in Queued :
              (/\ server[o].status = "Active" /\ server[p].status = "Active"
               /\ known[p] = "Active")
                  => server[o].updated <= server[p].updated
<1>1. TypeOK /\ QueueInv /\ [Next]_vars => Oldest
  <2> SUFFICES ASSUME TypeOK, QueueInv, [Next]_vars,
                      NEW l \in Loops, pc[l] = "peek", pc'[l] = "callCount",
                      NEW o \in target'[l], NEW p \in Queued,
                      server[o].status = "Active", server[p].status = "Active",
                      known[p] = "Active"
               PROVE  server[o].updated <= server[p].updated
    OBVIOUS
  <2>1. Peek(l)
    <3>1. ASSUME NEW k \in Loops, Loop(k), k # l PROVE pc'[l] = pc[l]
      BY <3>1 DEF Loop, CheckState, Select, Ask, PollFails, Respond, Reply, LockState, Apply,
                  CheckTimeout, CheckCount, LockQueue, Peek, CancelReturns, BeginCancel,
                  EndPoll, Goto, TypeOK
    <3>2. Loop(l) => Peek(l)
      BY DEF Loop, CheckState, Select, Ask, PollFails, Respond, Reply, LockState, Apply,
             CheckTimeout, CheckCount, LockQueue, CancelReturns
    <3>3. ~Control
      BY DEF Control, StartPolling, StopPolling, Close, TriggerPoll, Goto, loopVars, TypeOK
    <3>4. ~Environment
      BY DEF Environment, Tick, ServerStep, Save, Restart, loopVars
    <3>5. CASE UNCHANGED vars
      BY <3>5 DEF vars, loopVars
    <3>6. QED
      BY <3>1, <3>2, <3>3, <3>4, <3>5 DEF Next
  <2> DEFINE Valid == {q \in Queued : Cancellable(q)}
  <2>2. PICK q \in Top(Valid) : BeginCancel(l, q, "callCount")
    BY <2>1 DEF Peek, EndPoll, Goto, TypeOK
  <2>3. o = q
    BY <2>2 DEF BeginCancel, TypeOK
  <2>4. o \in Queued /\ Cancellable(o) /\ \A r \in Valid : tracked[o] <= tracked[r]
    BY <2>3 DEF Top
  <2>5. \A r \in Sent : tracked[r] \in Nat
    BY TimesFacts DEF TypeOK
  <2>6. tracked[o] <= tracked[p]
    <3>1. CASE Cancellable(p)
      BY <2>4, <3>1
    <3>2. CASE ~Cancellable(p)
      <4>1. MinAge > 0 /\ ~ (now - tracked[p] >= MinAge)
        BY <3>2 DEF Cancellable
      <4>2. now - tracked[o] >= MinAge
        BY <2>4, <4>1 DEF Cancellable
      <4>3. QED
        BY <2>4, <2>5, <4>1, <4>2, Numbers, ConfigAssumption DEF Queued
    <3>3. QED
      BY <3>1, <3>2
  <2>7. server[o].updated = tracked[o] /\ server[p].updated = tracked[p]
    BY <2>4 DEF QueueInv, UpdateTime
  <2>8. QED
    BY <2>6, <2>7
<1>2. QED
  BY <1>1, QueueAlways, PollerTypeCorrect, PTL DEF Spec, OldestCancelledFirst
-----------------------------------------------------------------------------
(* The Canceller.                                                          *)

\* A step of a loop leaves the others alone.
LEMMA LoopTouches ==
    ASSUME TypeOK, NEW l \in Loops, Loop(l)
    PROVE  \A k \in Loops \ {l} : /\ pc'[k] = pc[k] /\ target'[k] = target[k]
                                  /\ todo'[k] = todo[k] /\ batch'[k] = batch[k]
<1>1. CASE CheckState(l) \/ Select(l) \/ Ask(l) \/ PollFails(l) \/ LockState(l)
  BY <1>1 DEF CheckState, Select, Ask, PollFails, LockState, Goto, TypeOK
<1>2. CASE Respond(l)
  BY <1>2 DEF Respond, Reply, Goto, TypeOK
<1>3. CASE Apply(l)
  BY <1>3 DEF Apply, Goto, TypeOK
<1>4. CASE CheckTimeout(l) \/ CheckCount(l) \/ LockQueue(l)
  BY <1>4 DEF CheckTimeout, BeginCancel, CheckCount, EndPoll, LockQueue, Goto, TypeOK
<1>5. CASE Peek(l)
  BY <1>5 DEF Peek, EndPoll, BeginCancel, Goto, TypeOK
<1>6. CASE CancelReturns(l)
  BY <1>6 DEF CancelReturns, EndPoll, Goto, TypeOK
<1>7. QED
  BY <1>1, <1>2, <1>3, <1>4, <1>5, <1>6 DEF Loop

\* The part of CancelInv about loop l.
CancelPart(l) ==
    /\ pc[l] \in {"callTimeout", "callCount"} => \E o \in Sent : target[l] = {o}
    /\ pc[l] \notin {"callTimeout", "callCount"} => target[l] = {}
    /\ pc[l] \notin {"timeouts", "callTimeout"} => todo[l] = {}
    /\ \A o \in todo[l] : batch[l][o].status = "Active"

\* Loop l begins the cancellation of o, which nobody is cancelling.
LEMMA BeginOwned ==
    ASSUME TypeOK, CancellationsOwned, NEW l \in Loops, NEW o \in Sent, target[l] = {},
           o \notin cancelling, cancelling' = cancelling \cup {o}, target'[l] = {o},
           \A k \in Loops \ {l} : target'[k] = target[k]
    PROVE  CancellationsOwned'
<1>1. cancelling' = UNION {target'[k] : k \in Loops}
  <2>1. \A k \in Loops : target'[k] = IF k = l THEN {o} ELSE target[k]
    OBVIOUS
  <2>2. QED
    BY <2>1 DEF CancellationsOwned
<1>2. \A k \in Loops \ {l} : o \notin target[k]
  BY DEF CancellationsOwned
<1>3. QED
  BY <1>1, <1>2 DEF CancellationsOwned

\* Loop l ends its cancellation.
LEMMA EndOwned ==
    ASSUME TypeOK, CancellationsOwned, NEW l \in Loops, NEW o \in Sent, target[l] = {o},
           cancelling' = cancelling \ {o}, target'[l] = {},
           \A k \in Loops \ {l} : target'[k] = target[k]
    PROVE  CancellationsOwned'
<1>1. \A k \in Loops \ {l} : o \notin target[k]
  BY DEF CancellationsOwned
<1>2. cancelling' = UNION {target'[k] : k \in Loops}
  <2>1. \A k \in Loops : target'[k] = IF k = l THEN {} ELSE target[k]
    OBVIOUS
  <2>2. QED
    BY <1>1, <2>1 DEF CancellationsOwned
<1>3. QED
  BY <1>1, <1>2 DEF CancellationsOwned

LEMMA CancelLoopStep ==
    ASSUME TypeOK, CancelInv, NEW l \in Loops, Loop(l)
    PROVE  CancelInv'
<1>0. CancelPart(l) /\ CancellationsOwned
  BY DEF CancelInv, CancelPart
<1>1. ASSUME CancelPart(l)', CancellationsOwned' PROVE CancelInv'
  BY <1>1, LoopTouches DEF CancelInv, CancelPart
<1>2. ASSUME UNCHANGED <<cancelling, target>>, CancelPart(l)' PROVE CancelInv'
  BY <1>0, <1>1, <1>2 DEF CancellationsOwned
<1>3. CASE CheckState(l) \/ Select(l) \/ Ask(l) \/ PollFails(l) \/ LockState(l)
  <2>1. /\ UNCHANGED <<cancelling, target, todo, batch>>
        /\ pc[l] \notin {"timeouts", "callTimeout", "callCount"}
        /\ pc'[l] \notin {"timeouts", "callTimeout", "callCount"}
    BY <1>3 DEF CheckState, Select, Ask, PollFails, LockState, Goto, TypeOK, heapVars
  <2>2. QED
    BY <1>0, <1>2, <2>1 DEF CancelPart
<1>4. CASE Respond(l)
  <2>1. /\ UNCHANGED <<cancelling, target, todo>> /\ pc[l] = "fetch" /\ pc'[l] = "answer"
    BY <1>4 DEF Respond, Reply, Goto, TypeOK, heapVars
  <2>2. QED
    BY <1>0, <1>2, <2>1 DEF CancelPart
<1>5. CASE Apply(l)
  <2>1. UNCHANGED <<cancelling, target>> /\ pc[l] = "locked"
    BY <1>5 DEF Apply
  <2>2. CASE pc'[l] = "top" /\ UNCHANGED todo
    BY <1>0, <1>2, <2>1, <2>2 DEF CancelPart
  <2>3. CASE /\ pc'[l] = "timeouts" /\ UNCHANGED batch
             /\ todo' = [todo EXCEPT ![l] = {o \in Sent : batch[l][o].status = "Active"}]
    <3>1. todo'[l] = {o \in Sent : batch[l][o].status = "Active"}
      BY <2>3 DEF TypeOK
    <3>2. QED
      BY <1>0, <1>2, <2>1, <2>3, <3>1 DEF CancelPart
  <2>4. QED
    BY <1>5, <2>2, <2>3 DEF Apply, Goto, TypeOK
<1>6. CASE CheckTimeout(l)
  <2>1. PICK o \in todo[l] :
          /\ todo' = [todo EXCEPT ![l] = @ \ {o}]
          /\ \/ o \notin cancelling /\ BeginCancel(l, o, "callTimeout")
             \/ UNCHANGED <<cancelling, target, pc>>
    BY <1>6 DEF CheckTimeout
  <2>2. /\ todo'[l] = todo[l] \ {o} /\ UNCHANGED batch /\ pc[l] = "timeouts"
        /\ o \in Sent /\ target[l] = {}
    BY <1>0, <1>6, <2>1 DEF CheckTimeout, TypeOK, CancelPart
  <2>3. CASE o \notin cancelling /\ BeginCancel(l, o, "callTimeout")
    <3>1. pc'[l] = "callTimeout" /\ target'[l] = {o} /\ cancelling' = cancelling \cup {o}
      BY <2>3 DEF BeginCancel, Goto, TypeOK
    <3>2. CancellationsOwned'
      BY <1>0, <2>2, <2>3, <3>1, BeginOwned, LoopTouches
    <3>3. QED
      BY <1>0, <1>1, <2>2, <3>1, <3>2 DEF CancelPart
  <2>4. CASE UNCHANGED <<cancelling, target, pc>>
    BY <1>0, <1>2, <2>2, <2>4 DEF CancelPart
  <2>5. QED
    BY <2>1, <2>3, <2>4
<1>7. CASE CheckCount(l) \/ LockQueue(l)
  <2>1. /\ UNCHANGED <<cancelling, target, todo>> /\ todo[l] = {}
        /\ pc[l] \in {"timeouts", "count"} /\ pc'[l] \in {"top", "count", "peek"}
    BY <1>0, <1>7 DEF CheckCount, EndPoll, LockQueue, Goto, TypeOK, heapVars, CancelPart
  <2>2. QED
    BY <1>0, <1>2, <2>1 DEF CancelPart
<1>8. CASE Peek(l)
  <2>1. UNCHANGED todo /\ pc[l] = "peek" /\ todo[l] = {} /\ target[l] = {}
    BY <1>0, <1>8 DEF Peek, CancelPart
  <2>2. CASE EndPoll(l) /\ UNCHANGED <<cancelling, target>>
    <3>1. pc'[l] = "top"
      BY <2>2 DEF EndPoll, Goto, TypeOK
    <3>2. QED
      BY <1>2, <2>1, <2>2, <3>1 DEF CancelPart
  <2>3. CASE \E o \in Sent : o \notin cancelling /\ BeginCancel(l, o, "callCount")
    <3>1. PICK o \in Sent : o \notin cancelling /\ BeginCancel(l, o, "callCount")
      BY <2>3
    <3>2. pc'[l] = "callCount" /\ target'[l] = {o} /\ cancelling' = cancelling \cup {o}
      BY <3>1 DEF BeginCancel, Goto, TypeOK
    <3>3. CancellationsOwned'
      BY <1>0, <2>1, <3>1, <3>2, BeginOwned, LoopTouches
    <3>4. QED
      BY <1>1, <2>1, <3>2, <3>3 DEF CancelPart
  <2>4. QED
    BY <1>8, <2>2, <2>3 DEF Peek, Top, Queued
<1>9. CASE CancelReturns(l)
  <2>1. PICK o \in Sent : target[l] = {o}
    BY <1>0, <1>9 DEF CancelReturns, CancelPart
  <2>2. cancelling' = cancelling \ {o} /\ target'[l] = {} /\ UNCHANGED todo
    BY <1>9, <2>1 DEF CancelReturns, TypeOK
  <2>3. CancellationsOwned'
    BY <1>0, <2>1, <2>2, EndOwned, LoopTouches
  <2>4. \/ pc'[l] = "timeouts" /\ UNCHANGED batch
        \/ pc[l] = "callCount" /\ pc'[l] = "top"
    BY <1>9 DEF CancelReturns, EndPoll, Goto, TypeOK
  <2>5. QED
    BY <1>0, <1>1, <2>2, <2>3, <2>4 DEF CancelPart
<1>10. QED
  BY <1>3, <1>4, <1>5, <1>6, <1>7, <1>8, <1>9 DEF Loop

LEMMA CancelAlways == Spec => []CancelInv
<1>1. Init => CancelInv
  BY DEF Init, CancelInv, CancellationsOwned
<1>2. TypeOK /\ CancelInv /\ [Next]_vars => CancelInv'
  <2> SUFFICES ASSUME TypeOK, CancelInv, [Next]_vars PROVE CancelInv'
    OBVIOUS
  <2>1. ASSUME NEW l \in Loops, StartPolling(l) PROVE CancelInv'
    <3>1. /\ UNCHANGED <<cancelling, target, todo, batch>>
          /\ pc[l] = "unborn" /\ pc' = [pc EXCEPT ![l] = "top"]
      BY <2>1 DEF StartPolling, Goto, heapVars
    <3>2. QED
      BY <3>1 DEF CancelInv, CancellationsOwned, TypeOK
  <2>2. CASE Restart
    BY <2>2 DEF Restart, CancelInv, CancellationsOwned
  <2>3. CASE \/ StopPolling \/ Close \/ TriggerPoll \/ Tick \/ Save
             \/ \E o \in Offers : ServerStep(o)
             \/ UNCHANGED vars
    <3>1. UNCHANGED <<cancelling, pc, target, todo, batch>>
      BY <2>3 DEF StopPolling, Close, TriggerPoll, Tick, Save, ServerStep, vars, loopVars,
                  heapVars
    <3>2. QED
      BY <3>1 DEF CancelInv, CancellationsOwned
  <2>4. QED
    BY <2>1, <2>2, <2>3, CancelLoopStep DEF Next, Control, Environment
<1>3. QED
  BY <1>1, <1>2, PollerTypeCorrect, PTL DEF Spec

\* Overlapping polls cancel an offer one at a time, and leave no mark behind.
THEOREM OneCancellation == Spec => []CancellationsOwned
<1>1. CancelInv => CancellationsOwned
  BY DEF CancelInv
<1>2. QED
  BY <1>1, CancelAlways, PTL

\* No offer that is active is cancelled for its age before its time.
THEOREM TimeoutsInTime == Spec => TimeoutsAreOld
<1> DEFINE Old == \A l \in Loops : pc[l] = "timeouts" /\ pc'[l] = "callTimeout" =>
          \A o \in target'[l] :
              server[o].status = "Active" => now - server[o].updated >= CancelTime
<1>1. TypeOK /\ QueueInv /\ CancelInv /\ [Next]_vars => Old
  <2> SUFFICES ASSUME TypeOK, QueueInv, CancelInv, [Next]_vars,
                      NEW l \in Loops, pc[l] = "timeouts", pc'[l] = "callTimeout",
                      NEW o \in target'[l], server[o].status = "Active"
               PROVE  now - server[o].updated >= CancelTime
    OBVIOUS
  <2>1. CheckTimeout(l)
    <3>1. ASSUME NEW k \in Loops, Loop(k) PROVE k = l /\ CheckTimeout(l)
      <4>1. k = l
        BY <3>1, LoopTouches
      <4>2. QED
        BY <3>1, <4>1 DEF Loop, CheckState, Select, Ask, PollFails, Respond, Reply, LockState,
                          Apply, CheckCount, EndPoll, LockQueue, Peek, CancelReturns, Goto, TypeOK
    <3>2. ~Control
      BY DEF Control, StartPolling, StopPolling, Close, TriggerPoll, Goto, loopVars, TypeOK
    <3>3. ~Environment
      BY DEF Environment, Tick, ServerStep, Save, Restart, loopVars
    <3>4. CASE UNCHANGED vars
      BY <3>4 DEF vars, loopVars
    <3>5. QED
      BY <3>1, <3>2, <3>3, <3>4 DEF Next
  <2>2. PICK p \in todo[l] : /\ now - batch[l][p].updated >= CancelTime
                             /\ BeginCancel(l, p, "callTimeout")
    BY <2>1 DEF CheckTimeout
  <2>3. o = p /\ o \in Offers
    BY <2>2, SentAssumption DEF BeginCancel, TypeOK
  <2>4. batch[l][o].status = "Active"
    BY <2>2, <2>3 DEF CancelInv
  <2>5. server[o].updated = batch[l][o].updated
    BY <2>3, <2>4 DEF QueueInv, UpdateTime
  <2>6. QED
    BY <2>2, <2>3, <2>5
<1>2. QED
  BY <1>1, QueueAlways, CancelAlways, PollerTypeCorrect, PTL DEF Spec, TimeoutsAreOld
=============================================================================
