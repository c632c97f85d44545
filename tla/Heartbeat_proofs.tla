--------------------------- MODULE Heartbeat_proofs ---------------------------
(***************************************************************************)
(* Theorems about Heartbeat, for any number of StartHeartbeat calls, any   *)
(* threshold and any number of connections: types, one reachable live      *)
(* heartbeat, and harmless ones after Close.                               *)
(***************************************************************************)
EXTENDS Heartbeat, TLAPS

\* A call that has not spawned its goroutine has sent nothing.
Fresh == \A s \in Starts :
    pc[s] # "ok" => loop[s] = "none" /\ fails[s] = 0 /\ on[s] = 0

BeatInv == TypeOK /\ Fresh /\ LiveIsReachable /\ LeftoverIsHarmless

USE DEF Goto, Move, connVars, loopVars

-----------------------------------------------------------------------------
(* Types.                                                                  *)

\* A failure is counted up to the threshold, which only a dropped loop reaches.
LEMMA FailStep ==
    ASSUME TypeOK, NEW s \in Starts, loop[s] \in {"send", "sending"}, Fail(s)
    PROVE  /\ fails' \in [Starts -> 0 .. MaxFailures]
           /\ loop' \in [Starts -> {"none", "first", "wait", "send", "sending", "drop", "stopped", "dropped"}]
           /\ \A t \in Starts : fails'[t] = MaxFailures <=> loop'[t] \in {"drop", "dropped"}
<1>1. fails[s] \in 0 .. MaxFailures /\ fails[s] # MaxFailures
  BY DEF TypeOK
<1>2. fails' = [fails EXCEPT ![s] = fails[s] + 1] /\ fails[s] + 1 \in 0 .. MaxFailures
  BY <1>1, LimitsAssumption DEF Fail
<1>3. fails' \in [Starts -> 0 .. MaxFailures]
  BY <1>2 DEF TypeOK
<1>4. loop' = [loop EXCEPT ![s] = IF fails[s] + 1 >= MaxFailures THEN "drop" ELSE "wait"]
  BY DEF Fail
<1>5. fails[s] + 1 >= MaxFailures <=> fails[s] + 1 = MaxFailures
  BY <1>1, LimitsAssumption
<1>6. \A t \in Starts : fails'[t] = MaxFailures <=> loop'[t] \in {"drop", "dropped"}
  <2> SUFFICES ASSUME NEW t \in Starts PROVE fails'[t] = MaxFailures <=> loop'[t] \in {"drop", "dropped"}
    OBVIOUS
  <2>1. CASE t = s
    BY <2>1, <1>2, <1>4, <1>5 DEF TypeOK
  <2>2. CASE t # s
    BY <2>2, <1>2, <1>4 DEF TypeOK
  <2>3. QED
    BY <2>1, <2>2
<1>7. QED
  BY <1>3, <1>4, <1>6 DEF TypeOK

LEMMA TypeStep == TypeOK /\ Fresh /\ [Next]_vars => TypeOK'
<1> SUFFICES ASSUME TypeOK, Fresh, [Next]_vars PROVE TypeOK'
  OBVIOUS
<1> USE StartsAssumption, LimitsAssumption
<1>1. ASSUME NEW s \in Starts, CheckClosed(s) \/ Install(s) PROVE TypeOK'
  BY <1>1 DEF CheckClosed, Install, TypeOK
<1>2. ASSUME NEW s \in Starts, Spawn(s) PROVE TypeOK'
  <2>1. fails[s] # MaxFailures
    BY <1>2 DEF Spawn, Fresh
  <2>2. QED
    BY <1>2, <2>1 DEF Spawn, TypeOK
<1>3. ASSUME NEW s \in Starts, First(s) \/ Tick(s) \/ Stop(s) PROVE TypeOK'
  BY <1>3 DEF First, Tick, Stop, TypeOK
<1>4. ASSUME NEW s \in Starts, SendRefused(s) \/ SendFails(s) PROVE TypeOK'
  BY <1>4, FailStep DEF SendRefused, SendFails, TypeOK
<1>5. ASSUME NEW s \in Starts, SendBegins(s) PROVE TypeOK'
  BY <1>5 DEF SendBegins, IsConnected, TypeOK
<1>6. ASSUME NEW s \in Starts, SendSucceeds(s) PROVE TypeOK'
  BY <1>6 DEF SendSucceeds, TypeOK
<1>7. ASSUME NEW s \in Starts, Terminate(s) PROVE TypeOK'
  BY <1>7 DEF Terminate, TypeOK
<1>8. ASSUME Close PROVE TypeOK'
  <2>1. CASE SetClosed
    BY <2>1 DEF SetClosed, TypeOK
  <2>2. CASE CancelHeartbeat
    BY <2>2 DEF CancelHeartbeat, TypeOK
  <2>3. CASE CloseConn
    BY <2>3 DEF CloseConn, TypeOK
  <2>4. QED
    BY <1>8, <2>1, <2>2, <2>3 DEF Close
<1>9. ASSUME Dial PROVE TypeOK'
  BY <1>9 DEF Dial, Conns, TypeOK
<1>10. ASSUME Lose \/ Stall PROVE TypeOK'
  BY <1>10 DEF Lose, Stall, TypeOK
<1>11. CASE UNCHANGED vars
  BY <1>11 DEF vars, TypeOK
<1>12. QED
  BY <1>1, <1>2, <1>3, <1>4, <1>5, <1>6, <1>7, <1>8, <1>9, <1>10, <1>11
  DEF Next, StartHeartbeat, Loop, Beat, Connector

LEMMA FreshStep == TypeOK /\ Fresh /\ [Next]_vars => Fresh'
<1> SUFFICES ASSUME TypeOK, Fresh, [Next]_vars PROVE Fresh'
  OBVIOUS
<1>1. ASSUME NEW s \in Starts, StartHeartbeat(s) PROVE Fresh'
  BY <1>1 DEF StartHeartbeat, CheckClosed, Install, Spawn, Fresh, TypeOK
<1>2. ASSUME NEW s \in Starts, Loop(s) PROVE Fresh'
  <2>1. loop[s] # "none" /\ UNCHANGED pc
    BY <1>2 DEF Loop, Beat, First, Tick, SendRefused, SendBegins, SendSucceeds, SendFails, Stop, Terminate
  <2>2. \A t \in Starts \ {s} : loop'[t] = loop[t] /\ fails'[t] = fails[t] /\ on'[t] = on[t]
    BY <1>2 DEF Loop, Beat, First, Tick, SendRefused, SendBegins, SendSucceeds, SendFails, Stop,
                Terminate, Fail, TypeOK
  <2>3. QED
    BY <2>1, <2>2 DEF Fresh
<1>3. ASSUME Close \/ Connector PROVE Fresh'
  BY <1>3 DEF Close, SetClosed, CancelHeartbeat, CloseConn, Connector, Dial, Lose, Stall, Fresh
<1>4. CASE UNCHANGED vars
  BY <1>4 DEF vars, Fresh
<1>5. QED
  BY <1>1, <1>2, <1>3, <1>4 DEF Next

-----------------------------------------------------------------------------
(* The heartbeats that were not cancelled.                                 *)

LEMMA ReachableStep == TypeOK /\ LiveIsReachable /\ [Next]_vars => LiveIsReachable'
<1> SUFFICES ASSUME TypeOK, LiveIsReachable, [Next]_vars PROVE LiveIsReachable'
  OBVIOUS
<1> USE StartsAssumption DEF LiveIsReachable, Installed
<1>1. ASSUME NEW s \in Starts, CheckClosed(s) \/ Spawn(s) PROVE LiveIsReachable'
  BY <1>1 DEF CheckClosed, Spawn, TypeOK
\* The one that was live until now is cancelled.
<1>2. ASSUME NEW s \in Starts, Install(s) PROVE LiveIsReachable'
  <2>1. \A t \in Starts : Installed(t) => t \in cancelled'
    BY <1>2 DEF Install
  <2>2. QED
    BY <1>2, <2>1 DEF Install, TypeOK
<1>3. ASSUME NEW s \in Starts, Loop(s) PROVE LiveIsReachable'
  BY <1>3 DEF Loop, Beat, First, Tick, SendRefused, SendBegins, SendSucceeds, SendFails, Stop, Terminate
<1>4. ASSUME Close \/ Connector PROVE LiveIsReachable'
  BY <1>4 DEF Close, SetClosed, CancelHeartbeat, CloseConn, Connector, Dial, Lose, Stall
<1>5. CASE UNCHANGED vars
  BY <1>5 DEF vars
<1>6. QED
  BY <1>1, <1>2, <1>3, <1>4, <1>5 DEF Next, StartHeartbeat

LEMMA HarmlessStep == BeatInv /\ [Next]_vars => LeftoverIsHarmless'
<1> SUFFICES ASSUME BeatInv, [Next]_vars PROVE LeftoverIsHarmless'
  OBVIOUS
<1> USE StartsAssumption DEF BeatInv, LeftoverIsHarmless, Installed
<1>1. ASSUME NEW s \in Starts, StartHeartbeat(s) PROVE LeftoverIsHarmless'
  BY <1>1 DEF StartHeartbeat, CheckClosed, Install, Spawn, Fresh, TypeOK
\* A leftover finds no connection: the socket is closed.
<1>2. ASSUME NEW s \in Starts, Loop(s) PROVE LeftoverIsHarmless'
  <2>1. UNCHANGED <<closing, hb, cancelled, pc>>
    BY <1>2 DEF Loop, Beat, First, Tick, SendRefused, SendBegins, SendSucceeds, SendFails, Stop, Terminate
  <2>2. \A t \in Starts \ {s} : loop'[t] = loop[t] /\ on'[t] = on[t]
    BY <1>2 DEF Loop, Beat, First, Tick, SendRefused, SendBegins, SendSucceeds, SendFails, Stop,
                Terminate, Fail, TypeOK
  <2>3. ASSUME closing \in {"cancelled", "closed"}, Installed(s), s \notin cancelled
        PROVE  loop'[s] \in {"none", "first", "wait"} /\ on'[s] = 0
    <3>1. loop[s] \in {"first", "wait"} /\ ~ IsConnected
      BY <1>2, <2>3 DEF Loop, Beat, First, Tick, SendRefused, SendBegins, SendSucceeds, SendFails, Stop,
                        Terminate, IsConnected, Closed
    <3>2. First(s)
      BY <1>2, <2>3, <3>1 DEF Loop, Beat, Tick, SendRefused, SendBegins, SendSucceeds, SendFails, Stop,
                        Terminate
    <3>3. QED
      BY <2>3, <3>1, <3>2 DEF First, TypeOK
  <2>4. QED
    BY <2>1, <2>2, <2>3
\* Close cancels the one live heartbeat.
<1>3. ASSUME CancelHeartbeat PROVE LeftoverIsHarmless'
  <2>1. \A t \in Starts : Installed(t) => t \in cancelled'
    BY <1>3 DEF CancelHeartbeat, LiveIsReachable
  <2>2. QED
    BY <1>3, <2>1 DEF CancelHeartbeat
<1>4. ASSUME SetClosed \/ CloseConn \/ Connector PROVE LeftoverIsHarmless'
  BY <1>4 DEF SetClosed, CloseConn, Connector, Dial, Lose, Stall
<1>5. CASE UNCHANGED vars
  BY <1>5 DEF vars
<1>6. QED
  BY <1>1, <1>2, <1>3, <1>4, <1>5 DEF Next, Close

-----------------------------------------------------------------------------
LEMMA BeatInvHolds == Spec => []BeatInv
<1>1. Init => BeatInv
  <2> SUFFICES ASSUME Init PROVE BeatInv
    OBVIOUS
  <2>1. fails \in [Starts -> 0 .. MaxFailures] /\ \A s \in Starts : fails[s] # MaxFailures
    BY LimitsAssumption DEF Init
  <2>2. \A s \in Starts : loop[s] \notin {"drop", "dropped"}
    BY DEF Init
  <2>3. pc \in [Starts -> {"new", "checked", "spawn", "ok", "refused"}] /\ on \in [Starts -> Conns \cup {0}]
    BY DEF Init
  <2>4. loop \in [Starts -> {"none", "first", "wait", "send", "sending", "drop", "stopped", "dropped"}]
    BY DEF Init
  <2>5. TypeOK
    BY <2>1, <2>2, <2>3, <2>4 DEF Init, TypeOK
  <2>6. Fresh /\ LiveIsReachable /\ LeftoverIsHarmless
    BY DEF Init, Fresh, LiveIsReachable, LeftoverIsHarmless, Installed
  <2>7. QED
    BY <2>5, <2>6 DEF BeatInv
<1>2. BeatInv /\ [Next]_vars => BeatInv'
  BY TypeStep, FreshStep, ReachableStep, HarmlessStep DEF BeatInv
<1>3. QED
  BY <1>1, <1>2, PTL DEF Spec

\* Every variable keeps its type; the failure counter reaches the threshold only
\* in a loop that drops its connection and ends.
THEOREM HeartbeatTypeCorrect == Spec => []TypeOK
<1>1. BeatInv => TypeOK
  BY DEF BeatInv
<1>2. QED
  BY <1>1, BeatInvHolds, PTL

\* There is one live heartbeat at most, and heartbeatCancel reaches it.
THEOREM OneLiveHeartbeat == Spec => []LiveIsReachable
<1>1. BeatInv => LiveIsReachable
  BY DEF BeatInv
<1>2. QED
  BY <1>1, BeatInvHolds, PTL

\* What Close does not cancel never sends on any connection.
THEOREM NoSendAfterClose == Spec => []LeftoverIsHarmless
<1>1. BeatInv => LeftoverIsHarmless
  BY DEF BeatInv
<1>2. QED
  BY <1>1, BeatInvHolds, PTL
=============================================================================
