------------------------------- MODULE Heartbeat -------------------------------
(***************************************************************************)
(* The heartbeats of pkg/steam/socket: StartHeartbeat, which the login     *)
(* calls after each successful logon, the loops it leaves behind, and      *)
(* Socket.Close.  The connector (foundation/silicon) is the environment:   *)
(* it dials, loses and replaces connections, and a link may stall without  *)
(* anybody being told, until sends on it time out.                         *)
(***************************************************************************)
EXTENDS Naturals

CONSTANTS
    Starts,       \* calls of StartHeartbeat, and the loops they spawn
    MaxFailures,  \* Config.MaxHeartbeatFailures
    MaxConns      \* bound: connections the connector makes

NoStart == "none"

ASSUME StartsAssumption == NoStart \notin Starts
ASSUME LimitsAssumption == MaxFailures \in Nat \ {0} /\ MaxConns \in Nat

VARIABLES
    closing,    \* how far Close is: "open", "flagged", "cancelled", "closed"
    hb,         \* Socket.heartbeatCancel: the call whose context it cancels
    cancelled,  \* calls whose context is cancelled
    pc,         \* pc[s]: where the call s is
    loop,       \* loop[s]: where the goroutine of s is
    fails,      \* fails[s]: its consecutiveFailures
    on,         \* on[s]: the connection its last send went to
    conn,       \* the active connection, 0 for none
    stalled,    \* sends on conn are not answered and will time out
    made        \* connections made

connVars == <<conn, stalled, made>>
loopVars == <<loop, fails, on>>
vars == <<closing, hb, cancelled, pc, loopVars, connVars>>

Conns == 1 .. MaxConns

TypeOK ==
    /\ closing \in {"open", "flagged", "cancelled", "closed"}
    /\ hb \in Starts \cup {NoStart} /\ cancelled \subseteq Starts
    /\ pc \in [Starts -> {"new", "checked", "spawn", "ok", "refused"}]
    /\ loop \in [Starts -> {"none", "first", "wait", "send", "sending", "drop", "stopped", "dropped"}]
    /\ fails \in [Starts -> 0 .. MaxFailures]
    /\ \A s \in Starts : fails[s] = MaxFailures <=> loop[s] \in {"drop", "dropped"}
    /\ on \in [Starts -> Conns \cup {0}]
    /\ made \in Conns \cup {0} /\ conn \in {0, made} /\ stalled \in BOOLEAN
    /\ stalled => conn # 0

Init ==
    /\ closing = "open" /\ hb = NoStart /\ cancelled = {}
    /\ pc = [s \in Starts |-> "new"] /\ loop = [s \in Starts |-> "none"]
    /\ fails = [s \in Starts |-> 0] /\ on = [s \in Starts |-> 0]
    /\ conn = 0 /\ stalled = FALSE /\ made = 0

Closed == closing # "open"
IsConnected == conn # 0 /\ ~ Closed

Goto(s, l) == pc' = [pc EXCEPT ![s] = l]
Move(s, l) == loop' = [loop EXCEPT ![s] = l]

-----------------------------------------------------------------------------
(* StartHeartbeat.                                                         *)

CheckClosed(s) ==
    /\ pc[s] = "new"
    /\ Goto(s, IF Closed THEN "refused" ELSE "checked")
    /\ UNCHANGED <<closing, hb, cancelled, loopVars, connVars>>

\* Mutant: the heartbeat that runs is not cancelled.
InstallAnother(s) ==
    /\ pc[s] = "checked"
    /\ hb' = s
    /\ Goto(s, "spawn")
    /\ UNCHANGED <<closing, cancelled, loopVars, connVars>>

\* Under s.mu: the previous heartbeat is cancelled, this one takes its place.
Install(s) ==
    /\ pc[s] = "checked"
    /\ cancelled' = cancelled \cup ({hb} \ {NoStart})
    /\ hb' = s
    /\ Goto(s, "spawn")
    /\ UNCHANGED <<closing, loopVars, connVars>>

Spawn(s) ==
    /\ pc[s] = "spawn"
    /\ Goto(s, "ok") /\ Move(s, "first")
    /\ UNCHANGED <<closing, hb, cancelled, fails, on, connVars>>

-----------------------------------------------------------------------------
(* The loop.  Its select may take the tick although its context has ended. *)

First(s) ==
    /\ loop[s] = "first"
    /\ Move(s, IF IsConnected THEN "send" ELSE "wait")
    /\ UNCHANGED <<closing, hb, cancelled, pc, fails, on, connVars>>

\* Mutant: a tick without a connection ends the loop.
TickReturning(s) ==
    /\ loop[s] = "wait"
    /\ Move(s, IF IsConnected THEN "send" ELSE "stopped")
    /\ UNCHANGED <<closing, hb, cancelled, pc, fails, on, connVars>>

\* A tick without a connection does nothing.
Tick(s) ==
    /\ loop[s] = "wait" /\ IsConnected
    /\ Move(s, "send")
    /\ UNCHANGED <<closing, hb, cancelled, pc, fails, on, connVars>>

\* Mutant: the context is looked at only in a tick without a connection.
StopDisconnected(s) ==
    /\ loop[s] = "wait" /\ s \in cancelled /\ ~ IsConnected
    /\ Move(s, "stopped")
    /\ UNCHANGED <<closing, hb, cancelled, pc, fails, on, connVars>>

Stop(s) ==
    /\ loop[s] = "wait" /\ s \in cancelled
    /\ Move(s, "stopped")
    /\ UNCHANGED <<closing, hb, cancelled, pc, fails, on, connVars>>

\* Mutant: the counter is a variable of the send.
FailForgetful(s) ==
    /\ fails' = [fails EXCEPT ![s] = 1]
    /\ Move(s, IF 1 >= MaxFailures THEN "drop" ELSE "wait")

\* handleFailure: count, and at the threshold terminate the transport.
Fail(s) ==
    /\ fails' = [fails EXCEPT ![s] = @ + 1]
    /\ Move(s, IF fails[s] + 1 >= MaxFailures THEN "drop" ELSE "wait")

\* Socket.Send refuses a closed socket, the connector one without connection.
SendRefused(s) ==
    /\ loop[s] = "send" /\ ~ IsConnected
    /\ Fail(s)
    /\ UNCHANGED <<closing, hb, cancelled, pc, on, connVars>>

SendBegins(s) ==
    /\ loop[s] = "send" /\ IsConnected
    /\ Move(s, "sending")
    /\ on' = [on EXCEPT ![s] = conn]
    /\ UNCHANGED <<closing, hb, cancelled, pc, fails, connVars>>

SendSucceeds(s) ==
    /\ loop[s] = "sending" /\ conn = on[s] /\ ~ stalled
    /\ fails' = [fails EXCEPT ![s] = 0]
    /\ Move(s, "wait")
    /\ UNCHANGED <<closing, hb, cancelled, pc, on, connVars>>

\* An error, the timeout of the send, or the end of the loop's context.
SendFails(s) ==
    /\ loop[s] = "sending"
    /\ Fail(s)
    /\ UNCHANGED <<closing, hb, cancelled, pc, on, connVars>>

\* Disconnect takes down the connection of this moment, whichever it is.
\* TriggerReconnect asks the connector for a new one.
Terminate(s) ==
    /\ loop[s] = "drop"
    /\ Move(s, "dropped")
    /\ conn' = 0 /\ stalled' = FALSE
    /\ UNCHANGED <<closing, hb, cancelled, pc, fails, on, made>>

-----------------------------------------------------------------------------
(* Close.                                                                  *)

SetClosed ==
    /\ closing = "open"
    /\ closing' = "flagged"
    /\ UNCHANGED <<hb, cancelled, pc, loopVars, connVars>>

\* Mutant: Close forgets the heartbeat.
CancelNothing ==
    /\ closing = "flagged"
    /\ closing' = "cancelled"
    /\ UNCHANGED <<hb, cancelled, pc, loopVars, connVars>>

CancelHeartbeat ==
    /\ closing = "flagged"
    /\ closing' = "cancelled"
    /\ cancelled' = cancelled \cup ({hb} \ {NoStart})
    /\ UNCHANGED <<hb, pc, loopVars, connVars>>

CloseConn ==
    /\ closing = "cancelled"
    /\ closing' = "closed"
    /\ conn' = 0 /\ stalled' = FALSE
    /\ UNCHANGED <<hb, cancelled, pc, loopVars, made>>

-----------------------------------------------------------------------------
(* The connector.                                                          *)

Dial ==
    /\ conn = 0 /\ closing # "closed" /\ made < MaxConns
    /\ made' = made + 1 /\ conn' = made + 1
    /\ UNCHANGED <<closing, hb, cancelled, pc, loopVars, stalled>>

\* The transport sees an error, or Socket.Disconnect is called.
Lose ==
    /\ conn # 0
    /\ conn' = 0 /\ stalled' = FALSE
    /\ UNCHANGED <<closing, hb, cancelled, pc, loopVars, made>>

Stall ==
    /\ conn # 0 /\ ~ stalled
    /\ stalled' = TRUE
    /\ UNCHANGED <<closing, hb, cancelled, pc, loopVars, conn, made>>

-----------------------------------------------------------------------------
StartHeartbeat(s) == CheckClosed(s) \/ Install(s) \/ Spawn(s)
Beat(s) == First(s) \/ Tick(s) \/ SendRefused(s) \/ SendBegins(s) \/ SendSucceeds(s) \/ SendFails(s)
Loop(s) == Beat(s) \/ Stop(s) \/ Terminate(s)
Close == SetClosed \/ CancelHeartbeat \/ CloseConn
Connector == Dial \/ Lose \/ Stall

Next ==
    \/ \E s \in Starts : StartHeartbeat(s) \/ Loop(s)
    \/ Close
    \/ Connector

Spec == Init /\ [][Next]_vars

\* Goroutines are scheduled, tickers fire, and sendTimeout ends every send.  A
\* select that may always take Done takes it in the end.  Nobody has to call
\* Close or StartHeartbeat, and the connector promises nothing.
FairSpec ==
    /\ Spec
    /\ \A s \in Starts :
          /\ WF_vars(Install(s) \/ Spawn(s))
          /\ WF_vars(Loop(s))
          /\ SF_vars(Stop(s))
    /\ WF_vars(CancelHeartbeat \/ CloseConn)

-----------------------------------------------------------------------------
Installed(s) == pc[s] \in {"spawn", "ok"}
Over(s) == loop[s] \in {"stopped", "dropped"}

(* At most one heartbeat is live, and it is the one heartbeatCancel reaches:
   whatever calls of StartHeartbeat and Close overlap, no other loop is left
   that nothing can stop (socket.go:428-435 and 536-541).                   *)
LiveIsReachable == \A s \in Starts : Installed(s) /\ s \notin cancelled => hb = s

(* A heartbeat that Close did not cancel comes from a StartHeartbeat that
   had not yet stored its cancel function when Close read it, and such a call
   had passed its check before closed was set: no connection is ever touched
   by its sends, since it was spawned on a closed socket.                   *)
LeftoverIsHarmless ==
    \A s \in Starts :
        closing \in {"cancelled", "closed"} /\ Installed(s) /\ s \notin cancelled
            => loop[s] \in {"none", "first", "wait"} /\ on[s] = 0

(* A link that has stalled under a live heartbeat is dropped in the end,
   unless another StartHeartbeat or Close takes over: failures add up to the
   threshold although each send has a timeout of its own
   (docs/PARITY.md:24, "preventing hung sockets").                           *)
StallIsNoticed ==
    \A s \in Starts, c \in Conns :
        (conn = c /\ stalled /\ loop[s] # "none" /\ ~ Over(s)) ~>
            (conn # c \/ s \in cancelled \/ Closed)

(* The stored heartbeat outlives the connections: until it has terminated one
   itself, it sends on every connection that stays.                         *)
HeartbeatsGoOn ==
    \A s \in Starts, c \in Conns :
        (hb = s /\ pc[s] = "ok" /\ conn = c) ~>
            (on[s] = c \/ loop[s] = "dropped" \/ conn # c \/ s \in cancelled \/ Closed)

(* A heartbeat that is cancelled ends: it may still count its last send, and
   even terminate a connection, but no goroutine is left.                   *)
CancelledEnds == \A s \in Starts : (s \in cancelled /\ pc[s] = "ok") ~> Over(s)
=============================================================================
