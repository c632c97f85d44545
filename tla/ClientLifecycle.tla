---------------------------- MODULE ClientLifecycle ----------------------------
(***************************************************************************)
(* pkg/steam/client with internal/client/modules and the refresh loop of   *)
(* internal/client/session: Run, RegisterModule, ConnectAndLogin,          *)
(* Reconnect and Close, called by goroutines that know nothing of each     *)
(* other.  Every step that another goroutine can observe is an action:     *)
(* a check of the client's state machine, its transition, the start or     *)
(* stop of one module, the spawning of a goroutine.                        *)
(***************************************************************************)
EXTENDS Naturals

CONSTANTS
    Modules,     \* modules given to New
    Late,        \* modules registered later, each by a goroutine of its own
    Runs,        \* calls of Client.Run
    Logins,      \* calls of ConnectAndLogin
    Reconnects,  \* calls of Client.Reconnect and of the connector's OnReconnect
    Closer       \* the first call of Client.Close, others wait for it (closeOnce)

Logons   == Logins \cup Reconnects
Threads  == Runs \cup Logons \cup Late \cup {Closer}
Loopers  == Runs \cup Logons     \* those that spawn StartRefreshLoop
None     == "none"

ASSUME ModulesAssumption == Modules \cap Late = {}
ASSUME ThreadsAssumption ==
    /\ Runs \cap Logons = {} /\ Runs \cap Late = {} /\ Logons \cap Late = {}
    /\ Logins \cap Reconnects = {} /\ Closer \notin Runs \cup Logons \cup Late
    /\ None \notin Threads /\ "done" \notin Threads

VARIABLES
    fsm,         \* the client's state machine
    registry,    \* modules of the manager
    inited,      \* modules that were initialised
    begun,       \* modules that were started
    authed,      \* modules whose StartAuthed was called
    active,      \* <<t, m>>: t started m, and m was not stopped since
    pc,          \* pc[t]: where t is
    todo,        \* todo[t]: modules the present sweep of t has not come to
    cancelled,   \* the client's context is cancelled
    sessClosed,  \* the session is closed and its context cancelled
    details,     \* Session.logonDetails are set
    once,        \* refreshLoopOnce: None, the goroutine inside, or "done"
    loop         \* loop[t]: the goroutine of StartRefreshLoop that t spawned

moduleVars == <<registry, inited, begun, authed, active>>
loopVars   == <<once, loop>>
ctxVars    == <<cancelled, sessClosed, details>>
vars == <<fsm, moduleVars, pc, todo, ctxVars, loopVars>>

States == {"new", "running", "authorized", "closed"}
PCs == {"new", "init", "starting", "start", "spawn", "transit", "logon", "authorize",
        "all", "authed", "check", "initLate", "startLate", "checkAuth", "authLate",
        "stop1", "event", "stopping", "stop2", "cancel", "wait", "session",
        "ok", "failed"}
Ended == {"ok", "failed"}
Sweeps == {"start", "authed", "event", "stopping", "failed"}
All == Modules \cup Late

TypeOK ==
    /\ fsm \in States
    /\ registry \subseteq All /\ inited \subseteq All /\ begun \subseteq All
    /\ authed \subseteq All /\ active \subseteq Threads \X All
    /\ pc \in [Threads -> PCs] /\ todo \in [Threads -> SUBSET All]
    /\ \A t \in Threads : todo[t] # {} => pc[t] \in Sweeps
    /\ cancelled \in BOOLEAN /\ sessClosed \in BOOLEAN /\ details \in BOOLEAN
    /\ once \in Loopers \cup {None, "done"}
    /\ loop \in [Loopers -> {"none", "ready", "looping", "ended"}]

Init ==
    /\ fsm = "new"
    /\ registry = Modules /\ inited = {} /\ begun = {} /\ authed = {} /\ active = {}
    /\ pc = [t \in Threads |-> "new"] /\ todo = [t \in Threads |-> {}]
    /\ cancelled = FALSE /\ sessClosed = FALSE /\ details = FALSE
    /\ once = None /\ loop = [t \in Loopers |-> "none"]

Goto(t, s) == pc' = [pc EXCEPT ![t] = s]
IsRunning == fsm \in {"running", "authorized"}

\* A sweep over the modules of S begins; t does the next of them.
Sweep(t, S) == todo' = [todo EXCEPT ![t] = S]
Next1(t, m) == m \in todo[t] /\ todo' = [todo EXCEPT ![t] = @ \ {m}]

-----------------------------------------------------------------------------
(* Run.                                                                    *)

\* Mutant: the transition precedes the modules.
CheckRunEarly(r) ==
    /\ pc[r] = "new"
    /\ Goto(r, IF IsRunning THEN "failed" ELSE "init")
    /\ fsm' = IF fsm = "new" THEN "running" ELSE fsm
    /\ UNCHANGED <<moduleVars, todo, ctxVars, loopVars>>

\* Run refuses a client that runs.  One that is closed is not running.
CheckRun(r) ==
    /\ pc[r] = "new"
    /\ Goto(r, IF IsRunning THEN "failed" ELSE "init")
    /\ UNCHANGED <<fsm, moduleVars, todo, ctxVars, loopVars>>

InitAll(r) ==
    /\ pc[r] = "init"
    /\ \/ Goto(r, "starting") /\ inited' = inited \cup registry
       \/ Goto(r, "failed") /\ UNCHANGED inited
    /\ UNCHANGED <<fsm, registry, begun, authed, active, todo, ctxVars, loopVars>>

StartAll(r) ==
    /\ pc[r] = "starting"
    /\ Goto(r, "start") /\ Sweep(r, registry)
    /\ UNCHANGED <<fsm, moduleVars, ctxVars, loopVars>>

\* The next module starts, or fails and ends StartAll and Run.
StartNext(r) ==
    /\ pc[r] = "start"
    /\ \E m \in All :
          /\ Next1(r, m)
          /\ \/ /\ active' = active \cup {<<r, m>>} /\ begun' = begun \cup {m}
                /\ UNCHANGED pc
             \/ Goto(r, "failed") /\ UNCHANGED <<active, begun>>
    /\ UNCHANGED <<fsm, registry, inited, authed, ctxVars, loopVars>>

\* The goroutine of the refresh loop, in the WaitGroup.
Spawn(r) ==
    /\ pc[r] = "start" /\ todo[r] = {}
    /\ Goto(r, "transit")
    /\ loop' = [loop EXCEPT ![r] = "ready"]
    /\ UNCHANGED <<fsm, moduleVars, todo, ctxVars, once>>

\* EventRun has a rule only in the state new.
Transit(r) ==
    /\ pc[r] = "transit"
    /\ IF fsm = "new"
       THEN fsm' = "running" /\ Goto(r, "ok")
       ELSE Goto(r, "failed") /\ UNCHANGED fsm
    /\ UNCHANGED <<moduleVars, todo, ctxVars, loopVars>>

-----------------------------------------------------------------------------
(* ConnectAndLogin and Reconnect.                                          *)

\* ConnectAndLogin wants a running client, a reconnect the details of an earlier
\* logon; both go on to Session.LogOn, which keeps the details.
Enter(t) ==
    /\ pc[t] = "new"
    /\ \/ t \in Logins /\ IsRunning
       \/ t \in Reconnects /\ details
    /\ details' = TRUE
    /\ Goto(t, "logon")
    /\ UNCHANGED <<fsm, moduleVars, todo, cancelled, sessClosed, loopVars>>

Refused(t) ==
    /\ pc[t] = "new"
    /\ \/ t \in Logins /\ ~IsRunning
       \/ t \in Reconnects /\ (fsm = "closed" \/ ~details)
    /\ Goto(t, "failed")
    /\ UNCHANGED <<fsm, moduleVars, todo, ctxVars, loopVars>>

\* Authentication and the first refresh; both fail on a closed session.
LogOn(t) ==
    /\ pc[t] = "logon"
    /\ \/ ~sessClosed /\ Goto(t, "spawn")
       \/ Goto(t, "failed")
    /\ UNCHANGED <<fsm, moduleVars, todo, ctxVars, loopVars>>

\* Every logon spawns StartRefreshLoop with the context of the session.
\* OnReconnect ends there, the client's calls go on to authorize.
SpawnLoop(t) ==
    /\ pc[t] = "spawn"
    /\ loop' = [loop EXCEPT ![t] = "ready"]
    /\ \/ Goto(t, "authorize")
       \/ t \in Reconnects /\ Goto(t, "ok")
    /\ UNCHANGED <<fsm, moduleVars, todo, ctxVars, once>>

\* EventAuthorize has a rule in the states running and authorized.
Authorize(t) ==
    /\ pc[t] = "authorize"
    /\ IF IsRunning
       THEN fsm' = "authorized" /\ Goto(t, IF t \in Logins THEN "all" ELSE "ok")
       ELSE Goto(t, "failed") /\ UNCHANGED fsm
    /\ UNCHANGED <<moduleVars, todo, ctxVars, loopVars>>

\* Mutant: only modules that were started are visited.
StartAuthedAllStarted(t) ==
    /\ pc[t] = "all"
    /\ Goto(t, "authed") /\ Sweep(t, registry \cap begun)
    /\ UNCHANGED <<fsm, moduleVars, ctxVars, loopVars>>

StartAuthedAll(t) ==
    /\ pc[t] = "all"
    /\ Goto(t, "authed") /\ Sweep(t, registry)
    /\ UNCHANGED <<fsm, moduleVars, ctxVars, loopVars>>

AuthNext(t) ==
    /\ pc[t] = "authed"
    /\ \E m \in All :
          /\ Next1(t, m)
          /\ authed' = authed \cup {m}
          /\ \/ UNCHANGED pc
             \/ Goto(t, "failed")
    /\ UNCHANGED <<fsm, registry, inited, begun, active, ctxVars, loopVars>>

AuthedAll(t) ==
    /\ pc[t] = "authed" /\ todo[t] = {}
    /\ Goto(t, "ok")
    /\ UNCHANGED <<fsm, moduleVars, todo, ctxVars, loopVars>>

-----------------------------------------------------------------------------
(* RegisterModule of d, in a goroutine that is called d as well.           *)

Add(d) ==
    /\ pc[d] = "new"
    /\ registry' = registry \cup {d}
    /\ Goto(d, "check")
    /\ UNCHANGED <<fsm, inited, begun, authed, active, todo, ctxVars, loopVars>>

CheckRunning(d) ==
    /\ pc[d] = "check"
    /\ Goto(d, IF IsRunning THEN "initLate" ELSE "checkAuth")
    /\ UNCHANGED <<fsm, moduleVars, todo, ctxVars, loopVars>>

InitLate(d) ==
    /\ pc[d] = "initLate"
    /\ inited' = inited \cup {d}
    /\ Goto(d, "startLate")
    /\ UNCHANGED <<fsm, registry, begun, authed, active, todo, ctxVars, loopVars>>

StartLate(d) ==
    /\ pc[d] = "startLate"
    /\ active' = active \cup {<<d, d>>} /\ begun' = begun \cup {d}
    /\ Goto(d, "checkAuth")
    /\ UNCHANGED <<fsm, registry, inited, authed, todo, ctxVars, loopVars>>

CheckAuthorized(d) ==
    /\ pc[d] = "checkAuth"
    /\ Goto(d, IF fsm = "authorized" THEN "authLate" ELSE "ok")
    /\ UNCHANGED <<fsm, moduleVars, todo, ctxVars, loopVars>>

AuthLate(d) ==
    /\ pc[d] = "authLate"
    /\ authed' = authed \cup {d}
    /\ Goto(d, "ok")
    /\ UNCHANGED <<fsm, registry, inited, begun, active, todo, ctxVars, loopVars>>

-----------------------------------------------------------------------------
(* Close.                                                                  *)

EnterClose ==
    /\ pc[Closer] = "new"
    /\ Goto(Closer, "stop1")
    /\ UNCHANGED <<fsm, moduleVars, todo, ctxVars, loopVars>>

\* The modules a StopAll visits: those that StartAll started, and of those that
\* were started by RegisterModule whichever the orchestrator counts as active.
Started == {m \in All : \E r \in Runs : <<r, m>> \in active}
StopAll(s) ==
    \E D \in SUBSET {d \in Late : <<d, d>> \in active} : Sweep(Closer, Started \cup D) /\ Goto(Closer, s)

\* The first StopAll and, after the transition, the second.
BeginStop ==
    /\ \/ pc[Closer] = "stop1" /\ StopAll("event")
       \/ pc[Closer] = "stop2" /\ StopAll("stopping")
    /\ UNCHANGED <<fsm, moduleVars, ctxVars, loopVars>>

StopNext ==
    /\ pc[Closer] \in {"event", "stopping"}
    /\ \E m \in All :
          /\ Next1(Closer, m)
          /\ active' = {p \in active : p[2] # m}
    /\ UNCHANGED <<fsm, registry, inited, begun, authed, pc, ctxVars, loopVars>>

\* Mutant: the modules are not stopped again.
EventCloseOnly ==
    /\ pc[Closer] = "event" /\ todo[Closer] = {}
    /\ fsm' = "closed"
    /\ Goto(Closer, "cancel")
    /\ UNCHANGED <<moduleVars, todo, ctxVars, loopVars>>

EventClose ==
    /\ pc[Closer] = "event" /\ todo[Closer] = {}
    /\ fsm' = "closed"
    /\ Goto(Closer, "stop2")
    /\ UNCHANGED <<moduleVars, todo, ctxVars, loopVars>>

StoppedAll ==
    /\ pc[Closer] = "stopping" /\ todo[Closer] = {}
    /\ Goto(Closer, "cancel")
    /\ UNCHANGED <<fsm, moduleVars, todo, ctxVars, loopVars>>

\* Mutant: the context is cancelled by the session's Close only.
CancelLater ==
    /\ pc[Closer] = "cancel"
    /\ Goto(Closer, "wait")
    /\ UNCHANGED <<fsm, moduleVars, todo, ctxVars, loopVars>>

CancelContext ==
    /\ pc[Closer] = "cancel"
    /\ cancelled' = TRUE
    /\ Goto(Closer, "wait")
    /\ UNCHANGED <<fsm, moduleVars, todo, sessClosed, details, loopVars>>

\* wg.Wait returns when the goroutines of all Runs have ended.
Waited ==
    /\ pc[Closer] = "wait"
    /\ \A r \in Runs : loop[r] \in {"none", "ended"}
    /\ Goto(Closer, "session")
    /\ UNCHANGED <<fsm, moduleVars, todo, ctxVars, loopVars>>

CloseSession ==
    /\ pc[Closer] = "session"
    /\ sessClosed' = TRUE
    /\ Goto(Closer, "ok")
    /\ UNCHANGED <<fsm, moduleVars, todo, cancelled, details, loopVars>>

-----------------------------------------------------------------------------
(* The goroutines.                                                         *)

\* refreshLoopOnce: the first runs the loop, the others wait until it ends.
EnterLoop(t) ==
    /\ loop[t] = "ready" /\ once = None
    /\ once' = t /\ loop' = [loop EXCEPT ![t] = "looping"]
    /\ UNCHANGED <<fsm, moduleVars, pc, todo, ctxVars>>

SkipLoop(t) ==
    /\ loop[t] = "ready" /\ once = "done"
    /\ loop' = [loop EXCEPT ![t] = "ended"]
    /\ UNCHANGED <<fsm, moduleVars, pc, todo, ctxVars, once>>

\* Mutant: a logon hands the context of its caller to the loop.
EndLoopWithCall(t) ==
    /\ loop[t] = "looping"
    /\ (t \in Runs /\ cancelled) \/ (t \in Logons /\ pc[t] \in Ended) \/ sessClosed
    /\ once' = "done" /\ loop' = [loop EXCEPT ![t] = "ended"]
    /\ UNCHANGED <<fsm, moduleVars, pc, todo, ctxVars>>

\* The loop ends with its context, that of the client in a Run and that of the
\* session in a logon, or when a tick sees the session closed.
EndLoop(t) ==
    /\ loop[t] = "looping"
    /\ (t \in Runs /\ cancelled) \/ sessClosed
    /\ once' = "done" /\ loop' = [loop EXCEPT ![t] = "ended"]
    /\ UNCHANGED <<fsm, moduleVars, pc, todo, ctxVars>>

-----------------------------------------------------------------------------
Run(r) ==
    CheckRun(r) \/ InitAll(r) \/ StartAll(r) \/ StartNext(r) \/ Spawn(r) \/ Transit(r)

Logon(t) ==
    \/ Enter(t) \/ Refused(t) \/ LogOn(t) \/ SpawnLoop(t) \/ Authorize(t)
    \/ StartAuthedAll(t) \/ AuthNext(t) \/ AuthedAll(t)

RegisterModule(d) ==
    \/ Add(d) \/ CheckRunning(d) \/ InitLate(d) \/ StartLate(d)
    \/ CheckAuthorized(d) \/ AuthLate(d)

Close ==
    \/ EnterClose \/ BeginStop \/ StopNext \/ EventClose \/ StoppedAll
    \/ CancelContext \/ Waited \/ CloseSession

Goroutine(t) == EnterLoop(t) \/ SkipLoop(t) \/ EndLoop(t)

Next ==
    \/ \E r \in Runs : Run(r)
    \/ \E t \in Logons : Logon(t)
    \/ \E d \in Late : RegisterModule(d)
    \/ Close
    \/ \E t \in Loopers : Goroutine(t)

Spec == Init /\ [][Next]_vars

\* Goroutines run, and a call that was begun goes on: a logon and the start and
\* stop of a module return.  Nobody need call anything.
FairSpec ==
    /\ Spec
    /\ \A r \in Runs : WF_vars(pc[r] # "new" /\ Run(r))
    /\ \A t \in Logons : WF_vars(pc[t] # "new" /\ Logon(t))
    /\ WF_vars(pc[Closer] # "new" /\ Close)
    /\ \A t \in Loopers : WF_vars(Goroutine(t))

-----------------------------------------------------------------------------
(* Properties.                                                             *)

\* What a Run that returned nil has started is stopped when Close returns,
\* however Run, Close and other calls of Run overlapped: the first StopAll may
\* come before StartAll, so Close calls it again after the transition.
StartedIsStopped == \A r \in Runs, m \in Modules :
    pc[r] = "ok" /\ pc[Closer] = "ok" => <<r, m>> \notin active

\* The modules of New are initialised and started before their StartAuthed is
\* called, whatever calls of Run, ConnectAndLogin and Reconnect overlap.
AuthedAfterStart == authed \cap Modules \subseteq inited \cap begun

\* Nobody misses StartAuthed: when ConnectAndLogin and RegisterModule have both
\* returned, the module was authorized by one of them, or the client is closed.
NobodyMissesAuth == \A t \in Logins, d \in Late :
    pc[t] = "ok" /\ pc[d] = "ok" => d \in authed \/ fsm = "closed"

\* A client that runs keeps its refresh loop: refreshLoopOnce is not used up by
\* a loop whose context ends earlier, and no two goroutines loop.
RefreshLoopLives ==
    /\ IsRunning => once # "done" /\ \E t \in Loopers : loop[t] \in {"ready", "looping"}
    /\ \A t \in Loopers : loop[t] = "looping" <=> once = t

\* A logon's goroutine is inside refreshLoopOnce, and a Run's waits for it.
LogonHoldsLoop ==
    /\ \E t \in Logons : loop[t] = "looping"
    /\ \E r \in Runs : loop[r] = "ready"

\* While Close waits for the goroutines of Run, one of them can go on: it finds
\* refreshLoopOnce free or used up, or it loops on the cancelled context.  The
\* one standstill is the loop of a logon, whose context Close ends later.
CloseNotStuck ==
    pc[Closer] = "wait" =>
        \/ \A r \in Runs : loop[r] \in {"none", "ended"}
        \/ \E r \in Runs : \/ loop[r] = "ready" /\ once \in {None, "done"}
                           \/ loop[r] = "looping" /\ cancelled
        \/ LogonHoldsLoop

\* Close returns, unless the refresh loop that it waits for belongs to a logon.
CloseReturns ==
    pc[Closer] # "new" ~> (pc[Closer] = "ok" \/ LogonHoldsLoop)
=============================================================================
