------------------------ MODULE ClientLifecycle_proofs ------------------------
(***************************************************************************)
(* Theorems about ClientLifecycle, for any modules and any number of calls *)
(* of Run, ConnectAndLogin, Reconnect and RegisterModule that overlap each *)
(* other and Close.  LifeInv is the inductive invariant: a part for each   *)
(* property, which relates where the calls are to the state they left.     *)
(***************************************************************************)
EXTENDS ClientLifecycle, TLAPS

\* A Run and a ConnectAndLogin come to the modules' StartAuthed only when the
\* modules of New were initialised and started.
ModulesReady ==
    /\ Modules \subseteq registry
    /\ \A r \in Runs : pc[r] \in {"starting", "start", "transit"} => Modules \subseteq inited
    /\ \A r \in Runs : pc[r] = "start" => Modules \ todo[r] \subseteq begun
    /\ \A r \in Runs : pc[r] = "transit" => Modules \subseteq begun
    /\ IsRunning => Modules \subseteq inited \cap begun
    /\ \A t \in Logons : pc[t] \in {"all", "authed"} =>
          t \in Logins /\ Modules \subseteq inited \cap begun

Closing  == {"stop2", "stopping", "cancel", "wait", "session", "ok"}
Stopped  == {"cancel", "wait", "session", "ok"}

\* The state machine follows the calls: a Run that returned nil has left "new",
\* and Close passes "closed" before its second StopAll.
FsmFollows ==
    /\ \A r \in Runs : pc[r] = "ok" => fsm # "new"
    /\ pc[Closer] \in Closing => fsm = "closed"
    /\ \A t \in Logins : pc[t] \in {"all", "authed", "ok"} => fsm \in {"authorized", "closed"}
    /\ cancelled \/ sessClosed => fsm = "closed"
    /\ IsRunning => \E r \in Runs : pc[r] = "ok"

\* The second StopAll still has to come to what is active, the rest of Close
\* finds nothing active.
SecondStop == \A r \in Runs, m \in Modules : pc[r] = "ok" /\ <<r, m>> \in active =>
    /\ pc[Closer] = "stopping" => m \in todo[Closer]
    /\ pc[Closer] \notin Stopped

\* A module that was registered is authorized by its own call, or the sweep of
\* the login has still to come to it.
Authorizing ==
    /\ \A d \in Late : pc[d] # "new" => d \in registry
    /\ \A t \in Logins, d \in Late : pc[t] \in {"authed", "ok"} =>
          \/ pc[t] = "authed" /\ d \in todo[t]
          \/ d \in authed \/ fsm = "closed" \/ pc[d] # "ok"

\* refreshLoopOnce is used up when the client is closed, and not before.
OnceHeld ==
    /\ once = "done" => fsm = "closed"
    /\ \A t \in Loopers : loop[t] = "ended" => once = "done"
    /\ \A t \in Loopers : loop[t] = "looping" <=> once = t
    /\ \A r \in Runs : pc[r] \in {"transit", "ok"} => loop[r] # "none"
    /\ \A r \in Runs : pc[r] \in {"new", "init", "starting", "start"} => loop[r] = "none"
    /\ \A t \in Logons : pc[t] \in {"new", "logon", "spawn"} => loop[t] = "none"

LifeInv ==
    TypeOK /\ ModulesReady /\ AuthedAfterStart /\ FsmFollows /\ SecondStop /\ Authorizing /\ OnceHeld

USE ThreadsAssumption, ModulesAssumption
    DEF Goto, Sweep, Next1, moduleVars, loopVars, ctxVars, Threads, Logons, Loopers, All

-----------------------------------------------------------------------------
(* Types.                                                                  *)

LEMMA TypeStep == TypeOK /\ [Next]_vars => TypeOK'
<1> SUFFICES ASSUME TypeOK, [Next]_vars PROVE TypeOK'
  OBVIOUS
<1> USE DEF TypeOK, PCs, States, Sweeps
<1>1. ASSUME NEW r \in Runs, CheckRun(r) \/ InitAll(r) \/ StartAll(r) PROVE TypeOK'
  BY <1>1 DEF CheckRun, InitAll, StartAll
<1>2. ASSUME NEW r \in Runs, StartNext(r) PROVE TypeOK'
  BY <1>2 DEF StartNext
<1>3. ASSUME NEW r \in Runs, Spawn(r) \/ Transit(r) PROVE TypeOK'
  BY <1>3 DEF Spawn, Transit
<1>4. ASSUME NEW t \in Logons, Enter(t) \/ Refused(t) \/ LogOn(t) \/ SpawnLoop(t) \/ Authorize(t)
      PROVE  TypeOK'
  <2>1. CASE Enter(t)
    BY <2>1 DEF Enter
  <2>2. CASE Refused(t) \/ LogOn(t)
    BY <2>2 DEF Refused, LogOn
  <2>3. CASE SpawnLoop(t)
    BY <2>3 DEF SpawnLoop
  <2>4. CASE Authorize(t)
    BY <2>4 DEF Authorize
  <2>5. QED
    BY <1>4, <2>1, <2>2, <2>3, <2>4
<1>5. ASSUME NEW t \in Logons, StartAuthedAll(t) \/ AuthNext(t) \/ AuthedAll(t) PROVE TypeOK'
  BY <1>5 DEF StartAuthedAll, AuthNext, AuthedAll
<1>6. ASSUME NEW d \in Late, RegisterModule(d) PROVE TypeOK'
  BY <1>6 DEF RegisterModule, Add, CheckRunning, InitLate, StartLate, CheckAuthorized, AuthLate
<1>7. CASE BeginStop
  <2>1. PICK S \in SUBSET All, s \in {"event", "stopping"} : Sweep(Closer, S) /\ Goto(Closer, s)
    BY <1>7 DEF BeginStop, StopAll, Started
  <2>2. UNCHANGED <<fsm, moduleVars, ctxVars, loopVars>>
    BY <1>7 DEF BeginStop
  <2>3. QED
    BY <2>1, <2>2
<1>8. CASE StopNext
  BY <1>8 DEF StopNext
<1>9. CASE EnterClose \/ EventClose \/ StoppedAll \/ CancelContext \/ Waited \/ CloseSession
  <2>1. CASE EnterClose \/ EventClose \/ StoppedAll
    BY <2>1 DEF EnterClose, EventClose, StoppedAll
  <2>2. CASE CancelContext
    BY <2>2 DEF CancelContext
  <2>3. CASE Waited
    BY <2>3 DEF Waited
  <2>4. CASE CloseSession
    BY <2>4 DEF CloseSession
  <2>5. QED
    BY <1>9, <2>1, <2>2, <2>3, <2>4
<1>10. ASSUME NEW t \in Loopers, Goroutine(t) PROVE TypeOK'
  BY <1>10 DEF Goroutine, EnterLoop, SkipLoop, EndLoop
<1>11. CASE UNCHANGED vars
  BY <1>11 DEF vars
<1>12. QED
  BY <1>1, <1>2, <1>3, <1>4, <1>5, <1>6, <1>7, <1>8, <1>9, <1>10, <1>11 DEF Next, Run, Logon, Close

-----------------------------------------------------------------------------
(* The modules of New are ready when they are authorized.                  *)

LEMMA ReadyStep == LifeInv /\ [Next]_vars => ModulesReady' /\ AuthedAfterStart'
<1> SUFFICES ASSUME LifeInv, [Next]_vars PROVE ModulesReady' /\ AuthedAfterStart'
  OBVIOUS
<1> USE DEF LifeInv, TypeOK, ModulesReady, AuthedAfterStart, IsRunning
<1>1. ASSUME NEW r \in Runs, CheckRun(r) \/ InitAll(r) \/ StartAll(r)
      PROVE  ModulesReady' /\ AuthedAfterStart'
  BY <1>1 DEF CheckRun, InitAll, StartAll
<1>2. ASSUME NEW r \in Runs, StartNext(r) PROVE ModulesReady' /\ AuthedAfterStart'
  BY <1>2 DEF StartNext
<1>3. ASSUME NEW r \in Runs, Spawn(r) \/ Transit(r) PROVE ModulesReady' /\ AuthedAfterStart'
  BY <1>3 DEF Spawn, Transit
<1>4. ASSUME NEW t \in Logons, Enter(t) \/ Refused(t) \/ LogOn(t) \/ SpawnLoop(t) \/ Authorize(t)
      PROVE  ModulesReady' /\ AuthedAfterStart'
  <2>1. CASE Enter(t) \/ Refused(t) \/ LogOn(t)
    BY <2>1 DEF Enter, Refused, LogOn
  <2>2. CASE SpawnLoop(t)
    BY <2>2 DEF SpawnLoop
  <2>3. CASE Authorize(t)
    BY <2>3 DEF Authorize
  <2>4. QED
    BY <1>4, <2>1, <2>2, <2>3
<1>5. ASSUME NEW t \in Logons, StartAuthedAll(t) \/ AuthNext(t) \/ AuthedAll(t)
      PROVE  ModulesReady' /\ AuthedAfterStart'
  BY <1>5 DEF StartAuthedAll, AuthNext, AuthedAll
<1>6. ASSUME NEW d \in Late, RegisterModule(d) PROVE ModulesReady' /\ AuthedAfterStart'
  BY <1>6 DEF RegisterModule, Add, CheckRunning, InitLate, StartLate, CheckAuthorized, AuthLate
<1>7. ASSUME Close PROVE ModulesReady' /\ AuthedAfterStart'
  BY <1>7 DEF Close, BeginStop, StopAll, StopNext, EnterClose, EventClose, StoppedAll, CancelContext,
              Waited, CloseSession
<1>8. ASSUME NEW t \in Loopers, Goroutine(t) PROVE ModulesReady' /\ AuthedAfterStart'
  BY <1>8 DEF Goroutine, EnterLoop, SkipLoop, EndLoop
<1>9. CASE UNCHANGED vars
  BY <1>9 DEF vars
<1>10. QED
  BY <1>1, <1>2, <1>3, <1>4, <1>5, <1>6, <1>7, <1>8, <1>9 DEF Next, Run, Logon

-----------------------------------------------------------------------------
(* The state machine and the calls.                                        *)

LEMMA FsmStep == LifeInv /\ [Next]_vars => FsmFollows'
<1> SUFFICES ASSUME LifeInv, [Next]_vars PROVE FsmFollows'
  OBVIOUS
<1> USE DEF LifeInv, TypeOK, FsmFollows, IsRunning, States, Closing
<1>1. ASSUME NEW r \in Runs, CheckRun(r) \/ InitAll(r) \/ StartAll(r) PROVE FsmFollows'
  BY <1>1 DEF CheckRun, InitAll, StartAll
<1>2. ASSUME NEW r \in Runs, StartNext(r) PROVE FsmFollows'
  BY <1>2 DEF StartNext
<1>3. ASSUME NEW r \in Runs, Spawn(r) \/ Transit(r) PROVE FsmFollows'
  BY <1>3 DEF Spawn, Transit
<1>4. ASSUME NEW t \in Logons, Enter(t) \/ Refused(t) \/ LogOn(t) \/ SpawnLoop(t) PROVE FsmFollows'
  BY <1>4 DEF Enter, Refused, LogOn, SpawnLoop
<1>5. ASSUME NEW t \in Logons, Authorize(t) PROVE FsmFollows'
  BY <1>5 DEF Authorize
<1>6. ASSUME NEW t \in Logons, StartAuthedAll(t) \/ AuthNext(t) \/ AuthedAll(t) PROVE FsmFollows'
  BY <1>6 DEF StartAuthedAll, AuthNext, AuthedAll
<1>7. ASSUME NEW d \in Late, RegisterModule(d) PROVE FsmFollows'
  BY <1>7 DEF RegisterModule, Add, CheckRunning, InitLate, StartLate, CheckAuthorized, AuthLate
<1>8. ASSUME Close PROVE FsmFollows'
  BY <1>8 DEF Close, BeginStop, StopAll, StopNext, EnterClose, EventClose, StoppedAll, CancelContext,
              Waited, CloseSession
<1>9. ASSUME NEW t \in Loopers, Goroutine(t) PROVE FsmFollows'
  BY <1>9 DEF Goroutine, EnterLoop, SkipLoop, EndLoop
<1>10. CASE UNCHANGED vars
  BY <1>10 DEF vars
<1>11. QED
  BY <1>1, <1>2, <1>3, <1>4, <1>5, <1>6, <1>7, <1>8, <1>9, <1>10 DEF Next, Run, Logon

-----------------------------------------------------------------------------
(* What was started is stopped.                                            *)

LEMMA StopStep == LifeInv /\ [Next]_vars => SecondStop'
<1> SUFFICES ASSUME LifeInv, [Next]_vars PROVE SecondStop'
  OBVIOUS
<1> USE DEF LifeInv, TypeOK, SecondStop, Stopped
<1>1. ASSUME NEW r \in Runs, CheckRun(r) \/ InitAll(r) \/ StartAll(r) PROVE SecondStop'
  BY <1>1 DEF CheckRun, InitAll, StartAll
<1>2. ASSUME NEW r \in Runs, StartNext(r) PROVE SecondStop'
  BY <1>2 DEF StartNext
\* A Run that returns nil does so before the transition of Close.
<1>3. ASSUME NEW r \in Runs, Spawn(r) \/ Transit(r) PROVE SecondStop'
  BY <1>3 DEF Spawn, Transit, FsmFollows, Closing
<1>4. ASSUME NEW t \in Logons, Logon(t) PROVE SecondStop'
  BY <1>4 DEF Logon, Enter, Refused, LogOn, SpawnLoop, Authorize, StartAuthedAll, AuthNext, AuthedAll
<1>5. ASSUME NEW d \in Late, RegisterModule(d) PROVE SecondStop'
  BY <1>5 DEF RegisterModule, Add, CheckRunning, InitLate, StartLate, CheckAuthorized, AuthLate
<1>6. CASE BeginStop
  BY <1>6 DEF BeginStop, StopAll, Started
<1>7. CASE StopNext
  BY <1>7 DEF StopNext
<1>8. CASE EnterClose \/ EventClose \/ StoppedAll \/ CancelContext \/ Waited \/ CloseSession
  BY <1>8 DEF EnterClose, EventClose, StoppedAll, CancelContext, Waited, CloseSession
<1>9. ASSUME NEW t \in Loopers, Goroutine(t) PROVE SecondStop'
  BY <1>9 DEF Goroutine, EnterLoop, SkipLoop, EndLoop
<1>10. CASE UNCHANGED vars
  BY <1>10 DEF vars
<1>11. QED
  BY <1>1, <1>2, <1>3, <1>4, <1>5, <1>6, <1>7, <1>8, <1>9, <1>10 DEF Next, Run, Close

-----------------------------------------------------------------------------
(* Modules that are registered late.                                       *)

LEMMA AuthorizingStep == LifeInv /\ [Next]_vars => Authorizing'
<1> SUFFICES ASSUME LifeInv, [Next]_vars PROVE Authorizing'
  OBVIOUS
<1> USE DEF LifeInv, TypeOK, Authorizing
<1>1. ASSUME NEW r \in Runs, Run(r) PROVE Authorizing'
  BY <1>1 DEF Run, CheckRun, InitAll, StartAll, StartNext, Spawn, Transit
<1>2. ASSUME NEW t \in Logons, Enter(t) \/ Refused(t) \/ LogOn(t) \/ SpawnLoop(t) PROVE Authorizing'
  BY <1>2 DEF Enter, Refused, LogOn, SpawnLoop
<1>3. ASSUME NEW t \in Logons, Authorize(t) PROVE Authorizing'
  BY <1>3 DEF Authorize, IsRunning
<1>4. ASSUME NEW t \in Logons, StartAuthedAll(t) \/ AuthNext(t) \/ AuthedAll(t) PROVE Authorizing'
  BY <1>4 DEF StartAuthedAll, AuthNext, AuthedAll
<1>5. ASSUME NEW d \in Late, Add(d) \/ CheckRunning(d) \/ InitLate(d) \/ StartLate(d) \/ AuthLate(d)
      PROVE  Authorizing'
  BY <1>5 DEF Add, CheckRunning, InitLate, StartLate, AuthLate
\* It sees the state that the login set, unless the client is closed.
<1>6. ASSUME NEW d \in Late, CheckAuthorized(d) PROVE Authorizing'
  BY <1>6 DEF CheckAuthorized, FsmFollows
<1>7. ASSUME Close PROVE Authorizing'
  BY <1>7 DEF Close, BeginStop, StopAll, StopNext, EnterClose, EventClose, StoppedAll, CancelContext,
              Waited, CloseSession
<1>8. ASSUME NEW t \in Loopers, Goroutine(t) PROVE Authorizing'
  BY <1>8 DEF Goroutine, EnterLoop, SkipLoop, EndLoop
<1>9. CASE UNCHANGED vars
  BY <1>9 DEF vars
<1>10. QED
  BY <1>1, <1>2, <1>3, <1>4, <1>5, <1>6, <1>7, <1>8, <1>9 DEF Next, Logon, RegisterModule

-----------------------------------------------------------------------------
(* The refresh loop.                                                       *)

LEMMA OnceStep == LifeInv /\ [Next]_vars => OnceHeld'
<1> SUFFICES ASSUME LifeInv, [Next]_vars PROVE OnceHeld'
  OBVIOUS
<1> USE DEF LifeInv, TypeOK, OnceHeld
<1>1. ASSUME NEW r \in Runs, CheckRun(r) \/ InitAll(r) \/ StartAll(r) PROVE OnceHeld'
  BY <1>1 DEF CheckRun, InitAll, StartAll
<1>2. ASSUME NEW r \in Runs, StartNext(r) PROVE OnceHeld'
  BY <1>2 DEF StartNext
<1>3. ASSUME NEW r \in Runs, Spawn(r) PROVE OnceHeld'
  BY <1>3 DEF Spawn
<1>4. ASSUME NEW r \in Runs, Transit(r) PROVE OnceHeld'
  BY <1>4 DEF Transit
<1>5. ASSUME NEW t \in Logons, Logon(t), ~ SpawnLoop(t) PROVE OnceHeld'
  BY <1>5 DEF Logon, Enter, Refused, LogOn, Authorize, StartAuthedAll, AuthNext, AuthedAll, IsRunning
<1>6. ASSUME NEW t \in Logons, SpawnLoop(t) PROVE OnceHeld'
  BY <1>6 DEF SpawnLoop
<1>7. ASSUME NEW d \in Late, RegisterModule(d) PROVE OnceHeld'
  BY <1>7 DEF RegisterModule, Add, CheckRunning, InitLate, StartLate, CheckAuthorized, AuthLate
<1>8. ASSUME Close PROVE OnceHeld'
  BY <1>8 DEF Close, BeginStop, StopAll, StopNext, EnterClose, EventClose, StoppedAll, CancelContext,
              Waited, CloseSession
<1>9. ASSUME NEW t \in Loopers, EnterLoop(t) \/ SkipLoop(t) PROVE OnceHeld'
  <2>1. CASE EnterLoop(t)
    BY <2>1 DEF EnterLoop, None
  <2>2. CASE SkipLoop(t)
    <3>1. once # t
      BY <2>2 DEF SkipLoop
    <3>2. QED
      BY <2>2, <3>1 DEF SkipLoop
  <2>3. QED
    BY <1>9, <2>1, <2>2
\* The contexts of the loops end with the client.
<1>10. ASSUME NEW t \in Loopers, EndLoop(t) PROVE OnceHeld'
  BY <1>10 DEF EndLoop, FsmFollows
<1>11. CASE UNCHANGED vars
  BY <1>11 DEF vars
<1>12. QED
  BY <1>1, <1>2, <1>3, <1>4, <1>5, <1>6, <1>7, <1>8, <1>9, <1>10, <1>11 DEF Next, Run, Goroutine

-----------------------------------------------------------------------------
LEMMA LifeInvHolds == Spec => []LifeInv
<1>1. Init => LifeInv
  <2> SUFFICES ASSUME Init PROVE LifeInv
    OBVIOUS
  <2>1. TypeOK
    BY DEF Init, TypeOK, PCs, States, Sweeps
  <2>2. ModulesReady /\ AuthedAfterStart
    BY DEF Init, ModulesReady, AuthedAfterStart, IsRunning
  <2>3. FsmFollows /\ SecondStop
    BY DEF Init, FsmFollows, SecondStop, Closing, IsRunning
  <2>4. Authorizing
    BY DEF Init, Authorizing
  <2>5. OnceHeld
    BY DEF Init, OnceHeld, None
  <2>6. QED
    BY <2>1, <2>2, <2>3, <2>4, <2>5 DEF LifeInv
<1>2. LifeInv /\ [Next]_vars => LifeInv'
  BY TypeStep, ReadyStep, FsmStep, StopStep, AuthorizingStep, OnceStep DEF LifeInv
<1>3. QED
  BY <1>1, <1>2, PTL DEF Spec

\* Every variable keeps its type; only a sweep that goes on or has failed has
\* modules left.
THEOREM LifecycleTypeCorrect == Spec => []TypeOK
<1>1. LifeInv => TypeOK
  BY DEF LifeInv
<1>2. QED
  BY <1>1, LifeInvHolds, PTL

\* Close leaves nothing active that a Run which returned nil has started, for
\* any number of calls of Run.
THEOREM CloseStopsModules == Spec => []StartedIsStopped
<1>1. LifeInv => StartedIsStopped
  BY DEF LifeInv, TypeOK, SecondStop, Stopped, StartedIsStopped
<1>2. QED
  BY <1>1, LifeInvHolds, PTL

\* The modules of New are never authorized before they are started.
THEOREM AuthorizedModulesRun == Spec => []AuthedAfterStart
<1>1. LifeInv => AuthedAfterStart
  BY DEF LifeInv
<1>2. QED
  BY <1>1, LifeInvHolds, PTL

\* Between a login and RegisterModule no module is forgotten.
THEOREM LateModulesAuthorized == Spec => []NobodyMissesAuth
<1>1. LifeInv => NobodyMissesAuth
  BY DEF LifeInv, Authorizing, NobodyMissesAuth
<1>2. QED
  BY <1>1, LifeInvHolds, PTL

\* refreshLoopOnce outlasts the client's running, with one goroutine inside.
THEOREM RunningRefreshes == Spec => []RefreshLoopLives
<1>1. LifeInv => RefreshLoopLives
  <2> SUFFICES ASSUME LifeInv PROVE RefreshLoopLives
    OBVIOUS
  <2>1. \A t \in Loopers : loop[t] \in {"none", "ready", "looping", "ended"}
    BY DEF LifeInv, TypeOK
  <2>2. IsRunning => once # "done"
    BY DEF LifeInv, OnceHeld, IsRunning
  <2>3. IsRunning => \E t \in Loopers : loop[t] \in {"ready", "looping"}
    BY <2>1, <2>2 DEF LifeInv, OnceHeld, FsmFollows
  <2>4. QED
    BY <2>2, <2>3 DEF RefreshLoopLives, LifeInv, OnceHeld
<1>2. QED
  BY <1>1, LifeInvHolds, PTL
-----------------------------------------------------------------------------
(* The wait of Close.                                                      *)

\* Close waits with the client's context cancelled.
WaitCancelled == pc[Closer] \in {"wait", "session", "ok"} => cancelled

LEMMA WaitStep == TypeOK /\ WaitCancelled /\ [Next]_vars => WaitCancelled'
<1> SUFFICES ASSUME TypeOK, WaitCancelled, [Next]_vars PROVE WaitCancelled'
  OBVIOUS
<1> USE DEF TypeOK, WaitCancelled
<1>1. CASE \E r \in Runs : Run(r)
  BY <1>1 DEF Run, CheckRun, InitAll, StartAll, StartNext, Spawn, Transit
<1>2. CASE \E t \in Logons : Logon(t)
  BY <1>2 DEF Logon, Enter, Refused, LogOn, SpawnLoop, Authorize, StartAuthedAll, AuthNext,
              AuthedAll
<1>3. CASE \E d \in Late : RegisterModule(d)
  BY <1>3 DEF RegisterModule, Add, CheckRunning, InitLate, StartLate, CheckAuthorized, AuthLate
<1>4. CASE Close
  BY <1>4 DEF Close, BeginStop, StopAll, StopNext, EnterClose, EventClose, StoppedAll,
              CancelContext, Waited, CloseSession
<1>5. CASE \E t \in Loopers : Goroutine(t)
  BY <1>5 DEF Goroutine, EnterLoop, SkipLoop, EndLoop
<1>6. CASE UNCHANGED vars
  BY <1>6 DEF vars
<1>7. QED
  BY <1>1, <1>2, <1>3, <1>4, <1>5, <1>6 DEF Next

\* Nothing but the refresh loop of a logon can keep Close waiting for ever.
THEOREM CloseGoesOn == Spec => []CloseNotStuck
<1>1. LifeInv /\ WaitCancelled => CloseNotStuck
  <2> SUFFICES ASSUME LifeInv, WaitCancelled, pc[Closer] = "wait",
                      NEW r \in Runs, loop[r] \notin {"none", "ended"}
               PROVE  \/ \E s \in Runs : \/ loop[s] = "ready" /\ once \in {None, "done"}
                                         \/ loop[s] = "looping" /\ cancelled
                      \/ LogonHoldsLoop
    BY DEF CloseNotStuck
  <2>1. cancelled /\ loop[r] \in {"ready", "looping"}
    BY DEF WaitCancelled, LifeInv, TypeOK
  <2>2. CASE loop[r] = "looping"
    BY <2>1, <2>2
  <2>3. CASE loop[r] = "ready"
    <3>1. CASE once \in {None, "done"}
      BY <2>3, <3>1
    <3>2. CASE once \in Loopers
      <4>1. loop[once] = "looping"
        BY <3>2 DEF LifeInv, OnceHeld
      <4>2. QED
        BY <2>1, <2>3, <3>2, <4>1 DEF LogonHoldsLoop
    <3>3. QED
      BY <3>1, <3>2 DEF LifeInv, TypeOK
  <2>4. QED
    BY <2>1, <2>2, <2>3
<1>2. Init => WaitCancelled
  BY DEF Init, WaitCancelled
<1>3. LifeInv /\ WaitCancelled /\ [Next]_vars => WaitCancelled'
  BY WaitStep DEF LifeInv
<1>4. QED
  BY <1>1, <1>2, <1>3, LifeInvHolds, PTL DEF Spec
=============================================================================
