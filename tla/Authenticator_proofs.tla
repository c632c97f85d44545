------------------------ MODULE Authenticator_proofs ------------------------
(***************************************************************************)
(* Theorems about Authenticator, for any set of calls, any transports and  *)
(* any number of connections: types, no login is stuck, success means      *)
(* heartbeats, the password of a login that succeeded is wiped, and        *)
(* logons over TCP are encrypted.                                          *)
(***************************************************************************)
EXTENDS Authenticator, TLAPS

\* One more packet received.
LEMMA InboxGrows ==
    ASSUME NEW S, S \subseteq Packets, NEW p \in Packets
    PROVE  S \cup {p} \subseteq Packets
OBVIOUS

\* A connection opened by a dial or by the reconnect loop.
LEMMA ConnectType ==
    ASSUME TypeOK, NEW kind \in Transports, Connect(kind)
    PROVE  /\ link' \in {"down", "tcp", "ws"} /\ ciphered' \in BOOLEAN /\ dials' \in Nat
           /\ logons' \in Nat /\ cmSession' \in BOOLEAN /\ inbox' \subseteq Packets
           /\ heartbeat' \in BOOLEAN /\ closed' \in BOOLEAN /\ keyed \subseteq 0..dials'
<1>1. "encryptRequest" \in Packets
  BY DEF Packets
<1>2. inbox' \subseteq Packets
  BY <1>1, InboxGrows DEF TypeOK, Connect
<1>3. link' \in {"down", "tcp", "ws"} /\ dials' \in Nat /\ logons' \in Nat
  BY TransportsAssumption DEF TypeOK, Connect
<1>4. /\ ciphered' \in BOOLEAN /\ cmSession' \in BOOLEAN
      /\ heartbeat' \in BOOLEAN /\ closed' \in BOOLEAN
  BY Zenon DEF TypeOK, Connect
<1>5. keyed \subseteq 0..dials'
  BY DEF TypeOK, Connect
<1>6. QED
  BY <1>2, <1>3, <1>4, <1>5

LEMMA FireType ==
    ASSUME fsm \in States, NEW e \in {"Begin", "LoggingOn", "Success", "Fail", "Disconnect"},
           Fire(e)
    PROVE  fsm' \in States
BY DEF Fire, States, From, To

\* The first half of failLogin, in a handler or in SendLogOn.
LEMMA CancelType ==
    ASSUME TypeOK, NEW e \in Errors, CancelLogin(e)
    PROVE  cause' \in [Attempts -> Errors \cup {"none", "caller"}]
BY DEF TypeOK, CancelLogin, Slot

LEMMA FailureType ==
    ASSUME TypeOK, NEW e \in Errors, StartFailure(e)
    PROVE  /\ failing' \subseteq Errors
           /\ cause' \in [Attempts -> Errors \cup {"none", "caller"}]
<1>1. failing' \subseteq Errors
  BY DEF TypeOK, StartFailure
<1>2. QED
  BY <1>1, CancelType DEF StartFailure

\* The second half, and succeedLogin.
LEMMA OfferType ==
    ASSUME TypeOK, NEW r \in Errors \cup {"ok"}, Offer(r)
    PROVE  result' \in [Attempts -> Errors \cup {"empty", "ok"}]
BY DEF TypeOK, Offer, Slot

LEMMA TakeType ==
    ASSUME TypeOK, NEW p, Take(p)
    PROVE  inbox' \subseteq Packets
BY DEF TypeOK, Take

LEMMA ErrorNames == {"invalidPassword", "expired", "broken"} \subseteq Errors
BY DEF Errors

\* One goroutine's step keeps every variable in its type.
LEMMA CallType ==
    ASSUME TypeOK, NEW a \in Attempts, Call(a)
    PROVE  TypeOK'
<1>1. CASE Begin(a)
  <2>1. fsm' \in States
    BY <1>1, FireType DEF TypeOK, Begin
  <2>2. /\ pc' \in [Attempts -> PCs]
        /\ anonymous' \in [Attempts -> BOOLEAN]
        /\ token' \in [Attempts -> {"none", "token"}]
        /\ secret' \in [Attempts -> BOOLEAN]
    <3>1. pc' \in [Attempts -> PCs]
      BY <1>1 DEF TypeOK, Begin, Goto, PCs
    <3>2. anonymous' \in {anonymous, [anonymous EXCEPT ![a] = TRUE]}
      BY <1>1 DEF Begin
    <3>3. /\ \E t \in {"none", "token"} : token' \in {token, [token EXCEPT ![a] = t]}
          /\ \E s \in BOOLEAN : secret' \in {secret, [secret EXCEPT ![a] = s]}
      BY <1>1, Zenon DEF Begin
    <3>4. token' \in [Attempts -> {"none", "token"}]
      BY <3>3 DEF TypeOK
    <3>5. anonymous' \in [Attempts -> BOOLEAN] /\ secret' \in [Attempts -> BOOLEAN]
      BY <3>2, <3>3 DEF TypeOK
    <3>6. QED
      BY <3>1, <3>4, <3>5
  <2>3. QED
    BY <1>1, <2>1, <2>2 DEF TypeOK, Begin, slotVars, keyVars, linkVars
<1>2. CASE BeginRefused(a)
  BY <1>2 DEF TypeOK, BeginRefused, Goto, PCs, slotVars, keyVars, linkVars
<1>3. CASE Prepare(a)
  BY <1>3 DEF TypeOK, Prepare, Goto, Return, PCs, slotVars, keyVars, linkVars, Errors
<1>4. CASE PollDone(a)
  BY <1>4 DEF TypeOK, PollDone, Goto, PCs, slotVars, keyVars, linkVars
<1>5. CASE PollFailed(a)
  BY <1>5 DEF TypeOK, PollFailed, Goto, Return, PCs, slotVars, keyVars, linkVars, Errors
<1>6. CASE EnterLoggingOn(a)
  BY <1>6, FireType DEF TypeOK, EnterLoggingOn, Goto, PCs, slotVars, keyVars, linkVars
<1>7. CASE Register(a)
  BY <1>7 DEF TypeOK, Register, Goto, PCs, Slot, keyVars, linkVars
<1>8. CASE Dial(a)
  <2>1. /\ link' \in {"down", "tcp", "ws"} /\ ciphered' \in BOOLEAN /\ dials' \in Nat
        /\ logons' \in Nat /\ cmSession' \in BOOLEAN /\ inbox' \subseteq Packets
        /\ heartbeat' \in BOOLEAN /\ closed' \in BOOLEAN /\ keyed' \subseteq 0..dials'
    BY <1>8, ConnectType DEF TypeOK, Dial, keyVars, linkVars
  <2>2. /\ server' \in [Attempts -> {"down", "tcp", "ws"}]
        /\ pc' \in [Attempts -> PCs]
        /\ outcome' \in [Attempts -> Errors \cup {"none", "ok", "inProgress", "cancelled"}]
    BY <1>8, TransportsAssumption DEF TypeOK, Dial, Goto, Return, PCs, Errors
  <2>3. QED
    BY <1>8, <2>1, <2>2 DEF TypeOK, Dial, slotVars, keyVars
<1>9. CASE SendLogOn(a)
  <2>1. cause' \in [Attempts -> Errors \cup {"none", "caller"}]
    BY <1>9, CancelType, ErrorNames DEF TypeOK, SendLogOn
  <2>2. pc' \in [Attempts -> PCs] /\ logons' \in Nat
    BY <1>9 DEF TypeOK, SendLogOn, Goto, PCs
  <2>3. QED
    BY <1>9, <2>1, <2>2 DEF TypeOK, SendLogOn, slotVars, keyVars
<1>10. CASE SendLogOnFailed(a)
  <2>1. result' \in [Attempts -> Errors \cup {"empty", "ok"}]
    BY <1>10, OfferType, ErrorNames DEF SendLogOnFailed
  <2>2. QED
    BY <1>10, <2>1 DEF TypeOK, SendLogOnFailed, Goto, PCs, slotVars, keyVars, linkVars
<1>11. CASE WaitResult(a)
  BY <1>11 DEF TypeOK, WaitResult, Goto, Return, PCs, slotVars, keyVars, linkVars, Errors
<1>12. CASE WaitCancelled(a)
  BY <1>12 DEF TypeOK, WaitCancelled, Goto, Return, PCs, slotVars, keyVars, linkVars, Errors
<1>13. CASE Succeed(a)
  BY <1>13, FireType DEF TypeOK, Succeed, Goto, Return, PCs, slotVars, keyVars, linkVars, Errors
<1>14. CASE ClearStore(a)
  BY <1>14 DEF TypeOK, ClearStore, Goto, Return, PCs, slotVars, keyVars, linkVars, Errors
<1>15. CASE CheckTerminal(a)
  BY <1>15 DEF TypeOK, CheckTerminal, Goto, PCs, slotVars, keyVars, linkVars
<1>16. CASE ForceFailed(a)
  BY <1>16, FireType DEF TypeOK, ForceFailed, Goto, PCs, slotVars, keyVars, linkVars
<1>17. QED
  BY <1>1, <1>2, <1>3, <1>4, <1>5, <1>6, <1>7, <1>8, <1>9, <1>10, <1>11, <1>12,
     <1>13, <1>14, <1>15, <1>16 DEF Call

\* So does a handler's step.
LEMMA HandlerType ==
    ASSUME TypeOK, Handlers
    PROVE  TypeOK'
<1>1. ASSUME NEW p \in Packets, HandleMalformed(p) PROVE TypeOK'
  <2>1. inbox' \subseteq Packets
    BY <1>1, TakeType DEF HandleMalformed
  <2>2. failing' \subseteq Errors /\ cause' \in [Attempts -> Errors \cup {"none", "caller"}]
    BY <1>1, FailureType, ErrorNames DEF HandleMalformed
  <2>3. QED
    BY <1>1, <2>1, <2>2 DEF TypeOK, HandleMalformed, slotVars, keyVars
<1>2. CASE HandleChannelEncryptRequest
  <2>1. "encryptResult" \in Packets
    BY DEF Packets
  <2>2. inbox' \subseteq Packets
    BY <1>2, <2>1, InboxGrows, TakeType DEF TypeOK, HandleChannelEncryptRequest
  <2>3. failing' \subseteq Errors /\ cause' \in [Attempts -> Errors \cup {"none", "caller"}]
    BY <1>2, FailureType, ErrorNames DEF TypeOK, HandleChannelEncryptRequest
  <2>4. QED
    BY <1>2, <2>2, <2>3 DEF TypeOK, HandleChannelEncryptRequest, slotVars, keyVars
<1>3. CASE HandleChannelEncryptResult
  <2>1. ciphered' \in BOOLEAN /\ tempKey' \in BOOLEAN
    BY <1>3 DEF TypeOK, HandleChannelEncryptResult, keyVars
  <2>2. inbox' \subseteq Packets
    BY <1>3, TakeType DEF HandleChannelEncryptResult
  <2>3. keyed' \subseteq 0..dials'
    <3>1. dials' = dials /\ dials \in 0..dials
      BY <1>3 DEF TypeOK, HandleChannelEncryptResult
    <3>2. keyed' = keyed \/ keyed' = keyed \cup {dials}
      BY <1>3, Zenon DEF HandleChannelEncryptResult, keyVars
    <3>3. QED
      BY <3>1, <3>2 DEF TypeOK
  <2>4. failing' \subseteq Errors /\ cause' \in [Attempts -> Errors \cup {"none", "caller"}]
    BY <1>3, FailureType, ErrorNames DEF TypeOK, HandleChannelEncryptResult
  <2>5. QED
    BY <1>3, <2>1, <2>2, <2>3, <2>4 DEF TypeOK, HandleChannelEncryptResult, slotVars
<1>4. CASE HandleLogOnOK
  <2>1. inbox' \subseteq Packets
    BY <1>4, TakeType DEF HandleLogOnOK
  <2>2. heartbeat' \in BOOLEAN
    BY <1>4 DEF TypeOK, HandleLogOnOK
  <2>3. failing' \subseteq Errors /\ cause' \in [Attempts -> Errors \cup {"none", "caller"}]
    BY <1>4, FailureType, ErrorNames DEF TypeOK, HandleLogOnOK
  <2>4. result' \in [Attempts -> Errors \cup {"empty", "ok"}]
    BY <1>4, OfferType DEF TypeOK, HandleLogOnOK
  <2>5. QED
    BY <1>4, <2>1, <2>2, <2>3, <2>4 DEF TypeOK, HandleLogOnOK, slotVars, keyVars
<1>5. CASE HandleLogOnDenied
  <2>1. inbox' \subseteq Packets
    BY <1>5, TakeType DEF HandleLogOnDenied
  <2>2. failing' \subseteq Errors /\ cause' \in [Attempts -> Errors \cup {"none", "caller"}]
    BY <1>5, FailureType, ErrorNames DEF HandleLogOnDenied
  <2>3. QED
    BY <1>5, <2>1, <2>2 DEF TypeOK, HandleLogOnDenied, slotVars, keyVars
<1>6. CASE HandleLoggedOff
  <2>1. inbox' \subseteq Packets
    BY <1>6, TakeType DEF HandleLoggedOff
  <2>2. failing' \subseteq Errors /\ cause' \in [Attempts -> Errors \cup {"none", "caller"}]
    BY <1>6, FailureType, ErrorNames DEF TypeOK, HandleLoggedOff
  <2>3. fsm' \in States
    BY <1>6, FireType DEF TypeOK, HandleLoggedOff
  <2>4. QED
    BY <1>6, <2>1, <2>2, <2>3 DEF TypeOK, HandleLoggedOff, slotVars, keyVars
<1>7. ASSUME NEW e \in Errors, FinishFailure(e) PROVE TypeOK'
  <2>1. result' \in [Attempts -> Errors \cup {"empty", "ok"}]
    BY <1>7, OfferType DEF FinishFailure
  <2>2. fsm' \in States
    BY <1>7, FireType DEF TypeOK, FinishFailure
  <2>3. failing' \subseteq Errors
    BY <1>7 DEF TypeOK, FinishFailure
  <2>4. QED
    BY <1>7, <2>1, <2>2, <2>3 DEF TypeOK, FinishFailure, slotVars, keyVars, linkVars
<1>8. ASSUME NEW n \in keyed, SendKeyedLogOn(n) PROVE TypeOK'
  <2>1. logons' \in Nat /\ keyed' \subseteq 0..dials'
    BY <1>8 DEF TypeOK, SendKeyedLogOn
  <2>2. failing' \subseteq Errors /\ cause' \in [Attempts -> Errors \cup {"none", "caller"}]
    BY <1>8, FailureType, ErrorNames DEF TypeOK, SendKeyedLogOn
  <2>3. QED
    BY <1>8, <2>1, <2>2 DEF TypeOK, SendKeyedLogOn, slotVars
<1>9. QED
  BY <1>1, <1>2, <1>3, <1>4, <1>5, <1>6, <1>7, <1>8 DEF Handlers

\* And a step of the environment.
LEMMA EnvironmentType ==
    ASSUME TypeOK, Environment
    PROVE  TypeOK'
<1>1. ASSUME NEW a \in Attempts, CallerCancels(a) PROVE TypeOK'
  BY <1>1 DEF TypeOK, CallerCancels, slotVars, keyVars, linkVars
<1>2. CASE CMAnswers
  <2>1. {"logonOK", "logonInvalidPassword", "logonDenied"} \subseteq Packets
    BY DEF Packets
  <2>2. inbox' \subseteq Packets
    BY <1>2, <2>1, InboxGrows DEF TypeOK, CMAnswers
  <2>3. logons' \in Nat /\ cmSession' \in BOOLEAN
    BY <1>2 DEF TypeOK, CMAnswers
  <2>4. QED
    BY <1>2, <2>2, <2>3 DEF TypeOK, CMAnswers, callVars, slotVars, keyVars
<1>3. CASE CMLogsOff
  <2>1. {"loggedOff", "loggedOffExpired"} \subseteq Packets
    BY DEF Packets
  <2>2. inbox' \subseteq Packets
    BY <1>3, <2>1, InboxGrows DEF TypeOK, CMLogsOff
  <2>3. QED
    BY <1>3, <2>2 DEF TypeOK, CMLogsOff, callVars, slotVars, keyVars
<1>4. CASE Drop \/ CloseSocket
  <2>1. inbox' \subseteq Packets
    BY <1>4 DEF TypeOK, Drop, CloseSocket, Lose
  <2>2. closed' \in BOOLEAN /\ ciphered' \in BOOLEAN /\ cmSession' \in BOOLEAN
    BY <1>4, Zenon DEF TypeOK, Drop, CloseSocket, Lose
  <2>3. tempKey' \in BOOLEAN /\ keyed' \subseteq 0..dials'
    <3>1. UNCHANGED <<tempKey, keyed, dials>>
      BY <1>4 DEF Drop, CloseSocket, Lose, keyVars
    <3>2. QED
      BY <3>1 DEF TypeOK
  <2>4. QED
    BY <1>4, <2>1, <2>2, <2>3 DEF TypeOK, Drop, CloseSocket, Lose, callVars, slotVars
<1>5. CASE Reconnect
  BY <1>5, ConnectType DEF TypeOK, Reconnect, callVars, slotVars, keyVars
<1>6. QED
  BY <1>1, <1>2, <1>3, <1>4, <1>5 DEF Environment

\* Type correctness: every variable keeps its type in every behaviour.
THEOREM TypeCorrect == Spec => []TypeOK
<1>1. Init => TypeOK
  <2> SUFFICES ASSUME Init PROVE TypeOK
    OBVIOUS
  <2>1. failing \subseteq Errors /\ inbox \subseteq Packets
    BY DEF Init
  <2>2. /\ tempKey \in BOOLEAN /\ keyed \subseteq 0..dials
        /\ ciphered \in BOOLEAN /\ cmSession \in BOOLEAN
        /\ heartbeat \in BOOLEAN /\ closed \in BOOLEAN
    BY DEF Init
  <2>3. QED
    BY <2>1, <2>2 DEF Init, TypeOK, States, PCs, Slot
<1>2. TypeOK /\ [Next]_vars => TypeOK'
  <2> SUFFICES ASSUME TypeOK, [Next]_vars PROVE TypeOK'
    OBVIOUS
  <2>1. CASE UNCHANGED vars
    BY <2>1 DEF TypeOK, vars, callVars, slotVars, keyVars, linkVars
  <2>2. CASE Next
    BY <2>2, CallType, HandlerType, EnvironmentType DEF Next
  <2>3. QED
    BY <2>1, <2>2
<1>3. QED
  BY <1>1, <1>2, PTL DEF Spec

-----------------------------------------------------------------------------
(* No login leaves the machine stuck.                                      *)

\* Only a call that is running moves the machine into Authenticating or
\* LoggingOn, and a call ends only after ensureTerminalState has left it.
LEMMA OwnerStep ==
    ASSUME TypeOK, InProgressHasOwner, [Next]_vars
    PROVE  InProgressHasOwner'
<1> SUFFICES ASSUME fsm' \in InProgress PROVE \E a \in Attempts : Live(a)'
  BY DEF InProgressHasOwner
<1>1. ASSUME UNCHANGED pc, fsm' = fsm PROVE \E a \in Attempts : Live(a)'
  BY <1>1 DEF InProgressHasOwner, Live
<1>2. ASSUME NEW a \in Attempts, NEW l \in PCs \ {"idle", "done"}, Goto(a, l)
      PROVE \E b \in Attempts : Live(b)'
  BY <1>2 DEF Goto, Live, TypeOK
<1>3. ASSUME NEW a \in Attempts, Call(a) PROVE \E b \in Attempts : Live(b)'
  <2>1. CASE \/ Begin(a) \/ Prepare(a) \/ PollDone(a) \/ PollFailed(a) \/ EnterLoggingOn(a)
             \/ Register(a) \/ Dial(a) \/ SendLogOn(a)
             \/ SendLogOnFailed(a) \/ WaitResult(a) \/ WaitCancelled(a)
             \/ Succeed(a) \/ ClearStore(a)
    <3>1. \E l \in PCs \ {"idle", "done"} : Goto(a, l)
      BY <2>1 DEF Begin, Prepare, PollDone, PollFailed, EnterLoggingOn, Register, Dial,
                  SendLogOn, SendLogOnFailed, WaitResult, WaitCancelled, Succeed, ClearStore,
                  Return, PCs
    <3>2. QED
      BY <3>1, <1>2
  <2>2. CASE BeginRefused(a)
    <3>1. PICK b \in Attempts : Live(b)
      BY <2>2 DEF InProgressHasOwner, BeginRefused
    <3>2. Live(b)'
      BY <2>2, <3>1 DEF BeginRefused, Goto, Live, TypeOK
    <3>3. QED
      BY <3>2
  <2>3. CASE CheckTerminal(a)
    <3>1. CASE fsm = "LoggedOn"
      BY <2>3, <3>1 DEF CheckTerminal, InProgress
    <3>2. CASE fsm # "LoggedOn"
      <4>1. Goto(a, "fail")
        BY <2>3, <3>2 DEF CheckTerminal
      <4>2. QED
        BY <4>1, <1>2 DEF PCs
    <3>3. QED
      BY <3>1, <3>2
  <2>4. CASE ForceFailed(a)
    BY <2>4 DEF ForceFailed, Fire, From, To, InProgress
  <2>5. QED
    BY <1>3, <2>1, <2>2, <2>3, <2>4 DEF Call
<1>4. CASE Handlers
  <2>1. UNCHANGED pc
    BY <1>4 DEF Handlers, HandleMalformed, HandleChannelEncryptRequest,
                HandleChannelEncryptResult, SendKeyedLogOn, HandleLogOnOK, HandleLogOnDenied,
                HandleLoggedOff, FinishFailure
  <2>2. fsm' = fsm \/ Fire("Disconnect")
    BY <1>4 DEF Handlers, HandleMalformed, HandleChannelEncryptRequest,
                HandleChannelEncryptResult, SendKeyedLogOn, HandleLogOnOK, HandleLogOnDenied,
                HandleLoggedOff, FinishFailure
  <2>3. fsm' = fsm
    BY <2>2 DEF Fire, From, To, InProgress
  <2>4. QED
    BY <1>1, <2>1, <2>3
<1>5. CASE Environment
  BY <1>1, <1>5 DEF Environment, CallerCancels, CMAnswers, CMLogsOff, Drop, CloseSocket,
                    Lose, Reconnect, callVars
<1>6. CASE UNCHANGED vars
  BY <1>1, <1>6 DEF vars, callVars
<1>7. QED
  BY <1>3, <1>4, <1>5, <1>6 DEF Next

\* While the machine is in progress, some call is running.
THEOREM NeverStuck == Spec => []InProgressHasOwner
<1>1. Init => InProgressHasOwner
  BY DEF Init, InProgressHasOwner, InProgress
<1>2. TypeOK /\ InProgressHasOwner /\ [Next]_vars => InProgressHasOwner'
  BY OwnerStep
<1>3. QED
  BY <1>1, <1>2, TypeCorrect, PTL DEF Spec

-----------------------------------------------------------------------------
(* LoggedOn means an accepted logon with heartbeats.                       *)

\* The strengthening: an acceptance on its way to the machine, in a channel
\* or in the hands of a call, already has its heartbeat.
AcceptedHasHeartbeat ==
    \/ heartbeat
    \/ /\ fsm # "LoggedOn"
       /\ \A a \in Attempts :
             outcome[a] # "ok" /\ result[a] # "ok" /\ pc[a] # "succeed"

LEMMA HeartbeatStep ==
    ASSUME TypeOK, AcceptedHasHeartbeat, [Next]_vars
    PROVE  AcceptedHasHeartbeat'
<1> SUFFICES ASSUME ~heartbeat'
             PROVE  /\ fsm' # "LoggedOn"
                    /\ \A a \in Attempts :
                          outcome'[a] # "ok" /\ result'[a] # "ok" /\ pc'[a] # "succeed"
  BY DEF AcceptedHasHeartbeat
<1>1. ~heartbeat
  <2>1. CASE UNCHANGED heartbeat
    BY <2>1
  <2>2. CASE HandleLogOnOK
    BY <2>2 DEF HandleLogOnOK
  <2>3. QED
    BY <2>1, <2>2 DEF Next, vars, linkVars, Call, Handlers, Environment, Begin,
       BeginRefused, Prepare, PollDone, PollFailed, EnterLoggingOn, Register, Dial, Connect,
       SendLogOn,
       SendLogOnFailed, WaitResult, WaitCancelled, Succeed, ClearStore, CheckTerminal,
       ForceFailed, HandleMalformed, HandleChannelEncryptRequest,
       HandleChannelEncryptResult, SendKeyedLogOn, HandleLogOnDenied, HandleLoggedOff,
       FinishFailure, CallerCancels, CMAnswers, CMLogsOff, Drop, CloseSocket, Lose, Reconnect
<1>2. /\ fsm # "LoggedOn"
      /\ \A a \in Attempts :
            outcome[a] # "ok" /\ result[a] # "ok" /\ pc[a] # "succeed"
  BY <1>1 DEF AcceptedHasHeartbeat
<1>3. ASSUME NEW e \in {"Begin", "LoggingOn", "Fail", "Disconnect"}, Fire(e)
      PROVE  fsm' # "LoggedOn"
  BY <1>2, <1>3 DEF Fire, From, To
<1>4. ASSUME NEW r \in Errors, Offer(r)
      PROVE  \A a \in Attempts : result'[a] # "ok"
  BY <1>2, <1>4 DEF Offer, TypeOK, Errors
<1>5. ASSUME NEW a \in Attempts, NEW l \in PCs \ {"succeed"}, Goto(a, l)
      PROVE  \A b \in Attempts : pc'[b] # "succeed"
  BY <1>2, <1>5 DEF Goto, TypeOK
<1>6. ASSUME NEW a \in Attempts, Call(a)
      PROVE  /\ fsm' # "LoggedOn"
             /\ \A b \in Attempts :
                   outcome'[b] # "ok" /\ result'[b] # "ok" /\ pc'[b] # "succeed"
  <2>1. ~Succeed(a)
    BY <1>2 DEF Succeed
  <2>2. fsm' # "LoggedOn"
    BY <1>2, <1>3, <1>6, <2>1 DEF Call, Begin, BeginRefused, Prepare, PollDone, PollFailed,
       EnterLoggingOn, Register, Dial, SendLogOn, SendLogOnFailed, WaitResult,
       WaitCancelled, ClearStore, CheckTerminal, ForceFailed
  <2>3. \A b \in Attempts : outcome'[b] # "ok"
    BY <1>2, <1>6, <2>1 DEF TypeOK, Call, Begin, BeginRefused, Prepare, PollDone, PollFailed,
       EnterLoggingOn, Register, Dial, SendLogOn, SendLogOnFailed, WaitResult,
       WaitCancelled, ClearStore, CheckTerminal, ForceFailed, Return
  <2>4. \A b \in Attempts : result'[b] # "ok"
    <3>1. CASE SendLogOnFailed(a)
      BY <3>1, <1>4 DEF SendLogOnFailed, Errors
    <3>2. CASE WaitResult(a)
      BY <1>2, <3>2 DEF WaitResult, TypeOK
    <3>3. CASE UNCHANGED result
      BY <1>2, <3>3
    <3>4. QED
      BY <1>6, <3>1, <3>2, <3>3 DEF Call, Begin, BeginRefused, Prepare, PollDone, PollFailed,
         EnterLoggingOn, Register, Dial, SendLogOn, WaitCancelled, Succeed, ClearStore,
         CheckTerminal, ForceFailed
  <2>5. \A b \in Attempts : pc'[b] # "succeed"
    <3>1. CASE WaitResult(a)
      <4>1. Goto(a, "clear") \/ Goto(a, "exit")
        BY <1>2, <3>1 DEF WaitResult, Return
      <4>2. QED
        BY <4>1, <1>5 DEF PCs
    <3>2. CASE ~WaitResult(a)
      <4>1. \E l \in PCs \ {"succeed"} : Goto(a, l)
        BY <1>6, <3>2 DEF Call, Begin, BeginRefused, Prepare, PollDone, PollFailed,
           EnterLoggingOn, Register, Dial, SendLogOn, SendLogOnFailed, WaitCancelled,
           Succeed, ClearStore, CheckTerminal, ForceFailed, Return, PCs
      <4>2. QED
        BY <4>1, <1>5
    <3>3. QED
      BY <3>1, <3>2
  <2>6. QED
    BY <2>2, <2>3, <2>4, <2>5
<1>7. ASSUME Handlers \/ Environment
      PROVE  UNCHANGED <<pc, outcome>>
  BY <1>7 DEF Handlers, Environment, HandleMalformed, HandleChannelEncryptRequest,
     HandleChannelEncryptResult, SendKeyedLogOn, HandleLogOnOK, HandleLogOnDenied,
     HandleLoggedOff, FinishFailure, CallerCancels, CMAnswers, CMLogsOff, Drop, CloseSocket, Lose,
     Reconnect, callVars
<1>8. CASE Handlers
  <2>1. fsm' # "LoggedOn"
    BY <1>2, <1>3, <1>8 DEF Handlers, HandleMalformed, HandleChannelEncryptRequest,
       HandleChannelEncryptResult, SendKeyedLogOn, HandleLogOnOK, HandleLogOnDenied,
       HandleLoggedOff, FinishFailure
  <2>2. \A a \in Attempts : result'[a] # "ok"
    <3>1. CASE UNCHANGED result
      BY <1>2, <3>1
    <3>2. ASSUME NEW e \in Errors, FinishFailure(e) PROVE \A a \in Attempts : result'[a] # "ok"
      BY <3>2, <1>4 DEF FinishFailure
    <3>3. CASE HandleLogOnOK
      BY <1>2, <3>3 DEF HandleLogOnOK
    <3>4. QED
      BY <1>8, <3>1, <3>2, <3>3 DEF Handlers, HandleMalformed, HandleChannelEncryptRequest,
         HandleChannelEncryptResult, SendKeyedLogOn, HandleLogOnDenied, HandleLoggedOff
  <2>3. QED
    BY <1>2, <1>7, <1>8, <2>1, <2>2
<1>9. CASE Environment
  BY <1>2, <1>9 DEF Environment, CallerCancels, CMAnswers, CMLogsOff, Drop, CloseSocket, Lose,
     Reconnect, callVars
<1>10. CASE UNCHANGED vars
  BY <1>2, <1>10 DEF vars, callVars
<1>11. QED
  BY <1>6, <1>8, <1>9, <1>10 DEF Next

\* The machine shows LoggedOn, and LogOn returns nil, only after the CM has
\* accepted a logon and heartbeats were started.
THEOREM LoggedOnIsAccepted == Spec => []LoggedOnHasHeartbeat
<1>1. Init => AcceptedHasHeartbeat
  BY DEF Init, AcceptedHasHeartbeat
<1>2. TypeOK /\ AcceptedHasHeartbeat /\ [Next]_vars => AcceptedHasHeartbeat'
  BY HeartbeatStep
<1>3. AcceptedHasHeartbeat => LoggedOnHasHeartbeat
  BY DEF AcceptedHasHeartbeat, LoggedOnHasHeartbeat
<1>4. QED
  BY <1>1, <1>2, <1>3, TypeCorrect, PTL DEF Spec

-----------------------------------------------------------------------------
(* The password of a successful login is wiped.                            *)

\* The strengthening: a call that succeeded is past the steps that register
\* its details, and it takes no new ones.
WipedInv ==
    /\ RetainedDetailsWiped
    /\ \A a \in Attempts : outcome[a] = "ok" => pc[a] \in {"exit", "fail", "done"}

\* Succeed wipes what activeDetails holds, the details of the call itself or of
\* one that registered later.
LEMMA WipedStep ==
    ASSUME TypeOK, WipedInv, [Next]_vars
    PROVE  WipedInv'
<1>1. ASSUME UNCHANGED <<pc, outcome, secret, activeDetails>> PROVE WipedInv'
  BY <1>1 DEF WipedInv, RetainedDetailsWiped
<1>2. ASSUME NEW a \in Attempts, Begin(a) PROVE WipedInv'
  <2>1. outcome[a] # "ok" /\ UNCHANGED <<outcome, activeDetails>>
    BY <1>2 DEF Begin, WipedInv, slotVars, keyVars
  <2>2. \A b \in Attempts \ {a} : pc'[b] = pc[b] /\ secret'[b] = secret[b]
    BY <1>2 DEF Begin, Goto, TypeOK
  <2>3. QED
    BY <2>1, <2>2 DEF WipedInv, RetainedDetailsWiped
<1>3. ASSUME NEW a \in Attempts, Register(a) PROVE WipedInv'
  <2>1. outcome[a] # "ok" /\ UNCHANGED <<outcome, secret>> /\ activeDetails' \in {activeDetails, a}
    BY <1>3 DEF Register, WipedInv
  <2>2. \A b \in Attempts \ {a} : pc'[b] = pc[b]
    BY <1>3 DEF Register, Goto, TypeOK
  <2>3. QED
    BY <2>1, <2>2 DEF WipedInv, RetainedDetailsWiped
<1>4. ASSUME NEW a \in Attempts, Succeed(a) PROVE WipedInv'
  <2>1. \A b \in Attempts : activeDetails = b => ~secret'[b]
    BY <1>4 DEF Succeed
  <2>2. pc'[a] = "exit" /\ UNCHANGED activeDetails
    BY <1>4 DEF Succeed, Return, Goto, TypeOK, slotVars, keyVars
  <2>3. \A b \in Attempts \ {a} : pc'[b] = pc[b] /\ outcome'[b] = outcome[b]
    BY <1>4 DEF Succeed, Return, Goto, TypeOK
  <2>4. QED
    BY <2>1, <2>2, <2>3 DEF WipedInv, RetainedDetailsWiped
\* The other steps of a call touch no details, and no outcome becomes "ok".
<1>5. ASSUME NEW a \in Attempts, Call(a), ~Begin(a), ~Register(a), ~Succeed(a) PROVE WipedInv'
  <2>1. UNCHANGED <<secret, activeDetails>>
    BY <1>5 DEF Call, BeginRefused, Prepare, PollDone, PollFailed, EnterLoggingOn, Dial,
       SendLogOn, SendLogOnFailed, WaitResult, WaitCancelled, ClearStore, CheckTerminal,
       ForceFailed, slotVars, keyVars
  <2>2. \A b \in Attempts \ {a} : pc'[b] = pc[b] /\ outcome'[b] = outcome[b]
    BY <1>5 DEF Call, BeginRefused, Prepare, PollDone, PollFailed, EnterLoggingOn, Dial,
       SendLogOn, SendLogOnFailed, WaitResult, WaitCancelled, ClearStore, CheckTerminal,
       ForceFailed, Return, Goto, TypeOK
  <2>3. outcome'[a] = "ok" => outcome[a] = "ok" /\ pc'[a] \in {"exit", "fail", "done"}
    <3>1. CASE CheckTerminal(a) \/ ForceFailed(a)
      BY <3>1 DEF CheckTerminal, ForceFailed, Goto, TypeOK
    <3>2. CASE ~CheckTerminal(a) /\ ~ForceFailed(a)
      <4>1. outcome[a] # "ok"
        BY <1>5, <3>2 DEF WipedInv, Call, BeginRefused, Prepare, PollDone, PollFailed,
           EnterLoggingOn, Dial, SendLogOn, SendLogOnFailed, WaitResult, WaitCancelled,
           ClearStore
      <4>2. outcome'[a] # "ok"
        BY <1>5, <3>2, <4>1 DEF Call, BeginRefused, Prepare, PollDone, PollFailed,
           EnterLoggingOn, Dial, SendLogOn, SendLogOnFailed, WaitResult, WaitCancelled,
           ClearStore, Return, TypeOK
      <4>3. QED
        BY <4>2
    <3>3. QED
      BY <3>1, <3>2
  <2>4. QED
    BY <2>1, <2>2, <2>3 DEF WipedInv, RetainedDetailsWiped
<1>6. CASE Handlers
  BY <1>1, <1>6 DEF Handlers, HandleMalformed, HandleChannelEncryptRequest,
     HandleChannelEncryptResult, SendKeyedLogOn, HandleLogOnOK, HandleLogOnDenied,
     HandleLoggedOff, FinishFailure, slotVars, keyVars
<1>7. CASE Environment
  BY <1>1, <1>7 DEF Environment, CallerCancels, CMAnswers, CMLogsOff, Drop, CloseSocket, Lose,
     Reconnect, callVars, slotVars, keyVars
<1>8. CASE UNCHANGED vars
  BY <1>1, <1>8 DEF vars, callVars, slotVars, keyVars
<1>9. QED
  BY <1>2, <1>3, <1>4, <1>5, <1>6, <1>7, <1>8 DEF Next

\* Whatever logins overlap, the details that stay behind after a successful
\* one hold no password.
THEOREM PasswordWiped == Spec => []RetainedDetailsWiped
<1>1. Init => WipedInv
  BY DEF Init, WipedInv, RetainedDetailsWiped
<1>2. TypeOK /\ WipedInv /\ [Next]_vars => WipedInv'
  BY WipedStep
<1>3. WipedInv => RetainedDetailsWiped
  BY DEF WipedInv
<1>4. QED
  BY <1>1, <1>2, <1>3, TypeCorrect, PTL DEF Spec

-----------------------------------------------------------------------------
(* A logon over TCP is encrypted, save in the two cases the code leaves.   *)

\* The strengthening: a handler between key switch and logon whose connection
\* is still the last one dialled finds it encrypted, or finds it lost.
KeyedIsCiphered == link # "down" /\ dials \in keyed => ciphered

\* The cipher goes only with the connection, and the next one is a new dial.
LEMMA KeyedStep ==
    ASSUME TypeOK, KeyedIsCiphered, [Next]_vars
    PROVE  KeyedIsCiphered'
<1>1. ASSUME UNCHANGED <<link, dials, ciphered>>, keyed' \subseteq keyed PROVE KeyedIsCiphered'
  BY <1>1 DEF KeyedIsCiphered
<1>2. ASSUME NEW kind \in Transports, Connect(kind), UNCHANGED keyed PROVE KeyedIsCiphered'
  <2>1. dials' = dials + 1 /\ keyed' \subseteq 0..dials /\ dials \in Nat
    BY <1>2 DEF Connect, TypeOK
  <2>2. dials' \notin keyed'
    BY <2>1
  <2>3. QED
    BY <2>2 DEF KeyedIsCiphered
<1>3. ASSUME NEW a \in Attempts, Call(a) PROVE KeyedIsCiphered'
  <2>1. keyed' = keyed
    BY <1>3 DEF Call, Begin, BeginRefused, Prepare, PollDone, PollFailed, EnterLoggingOn,
       Register, Dial, SendLogOn, SendLogOnFailed, WaitResult, WaitCancelled, Succeed,
       ClearStore, CheckTerminal, ForceFailed, keyVars
  <2>2. CASE Dial(a)
    BY <1>1, <1>2, <2>1, <2>2 DEF Dial, linkVars
  <2>3. CASE ~Dial(a)
    <3>1. UNCHANGED <<link, dials, ciphered>>
      BY <1>3, <2>3 DEF Call, Begin, BeginRefused, Prepare, PollDone, PollFailed, EnterLoggingOn,
         Register, SendLogOn, SendLogOnFailed, WaitResult, WaitCancelled, Succeed,
         ClearStore, CheckTerminal, ForceFailed, linkVars
    <3>2. QED
      BY <1>1, <2>1, <3>1
  <2>4. QED
    BY <2>2, <2>3
<1>4. CASE HandleChannelEncryptResult
  <2>1. CASE tempKey
    BY <1>4, <2>1 DEF HandleChannelEncryptResult, KeyedIsCiphered
  <2>2. CASE ~tempKey
    BY <1>1, <1>4, <2>2 DEF HandleChannelEncryptResult, keyVars
  <2>3. QED
    BY <2>1, <2>2
<1>5. CASE Handlers /\ ~HandleChannelEncryptResult
  BY <1>1, <1>5 DEF Handlers, HandleMalformed, HandleChannelEncryptRequest, SendKeyedLogOn,
     HandleLogOnOK, HandleLogOnDenied, HandleLoggedOff, FinishFailure, keyVars, linkVars
<1>6. CASE Environment
  <2>1. keyed' = keyed
    BY <1>6 DEF Environment, CallerCancels, CMAnswers, CMLogsOff, Drop, CloseSocket, Lose,
       Reconnect, keyVars
  <2>2. CASE Drop \/ CloseSocket
    BY <2>2 DEF Drop, CloseSocket, Lose, KeyedIsCiphered
  <2>3. CASE Reconnect
    BY <1>2, <2>1, <2>3 DEF Reconnect
  <2>4. QED
    BY <1>1, <1>6, <2>1, <2>2, <2>3 DEF Environment, CallerCancels, CMAnswers, CMLogsOff,
       linkVars
<1>7. CASE UNCHANGED vars
  BY <1>1, <1>7 DEF vars, keyVars, linkVars
<1>8. QED
  BY <1>3, <1>4, <1>5, <1>6, <1>7 DEF Next

\* Who sends a logon: a handler past its key switch, or a call that dialled a
\* WebSocket.  The handler sends in clear only on a later connection.
LEMMA LogonStep ==
    ASSUME TypeOK, KeyedIsCiphered, [Next]_vars, logons' > logons
    PROVE  \/ ciphered
           \/ \E a \in Attempts : pc[a] = "send" /\ server[a] = "ws"
           \/ \E n \in keyed \ keyed' : n < dials
<1>1. logons \in Nat
  BY DEF TypeOK
<1>2. logons' # logons /\ ~ (logons' = 0) /\ ~ (logons' = logons - 1)
  BY <1>1
<1>3. ASSUME NEW a \in Attempts, Call(a) PROVE pc[a] = "send" /\ server[a] = "ws"
  BY <1>2, <1>3 DEF Call, Begin, BeginRefused, Prepare, PollDone, PollFailed, EnterLoggingOn,
     Register, Dial, Connect, SendLogOn, SendLogOnFailed, WaitResult, WaitCancelled, Succeed,
     ClearStore, CheckTerminal, ForceFailed, linkVars
<1>4. ASSUME NEW n \in keyed, SendKeyedLogOn(n)
      PROVE  ciphered \/ \E m \in keyed \ keyed' : m < dials
  <2>1. n \in keyed \ keyed' /\ link # "down"
    BY <1>2, <1>4 DEF SendKeyedLogOn
  <2>2. n \in 0..dials /\ dials \in Nat
    BY DEF TypeOK
  <2>3. CASE n = dials
    BY <2>1, <2>3 DEF KeyedIsCiphered
  <2>4. CASE n # dials
    <3>1. n < dials
      BY <2>2, <2>4
    <3>2. QED
      BY <2>1, <3>1
  <2>5. QED
    BY <2>3, <2>4
<1>5. CASE Handlers
  <2>1. \E n \in keyed : SendKeyedLogOn(n)
    BY <1>2, <1>5 DEF Handlers, HandleMalformed, HandleChannelEncryptRequest,
       HandleChannelEncryptResult, HandleLogOnOK, HandleLogOnDenied, HandleLoggedOff,
       FinishFailure, linkVars
  <2>2. QED
    BY <1>4, <2>1
<1>6. ~Environment
  BY <1>2 DEF Environment, CallerCancels, CMAnswers, CMLogsOff, Drop, CloseSocket, Lose,
     Reconnect, Connect, linkVars
<1>7. ~UNCHANGED vars
  BY <1>2 DEF vars, linkVars
<1>8. QED
  BY <1>3, <1>5, <1>6, <1>7 DEF Next

LEMMA KeyedHolds == Spec => []KeyedIsCiphered
<1>1. Init => KeyedIsCiphered
  BY DEF Init, KeyedIsCiphered
<1>2. TypeOK /\ KeyedIsCiphered /\ [Next]_vars => KeyedIsCiphered'
  BY KeyedStep
<1>3. QED
  BY <1>1, <1>2, TypeCorrect, PTL DEF Spec

\* On a TCP connection a logon leaves encrypted, whatever session keys and
\* details an earlier connection left, unless the call dialled a WebSocket or
\* the connection was replaced between the handler's key switch and its send.
THEOREM LogonsAreEncrypted == Spec => LogonAfterHandshake
<1>1. TypeOK /\ KeyedIsCiphered /\ [Next]_vars =>
        (logons' > logons /\ link = "tcp" =>
            \/ ciphered
            \/ \E a \in Attempts : pc[a] = "send" /\ server[a] = "ws"
            \/ \E n \in keyed \ keyed' : n < dials)
  BY LogonStep
<1>2. QED
  BY <1>1, TypeCorrect, KeyedHolds, PTL DEF Spec, LogonAfterHandshake

\* Where the directory lists TCP servers only, a logon in clear needs a second
\* connection: the one whose key its handler switched is no longer the last
\* one dialled.  In particular no logon on the first connection is in clear.
THEOREM TcpLogonsAreEncrypted ==
    ASSUME "ws" \notin Transports
    PROVE  Spec => [][logons' > logons => ciphered \/ \E n \in keyed \ keyed' : n < dials]_vars
<1> DEFINE NoWebSocket == \A a \in Attempts : server[a] # "ws"
           Plain == link # "ws" /\ NoWebSocket
<1>1. Init => Plain
  BY DEF Init
<1>2. TypeOK /\ Plain /\ [Next]_vars => Plain'
  <2> SUFFICES ASSUME TypeOK, Plain, [Next]_vars PROVE Plain'
    OBVIOUS
  <2>1. ASSUME NEW kind \in Transports, Connect(kind) PROVE link' # "ws"
    BY <2>1 DEF Connect
  <2>2. ASSUME NEW a \in Attempts, Call(a), ~Dial(a) PROVE UNCHANGED <<link, server>>
    BY <2>2 DEF Call, Begin, BeginRefused, Prepare, PollDone, PollFailed, EnterLoggingOn,
       Register, SendLogOn, SendLogOnFailed, WaitResult, WaitCancelled, Succeed,
       ClearStore, CheckTerminal, ForceFailed, linkVars
  <2>3. ASSUME NEW a \in Attempts, Dial(a) PROVE Plain'
    BY <2>1, <2>3 DEF Dial, TypeOK, linkVars
  <2>4. CASE Handlers
    BY <2>4 DEF Handlers, HandleMalformed, HandleChannelEncryptRequest,
       HandleChannelEncryptResult, SendKeyedLogOn, HandleLogOnOK, HandleLogOnDenied,
       HandleLoggedOff, FinishFailure, linkVars
  <2>5. CASE Environment
    BY <2>1, <2>5 DEF Environment, CallerCancels, CMAnswers, CMLogsOff, Drop, CloseSocket, Lose,
       Reconnect, callVars, linkVars
  <2>6. CASE UNCHANGED vars
    BY <2>6 DEF vars, callVars, linkVars
  <2>7. QED
    BY <2>2, <2>3, <2>4, <2>5, <2>6 DEF Next
<1>3. TypeOK /\ KeyedIsCiphered /\ Plain /\ [Next]_vars =>
        (logons' > logons => ciphered \/ \E n \in keyed \ keyed' : n < dials)
  BY LogonStep
<1>4. QED
  BY <1>1, <1>2, <1>3, TypeCorrect, KeyedHolds, PTL DEF Spec
=============================================================================
