---------------------------- MODULE Authenticator ----------------------------
(***************************************************************************)
(* pkg/steam/auth: the Authenticator.  LogOn and LogOnAnonymous calls run  *)
(* on their callers' goroutines; Connection Manager (CM) packets are       *)
(* handled on the socket's worker pool; both meet in the finite state      *)
(* machine, in three atomic slots (loginResult, loginCancel,               *)
(* activeDetails), in the session key waiting for activation (tempKey)     *)
(* and in the token store.                                                 *)
(*                                                                         *)
(* One account is modelled; its token is "none" or "token".  The CM and    *)
(* the connector (aoni-contrib, outside this repository) are the           *)
(* environment: they connect, drop, answer, deny or log off whenever the   *)
(* protocol lets them.                                                     *)
(***************************************************************************)
EXTENDS Naturals

CONSTANTS
    Attempts,    \* the LogOn and LogOnAnonymous calls of a behaviour
    NoAttempt,   \* an empty slot
    Transports,  \* kinds of CM server in the directory
    MaxDials     \* bound on the connections of a behaviour

ASSUME NoAttemptAssumption  == NoAttempt \notin Attempts
ASSUME TransportsAssumption == Transports \subseteq {"tcp", "ws"}
ASSUME MaxDialsAssumption   == MaxDials \in Nat

VARIABLES
    fsm,            \* state of the login machine
    pc,             \* pc[a]: where call a is
    anonymous,      \* anonymous[a]: call a is LogOnAnonymous
    cause,          \* cause[a]: why the loginCtx of a is done, or "none"
    result,         \* result[a]: content of the one-slot channel of a
    token,          \* token[a]: refresh token in the details of a
    secret,         \* secret[a]: the details of a still hold the password
    server,         \* server[a]: kind of server a believes it talks to
    outcome,        \* outcome[a]: what a returned
    loginResult,    \* call whose result channel is registered
    loginCancel,    \* call whose cancel function is registered
    activeDetails,  \* call whose details the handlers use
    tempKey,        \* a session key waits for ChannelEncryptResult
    keyed,          \* handlers between key switch and logon: numbers of the
                    \* last connection dialled when they switched the key
    failing,        \* errors of handlers between the halves of failLogin
    store,          \* refresh token of the account in the Store
    link,           \* the transport: "down" or the kind of its server
    ciphered,       \* the transport encrypts
    dials,          \* connections made so far
    logons,         \* ClientLogon messages the CM has not answered
    cmSession,      \* the CM has accepted a logon on this transport
    inbox,          \* CM packets received and not handled
    heartbeat,      \* StartHeartbeat has succeeded
    closed          \* the socket was closed

callVars == <<pc, anonymous, cause, result, token, secret, server, outcome>>
slotVars == <<loginResult, loginCancel, activeDetails>>
linkVars == <<link, ciphered, dials, logons, cmSession, inbox, heartbeat, closed>>
keyVars == <<tempKey, keyed>>
vars == <<fsm, callVars, slotVars, keyVars, failing, store, linkVars>>

-----------------------------------------------------------------------------
States == {"Disconnected", "Authenticating", "LoggingOn", "LoggedOn", "Failed"}
InProgress == {"Authenticating", "LoggingOn"}

\* The transition rules: event -> source states and target.
From == [Begin      |-> {"Disconnected", "Failed", "LoggedOn"},
         LoggingOn  |-> {"Authenticating"},
         Success    |-> {"LoggingOn"},
         Fail       |-> {"Authenticating", "LoggingOn", "LoggedOn"},
         Disconnect |-> {"LoggedOn", "Failed", "Authenticating"}]
To == [Begin |-> "Authenticating", LoggingOn |-> "LoggingOn", Success |-> "LoggedOn",
       Fail |-> "Failed", Disconnect |-> "Disconnected"]

\* _ = fsm.Transition(e): an event the state has no rule for is ignored.
Fire(e) == fsm' = IF fsm \in From[e] THEN To[e] ELSE fsm

PCs == {"idle", "prepare", "polling", "ready", "setResult", "setCancel",
        "setDetails", "dial", "send", "sendFail", "wait", "succeed",
        "clear", "exit", "fail", "done"}
Live(a) == pc[a] \notin {"idle", "done"}

\* The errors a login is failed with: the CM's InvalidPassword, the expiry a
\* ClientLoggedOff reports, and any other.
Errors  == {"invalidPassword", "expired", "broken"}
Packets == {"encryptRequest", "encryptResult", "logonOK", "logonInvalidPassword",
            "logonDenied", "loggedOff", "loggedOffExpired"}
Slot    == Attempts \cup {NoAttempt}

TypeOK ==
    /\ fsm \in States
    /\ pc \in [Attempts -> PCs]
    /\ anonymous \in [Attempts -> BOOLEAN]
    /\ cause \in [Attempts -> Errors \cup {"none", "caller"}]
    /\ result \in [Attempts -> Errors \cup {"empty", "ok"}]
    /\ token \in [Attempts -> {"none", "token"}]
    /\ secret \in [Attempts -> BOOLEAN]
    /\ server \in [Attempts -> {"down", "tcp", "ws"}]
    /\ outcome \in [Attempts -> Errors \cup {"none", "ok", "inProgress", "cancelled"}]
    /\ loginResult \in Slot
    /\ loginCancel \in Slot
    /\ activeDetails \in Slot
    /\ tempKey \in BOOLEAN
    /\ keyed \subseteq 0..dials
    /\ failing \subseteq Errors
    /\ store \in {"none", "token"}
    /\ link \in {"down", "tcp", "ws"}
    /\ ciphered \in BOOLEAN
    /\ dials \in Nat
    /\ logons \in Nat
    /\ cmSession \in BOOLEAN
    /\ inbox \subseteq Packets
    /\ heartbeat \in BOOLEAN
    /\ closed \in BOOLEAN

\* A fresh Authenticator on a fresh socket; the Store may hold a token of an
\* earlier run of the program.
Init ==
    /\ fsm = "Disconnected"
    /\ pc = [a \in Attempts |-> "idle"]
    /\ anonymous = [a \in Attempts |-> FALSE]
    /\ cause = [a \in Attempts |-> "none"]
    /\ result = [a \in Attempts |-> "empty"]
    /\ token = [a \in Attempts |-> "none"]
    /\ secret = [a \in Attempts |-> FALSE]
    /\ server = [a \in Attempts |-> "down"]
    /\ outcome = [a \in Attempts |-> "none"]
    /\ loginResult = NoAttempt /\ loginCancel = NoAttempt /\ activeDetails = NoAttempt
    /\ tempKey = FALSE /\ keyed = {}
    /\ failing = {}
    /\ store \in {"none", "token"}
    /\ link = "down" /\ ciphered = FALSE /\ dials = 0 /\ logons = 0
    /\ cmSession = FALSE /\ inbox = {} /\ heartbeat = FALSE /\ closed = FALSE

-----------------------------------------------------------------------------
(* The two halves of failLogin and succeedLogin's send.                    *)

\* First half: cancel the registered login; the first cause is kept.
CancelLogin(e) ==
    cause' = IF loginCancel # NoAttempt /\ cause[loginCancel] = "none"
             THEN [cause EXCEPT ![loginCancel] = e]
             ELSE cause

\* Second half (and succeedLogin): a send that never blocks.
Offer(r) == result' = IF loginResult = NoAttempt \/ result[loginResult] # "empty"
                      THEN result
                      ELSE [result EXCEPT ![loginResult] = r]

Goto(a, l)    == pc' = [pc EXCEPT ![a] = l]
Return(a, o)  == Goto(a, "exit") /\ outcome' = [outcome EXCEPT ![a] = o]

-----------------------------------------------------------------------------
(* LogOn and LogOnAnonymous, step by step.                                 *)

\* Transition(EventBegin) succeeds.  An account login comes with its password,
\* a refresh token, or both.
Begin(a) ==
    /\ pc[a] = "idle"
    /\ fsm \in From.Begin
    /\ Fire("Begin")
    /\ \/ /\ Goto(a, "ready")
          /\ anonymous' = [anonymous EXCEPT ![a] = TRUE]
          /\ UNCHANGED <<token, secret>>
       \/ \E t \in {"none", "token"}, s \in BOOLEAN :
             /\ Goto(a, "prepare")
             /\ token' = [token EXCEPT ![a] = t]
             /\ secret' = [secret EXCEPT ![a] = s]
             /\ UNCHANGED anonymous
    /\ UNCHANGED <<cause, result, server, outcome, slotVars, keyVars, failing, store, linkVars>>

\* Transition(EventBegin) is refused: ErrAuthInProgress, and no deferred work.
BeginRefused(a) ==
    /\ pc[a] = "idle"
    /\ fsm \notin From.Begin
    /\ Goto(a, "done")
    /\ outcome' = [outcome EXCEPT ![a] = "inProgress"]
    /\ UNCHANGED <<fsm, anonymous, cause, result, token, secret, server,
                   slotVars, keyVars, failing, store, linkVars>>

\* prepareCredentials up to the password flow: validate, then a token from
\* the details or from the Store.
Prepare(a) ==
    /\ pc[a] = "prepare"
    /\ \/ /\ token[a] = "none" /\ ~secret[a]       \* ErrMissingPassword
          /\ Return(a, "broken")
          /\ UNCHANGED token
       \/ /\ token[a] = "token" \/ secret[a]
          /\ token' = [token EXCEPT ![a] = IF @ = "none" THEN store ELSE @]
          /\ Goto(a, IF token'[a] = "none" THEN "polling" ELSE "ready")
          /\ UNCHANGED outcome
    /\ UNCHANGED <<fsm, anonymous, cause, result, secret, server, slotVars,
                   keyVars, failing, store, linkVars>>

\* performPasswordAuth got a token from the poll and saves it.
PollDone(a) ==
    /\ pc[a] = "polling"
    /\ token' = [token EXCEPT ![a] = "token"]
    /\ store' = "token"
    /\ Goto(a, "ready")
    /\ UNCHANGED <<fsm, anonymous, cause, result, secret, server, outcome,
                   slotVars, keyVars, failing, linkVars>>

\* performPasswordAuth fails: the session could not begin, the guard code was
\* rejected, the context is done, or five minutes have passed.
PollFailed(a) ==
    /\ pc[a] = "polling"
    /\ Return(a, "broken")
    /\ UNCHANGED <<fsm, anonymous, cause, result, token, secret, server,
                   slotVars, keyVars, failing, store, linkVars>>

\* setState(StateLoggingOn), whose error is dropped.
EnterLoggingOn(a) ==
    /\ pc[a] = "ready"
    /\ Fire("LoggingOn")
    /\ Goto(a, "setResult")
    /\ UNCHANGED <<anonymous, cause, result, token, secret, server, outcome,
                   slotVars, keyVars, failing, store, linkVars>>

\* The three stores that make a the login the handlers act on.
Register(a) ==
    /\ \/ /\ pc[a] = "setResult"
          /\ loginResult' = a /\ Goto(a, "setCancel")
          /\ UNCHANGED <<loginCancel, activeDetails>>
       \/ /\ pc[a] = "setCancel"
          /\ loginCancel' = a /\ Goto(a, "setDetails")
          /\ UNCHANGED <<loginResult, activeDetails>>
       \/ /\ pc[a] = "setDetails"
          /\ activeDetails' = a /\ Goto(a, "dial")
          /\ UNCHANGED <<loginResult, loginCancel>>
    /\ UNCHANGED <<fsm, anonymous, cause, result, token, secret, server, outcome,
                   keyVars, failing, store, linkVars>>

\* A new transport connection: a TCP server opens with ChannelEncryptRequest.
Connect(kind) ==
    /\ ~closed /\ link = "down" /\ dials < MaxDials
    /\ link' = kind
    /\ ciphered' = FALSE
    /\ dials' = dials + 1
    /\ inbox' = IF kind = "tcp" THEN inbox \cup {"encryptRequest"} ELSE inbox
    /\ UNCHANGED <<logons, cmSession, heartbeat, closed>>

\* Use the transport that is up, or dial; a failed dial ends the login.
Dial(a) ==
    /\ pc[a] = "dial"
    /\ \/ /\ link # "down"
          /\ server' = [server EXCEPT ![a] = link]
          /\ Goto(a, "send")
          /\ UNCHANGED <<outcome, linkVars>>
       \/ \E kind \in Transports :
             /\ Connect(kind)
             /\ server' = [server EXCEPT ![a] = kind]
             /\ Goto(a, "send")
             /\ UNCHANGED outcome
       \/ /\ link = "down"
          /\ Return(a, "broken")
          /\ UNCHANGED <<server, linkVars>>
    /\ UNCHANGED <<fsm, anonymous, cause, result, token, secret, slotVars,
                   keyVars, failing, store>>

\* configureSession, then sendLogOn at once on a WebSocket; on TCP the logon
\* is sent by handleChannelEncryptResult.  A failed send runs failLogin.
SendLogOn(a) ==
    /\ pc[a] = "send"
    /\ \/ /\ server[a] # "ws"
          /\ Goto(a, "wait")
          /\ UNCHANGED <<cause, logons>>
       \/ /\ server[a] = "ws" /\ link # "down"
          /\ logons' = logons + 1
          /\ Goto(a, "wait")
          /\ UNCHANGED cause
       \/ /\ server[a] = "ws"
          /\ CancelLogin("broken")
          /\ Goto(a, "sendFail")
          /\ UNCHANGED logons
    /\ UNCHANGED <<fsm, anonymous, result, token, secret, server, outcome, slotVars, keyVars,
                   failing, store, link, ciphered, dials, cmSession, inbox, heartbeat, closed>>

SendLogOnFailed(a) ==
    /\ pc[a] = "sendFail"
    /\ Offer("broken")
    /\ Goto(a, "wait")
    /\ UNCHANGED <<fsm, anonymous, cause, token, secret, server, outcome,
                   slotVars, keyVars, failing, store, linkVars>>

\* waitForLogOn: the channel case of the select.
WaitResult(a) ==
    /\ pc[a] = "wait"
    /\ result[a] # "empty"
    /\ result' = [result EXCEPT ![a] = "empty"]
    /\ CASE result[a] = "ok" -> Goto(a, "succeed") /\ UNCHANGED outcome
         [] result[a] = "invalidPassword" -> Goto(a, "clear") /\ UNCHANGED outcome
         [] OTHER -> Return(a, result[a])
    /\ UNCHANGED <<fsm, anonymous, cause, token, secret, server, slotVars,
                   keyVars, failing, store, linkVars>>

\* Mutant: loginCtx is not derived from the caller's context.
WaitCancelledDetached(a) ==
    /\ pc[a] = "wait"
    /\ cause[a] \notin {"none", "caller"}
    /\ Return(a, "cancelled")
    /\ UNCHANGED <<fsm, anonymous, cause, result, token, secret, server,
                   slotVars, keyVars, failing, store, linkVars>>

\* waitForLogOn: the ctx.Done() case; with both ready, either may be taken.
WaitCancelled(a) ==
    /\ pc[a] = "wait"
    /\ cause[a] # "none"
    /\ Return(a, "cancelled")
    /\ UNCHANGED <<fsm, anonymous, cause, result, token, secret, server,
                   slotVars, keyVars, failing, store, linkVars>>

\* Mutant: the active details are not wiped.
SucceedUnwiped(a) ==
    /\ pc[a] = "succeed"
    /\ Fire("Success")
    /\ Return(a, "ok")
    /\ UNCHANGED <<anonymous, cause, result, token, secret, server, slotVars,
                   keyVars, failing, store, linkVars>>

\* Transition(EventSuccess), whose error is dropped; wipe the active details.
Succeed(a) ==
    /\ pc[a] = "succeed"
    /\ Fire("Success")
    /\ secret' = [d \in Attempts |-> secret[d] /\ d # activeDetails]
    /\ Return(a, "ok")
    /\ UNCHANGED <<anonymous, cause, result, token, server, slotVars,
                   keyVars, failing, store, linkVars>>

\* The CM rejected the token: store.Clear for the account of the details
\* (LogOnAnonymous passes an empty account name, another key of the Store).
ClearStore(a) ==
    /\ pc[a] = "clear"
    /\ store' = IF anonymous[a] THEN store ELSE "none"
    /\ Return(a, "invalidPassword")
    /\ UNCHANGED <<fsm, anonymous, cause, result, token, secret, server,
                   slotVars, keyVars, failing, linkVars>>

\* Mutant: ensureTerminalState takes LoggingOn for a terminal state.
CheckTerminalLoose(a) ==
    /\ pc[a] = "exit"
    /\ Goto(a, IF fsm \in {"LoggedOn", "LoggingOn"} THEN "done" ELSE "fail")
    /\ UNCHANGED <<fsm, anonymous, cause, result, token, secret, server, outcome,
                   slotVars, keyVars, failing, store, linkVars>>

\* The deferred ensureTerminalState: the check ...
CheckTerminal(a) ==
    /\ pc[a] = "exit"
    /\ Goto(a, IF fsm = "LoggedOn" THEN "done" ELSE "fail")
    /\ UNCHANGED <<fsm, anonymous, cause, result, token, secret, server, outcome,
                   slotVars, keyVars, failing, store, linkVars>>

\* ... and the transition it guards.
ForceFailed(a) ==
    /\ pc[a] = "fail"
    /\ Fire("Fail")
    /\ Goto(a, "done")
    /\ UNCHANGED <<anonymous, cause, result, token, secret, server, outcome,
                   slotVars, keyVars, failing, store, linkVars>>

-----------------------------------------------------------------------------
(* CM packet handlers.  Two are split: failLogin, whose first half cancels *)
(* and whose second half (FinishFailure) offers the error to the channel,  *)
(* and handleChannelEncryptResult, between key switch and logon.           *)

StartFailure(e) ==
    /\ e \notin failing
    /\ failing' = failing \cup {e}
    /\ CancelLogin(e)

Take(p) == p \in inbox /\ inbox' = inbox \ {p}

\* A worker resumes after cancel(err); handleLoggedOff goes on to
\* setState(StateDisconnected).
FinishFailure(e) ==
    /\ e \in failing
    /\ failing' = failing \ {e}
    /\ Offer(e)
    /\ IF e = "expired" THEN Fire("Disconnect") ELSE UNCHANGED fsm
    /\ UNCHANGED <<pc, anonymous, cause, token, secret, server, outcome,
                   slotVars, keyVars, store, linkVars>>

\* A packet whose payload cannot be read, or whose reply cannot be sent.
HandleMalformed(p) ==
    /\ p \in {"encryptRequest", "encryptResult", "logonOK"}
    /\ Take(p)
    /\ StartFailure("broken")
    /\ UNCHANGED <<fsm, pc, anonymous, result, token, secret, server, outcome, slotVars, keyVars,
                   store, link, ciphered, dials, logons, cmSession, heartbeat, closed>>

\* A session key is kept and its encrypted form sent; the server confirms it.
HandleChannelEncryptRequest ==
    /\ "encryptRequest" \in inbox
    /\ tempKey' = TRUE
    /\ \/ /\ link # "down"
          /\ inbox' = (inbox \ {"encryptRequest"})
                        \cup (IF link = "tcp" THEN {"encryptResult"} ELSE {})
          /\ UNCHANGED <<failing, cause>>
       \/ /\ Take("encryptRequest")
          /\ StartFailure("broken")
    /\ UNCHANGED <<fsm, pc, anonymous, result, token, secret, server, outcome, slotVars, keyed,
                   store, link, ciphered, dials, logons, cmSession, heartbeat, closed>>

\* Mutant: the session key is never activated.
HandleEncryptResultPlain ==
    /\ Take("encryptResult")
    /\ \/ /\ tempKey /\ dials \notin keyed
          /\ tempKey' = FALSE
          /\ keyed' = keyed \cup {dials}
          /\ UNCHANGED <<failing, cause>>
       \/ /\ ~tempKey
          /\ StartFailure("broken")
          /\ UNCHANGED keyVars
    /\ UNCHANGED <<fsm, pc, anonymous, result, token, secret, server, outcome, slotVars,
                   store, link, ciphered, dials, logons, cmSession, heartbeat, closed>>

\* handleChannelEncryptResult up to SetEncryptionKey: the waiting key is taken
\* and activated on the connection that is up now, if one is.  Without a key,
\* or with a bad EResult, the login fails; the bound is one such handler for
\* each connection.
HandleChannelEncryptResult ==
    /\ Take("encryptResult")
    /\ \/ /\ tempKey /\ dials \notin keyed
          /\ tempKey' = FALSE
          /\ keyed' = keyed \cup {dials}
          /\ ciphered' = (link # "down")
          /\ UNCHANGED <<failing, cause>>
       \/ /\ ~tempKey
          /\ StartFailure("broken")
          /\ UNCHANGED <<keyVars, ciphered>>
    /\ UNCHANGED <<fsm, pc, anonymous, result, token, secret, server, outcome, slotVars,
                   store, link, dials, logons, cmSession, heartbeat, closed>>

\* The rest of that handler: sendLogOn with the active details, on whatever
\* connection is up by then; without details, or when the send fails, the
\* login fails.
SendKeyedLogOn(n) ==
    /\ n \in keyed
    /\ keyed' = keyed \ {n}
    /\ \/ /\ activeDetails # NoAttempt /\ link # "down"
          /\ logons' = logons + 1
          /\ UNCHANGED <<failing, cause>>
       \/ /\ StartFailure("broken")
          /\ UNCHANGED logons
    /\ UNCHANGED <<fsm, pc, anonymous, result, token, secret, server, outcome, slotVars, tempKey,
                   store, link, ciphered, dials, cmSession, inbox, heartbeat, closed>>

\* Mutant: the error of StartHeartbeat is dropped.
HandleLogOnOKUnchecked ==
    /\ Take("logonOK")
    /\ heartbeat' = (heartbeat \/ ~closed)
    /\ Offer("ok")
    /\ UNCHANGED <<fsm, pc, anonymous, cause, token, secret, server, outcome, slotVars, keyVars,
                   failing, store, link, ciphered, dials, logons, cmSession, closed>>

\* An accepted logon: heartbeats are started before the login is told.
HandleLogOnOK ==
    /\ Take("logonOK")
    /\ IF closed
       THEN /\ StartFailure("broken")
            /\ UNCHANGED <<result, heartbeat>>
       ELSE /\ heartbeat' = TRUE
            /\ Offer("ok")
            /\ UNCHANGED <<failing, cause>>
    /\ UNCHANGED <<fsm, pc, anonymous, token, secret, server, outcome, slotVars, keyVars,
                   store, link, ciphered, dials, logons, cmSession, closed>>

HandleLogOnDenied ==
    /\ \/ Take("logonInvalidPassword") /\ StartFailure("invalidPassword")
       \/ Take("logonDenied") /\ StartFailure("broken")
    /\ UNCHANGED <<fsm, pc, anonymous, result, token, secret, server, outcome, slotVars, keyVars,
                   store, link, ciphered, dials, logons, cmSession, heartbeat, closed>>

\* ClientLoggedOff: an authentication error also fails the login first.
HandleLoggedOff ==
    /\ \/ /\ Take("loggedOff")
          /\ Fire("Disconnect")
          /\ UNCHANGED <<failing, cause>>
       \/ /\ Take("loggedOffExpired")
          /\ StartFailure("expired")
          /\ UNCHANGED fsm
    /\ UNCHANGED <<pc, anonymous, result, token, secret, server, outcome, slotVars, keyVars,
                   store, link, ciphered, dials, logons, cmSession, heartbeat, closed>>

-----------------------------------------------------------------------------
(* The environment.                                                        *)

\* The caller's context ends.
CallerCancels(a) ==
    /\ Live(a) /\ cause[a] = "none"
    /\ cause' = [cause EXCEPT ![a] = "caller"]
    /\ UNCHANGED <<fsm, pc, anonymous, result, token, secret, server, outcome,
                   slotVars, keyVars, failing, store, linkVars>>

\* The CM answers a logon.
CMAnswers ==
    /\ link # "down" /\ logons > 0
    /\ logons' = logons - 1
    /\ \E p \in {"logonOK", "logonInvalidPassword", "logonDenied"} :
          /\ inbox' = inbox \cup {p}
          /\ cmSession' = (cmSession \/ p = "logonOK")
    /\ UNCHANGED <<fsm, callVars, slotVars, keyVars, failing, store,
                   link, ciphered, dials, heartbeat, closed>>

\* The CM ends a session it has accepted.
CMLogsOff ==
    /\ cmSession
    /\ cmSession' = FALSE
    /\ \E p \in {"loggedOff", "loggedOffExpired"} : inbox' = inbox \cup {p}
    /\ UNCHANGED <<fsm, callVars, slotVars, keyVars, failing, store,
                   link, ciphered, dials, logons, heartbeat, closed>>

\* The transport is lost; packets a worker already holds may still be handled.
Lose ==
    /\ link' = "down" /\ ciphered' = FALSE
    /\ logons' = 0 /\ cmSession' = FALSE
    /\ inbox' \in SUBSET inbox
    /\ UNCHANGED <<fsm, callVars, slotVars, keyVars, failing, store, dials, heartbeat>>

Drop == link # "down" /\ Lose /\ UNCHANGED closed

\* Socket.Close
CloseSocket == ~closed /\ Lose /\ closed' = TRUE

\* The connector's reconnect loop.
Reconnect ==
    /\ dials > 0
    /\ \E kind \in Transports : Connect(kind)
    /\ UNCHANGED <<fsm, callVars, slotVars, keyVars, failing, store>>

-----------------------------------------------------------------------------
Call(a) ==
    \/ Begin(a) \/ BeginRefused(a) \/ Prepare(a) \/ PollDone(a) \/ PollFailed(a)
    \/ EnterLoggingOn(a) \/ Register(a) \/ Dial(a) \/ SendLogOn(a)
    \/ SendLogOnFailed(a) \/ WaitResult(a) \/ WaitCancelled(a) \/ Succeed(a)
    \/ ClearStore(a) \/ CheckTerminal(a) \/ ForceFailed(a)

Handlers ==
    \/ \E p \in Packets : HandleMalformed(p)
    \/ HandleChannelEncryptRequest \/ HandleChannelEncryptResult
    \/ \E n \in keyed : SendKeyedLogOn(n)
    \/ HandleLogOnOK \/ HandleLogOnDenied \/ HandleLoggedOff
    \/ \E e \in Errors : FinishFailure(e)

Environment ==
    \/ \E a \in Attempts : CallerCancels(a)
    \/ CMAnswers \/ CMLogsOff \/ Drop \/ CloseSocket \/ Reconnect

Next == (\E a \in Attempts : Call(a)) \/ Handlers \/ Environment

Spec == Init /\ [][Next]_vars

\* A runnable goroutine runs: a call that has begun is not abandoned by the
\* scheduler.  Nothing is asked of the CM, of the network or of callers.
FairSpec == Spec /\ \A a \in Attempts : WF_vars(Live(a) /\ Call(a))

-----------------------------------------------------------------------------
(* Properties.                                                             *)

\* No login leaves the machine stuck: while it is Authenticating or LoggingOn
\* (and so refuses every LogOn with ErrAuthInProgress) some call is still
\* running that will leave that state (ensureTerminalState).
InProgressHasOwner == fsm \in InProgress => \E a \in Attempts : Live(a)

\* LoggedOn, and a LogOn that returned nil, mean the CM accepted a logon and
\* heartbeats were started first, whatever stale answers and cancelled calls
\* were around (handleLogOnResponse, succeedLogin, waitForLogOn).  It speaks of
\* the first login: heartbeats, once started, go on until Close (Heartbeat).
LoggedOnHasHeartbeat ==
    (fsm = "LoggedOn" \/ \E a \in Attempts : outcome[a] = "ok") => heartbeat

\* The details the handlers keep after a successful login hold no password,
\* even when logins overlap (waitForLogOn wipes what activeDetails holds).
RetainedDetailsWiped ==
    \A a \in Attempts : activeDetails = a /\ outcome[a] = "ok" => ~secret[a]

\* A ClientLogon leaves a TCP connection unencrypted in two cases only: by a
\* call that was given a WebSocket when it dialled and does not look again at
\* what took its place (isWebSocketServer), or by a handler whose connection,
\* the one it switched the key of, was lost before it sent (SetEncryptionKey
\* and conn.Send each act on the connection of their own moment).
LogonAfterHandshake ==
    [][logons' > logons /\ link = "tcp" =>
          \/ ciphered
          \/ \E a \in Attempts : pc[a] = "send" /\ server[a] = "ws"
          \/ \E n \in keyed \ keyed' : n < dials]_vars

\* A call whose context is done, or whose channel holds a result, returns.
CallReturns ==
    \A a \in Attempts :
        (Live(a) /\ (cause[a] # "none" \/ result[a] # "empty")) ~> pc[a] = "done"
=============================================================================
