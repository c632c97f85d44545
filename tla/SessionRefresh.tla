----------------------------- MODULE SessionRefresh -----------------------------
(***************************************************************************)
(* The web session behind internal/client/session: Reconnect and its LogOn,*)
(* the refresh loop, Refresh and ForceRefresh with their single flights,   *)
(* Verify, Clear, Authenticate and Refresh of auth/websession on one cookie*)
(* jar, the router that refreshes once when a request finds the session    *)
(* expired, and the community client, which refreshes the web session past *)
(* the Session.  Each critical section of a mutex is a step, and so is each*)
(* question to Steam, whose answer may meet a changed session.  The model  *)
(* begins when a first LogOn has returned and left a refresh token, but no *)
(* web session: until then Refresh fails with ErrMissingCredentials.       *)
(***************************************************************************)
EXTENDS Naturals

CONSTANTS
    Reconnects,   \* callers of Session.Reconnect
    Requests,     \* callers of ServiceRouter.Do
    Visits,       \* callers of Request of the community client
    Ticker,       \* the goroutine of StartRefreshLoop
    MaxExpiries   \* bound: how often tokens or cookies expire at Steam

\* Who may call several makes one of these calls.
Callers == Reconnects \cup Requests \cup Visits
Threads == Callers \cup {Ticker}
Nobody  == "nobody"

\* The web sessions: the first, and one for each Reconnect, which sets web to
\* nil so that the next call of Web makes another.
First == "first"
Webs  == {First} \cup Reconnects

\* The single flights: two of the Session, and one of each web session.
Keys == {"refresh", "force_refresh"} \cup Webs

ASSUME ThreadsAssumption ==
    /\ Ticker \notin Callers /\ Nobody \notin Threads
    /\ Reconnects \cap {First, "refresh", "force_refresh"} = {}
ASSUME ExpiriesAssumption == MaxExpiries \in Nat

VARIABLES
    slow,      \* the device's platform takes authSlowPath, not applyFastPath
    access,    \* the access token of the socket and service clients
    web,       \* the web session that Session.Web returns
    auth,      \* auth[w]: WebSession.isAuth
    jar,       \* jar[w]: the login cookie in its jar
    known,     \* known[w]: w keeps a refresh token (lastRefreshToken)
    flight,    \* flight[k]: who leads the single flight of k
    kind,      \* kind[t]: the call t makes
    pc,        \* pc[t]: where t is
    ob,        \* ob[t]: the web session t works on
    tok,       \* tok[t]: the access token t was given, or the cookie it sent
    clean,     \* those whose Refresh leads, or returned from, a flight in
               \* which nothing has expired up to now
    expiries   \* how often something expired

webVars  == <<web, auth, jar, known>>
sessVars == <<slow, access, expiries>>
workVars == <<flight, kind, pc, ob, tok, clean>>
vars == <<sessVars, webVars, workVars>>

\* A token or cookie that Steam accepts, or one it does not: none, or expired.
Tokens == {"bad", "good"}
Kinds == {"loop", "none", "reconnect", "request", "visit"}
Key(t) ==
    CASE kind[t] = "loop"  -> "force_refresh"
      [] kind[t] = "visit" -> ob[t]
      [] OTHER -> "refresh"

Verifying == {"isauth", "send", "answer"}
Renewing  == {"generate", "clear", "seed", "mark", "settle"}
PCs == {"new", "call", "wait", "retry", "resend", "idle", "done"}
         \cup Verifying \cup Renewing

\* t runs the function of a single flight.
Leads(t) == pc[t] \in Renewing \/ (t # Ticker /\ pc[t] \in Verifying)

TypeOK ==
    /\ slow \in BOOLEAN /\ access \in Tokens /\ expiries \in 0 .. MaxExpiries
    /\ web \in Webs /\ auth \in [Webs -> BOOLEAN] /\ jar \in [Webs -> Tokens]
    /\ known \in [Webs -> BOOLEAN] /\ clean \subseteq Threads
    /\ flight \in [Keys -> Threads \cup {Nobody}]
    /\ kind \in [Threads -> Kinds] /\ kind[Ticker] = "loop"
    /\ pc \in [Threads -> PCs] /\ ob \in [Threads -> Webs] /\ tok \in [Threads -> Tokens]
    /\ pc[Ticker] \in {"idle", "call"} \cup Verifying \cup Renewing

Init ==
    /\ slow \in BOOLEAN /\ access = "bad"
    /\ web = First /\ auth = [w \in Webs |-> FALSE] /\ jar = [w \in Webs |-> "bad"]
    /\ known = [w \in Webs |-> FALSE] /\ clean = {}
    /\ flight = [k \in Keys |-> Nobody]
    /\ kind = [t \in Threads |-> IF t = Ticker THEN "loop" ELSE "none"]
    /\ pc = [t \in Threads |-> IF t = Ticker THEN "idle" ELSE "new"]
    /\ ob = [t \in Threads |-> First] /\ tok = [t \in Threads |-> "bad"]
    /\ expiries = 0

Goto(t, l) == pc' = [pc EXCEPT ![t] = l]

-----------------------------------------------------------------------------
(* The callers.                                                            *)

Become(t, k) == kind' = [kind EXCEPT ![t] = k]

\* Reconnect drops the web session before it logs on again (Authenticator.LogOn,
\* see module Authenticator) and, logged on, refreshes.
Reconnect(t) ==
    /\ t \in Reconnects /\ pc[t] = "new"
    /\ web' = t
    /\ Become(t, "reconnect")
    /\ Goto(t, "call") \/ Goto(t, "done")
    /\ UNCHANGED <<sessVars, auth, jar, known, flight, ob, tok, clean>>

\* The router performs the request ...
Perform(t) ==
    /\ t \in Requests /\ pc[t] = "new"
    /\ Become(t, "request")
    /\ Goto(t, "done") \/ (access # "good" /\ Goto(t, "call"))
    /\ UNCHANGED <<sessVars, webVars, flight, ob, tok, clean>>

\* ... and so does the community client, with the cookies of the web session it
\* was made for ...
Visit(t) ==
    /\ t \in Visits /\ pc[t] = "new"
    /\ Become(t, "visit")
    /\ \/ Goto(t, "done") /\ UNCHANGED ob
       \/ jar[web] # "good" /\ Goto(t, "call") /\ ob' = [ob EXCEPT ![t] = web]
    /\ UNCHANGED <<sessVars, webVars, flight, tok, clean>>

\* ... and both do once more after a refresh, whatever comes of it.
Retry(t) ==
    /\ pc[t] \in {"retry", "resend"}
    /\ Goto(t, "done")
    /\ ob' = [ob EXCEPT ![t] = First]
    /\ clean' = clean \ {t}
    /\ UNCHANGED <<sessVars, webVars, flight, kind, tok>>

\* Mutant: the loop renews only what is authenticated.
TickAuthenticated ==
    /\ pc[Ticker] = "idle" /\ auth[web]
    /\ ob' = [ob EXCEPT ![Ticker] = web]
    /\ Goto(Ticker, "isauth")
    /\ UNCHANGED <<sessVars, webVars, flight, kind, tok, clean>>

\* The loop verifies the web session of this moment, and renews it anyway.
Tick ==
    /\ pc[Ticker] = "idle"
    /\ ob' = [ob EXCEPT ![Ticker] = web]
    /\ Goto(Ticker, "isauth")
    /\ UNCHANGED <<sessVars, webVars, flight, kind, tok, clean>>

-----------------------------------------------------------------------------
(* Session.Refresh, ForceRefresh and WebSession.Refresh.                   *)

\* Where a caller goes on when its flight has renewed, has found the cookies
\* alive and renewed nothing, or has failed.
Return(t, how) ==
    CASE kind[t] = "loop" -> "idle"
      [] kind[t] = "request" /\ how = "alive" -> "resend"
      [] kind[t] \in {"request", "visit"} /\ how = "renewed" -> "retry"
      [] OTHER -> "done"

Returns(t, u) == u = t \/ (pc[u] = "wait" /\ Key(u) = Key(t))

\* What t worked on goes out of scope; a community client keeps its session.
Forget(t) ==
    /\ ob' = IF kind[t] = "visit" THEN ob ELSE [ob EXCEPT ![t] = First]
    /\ tok' = [tok EXCEPT ![t] = "bad"]

\* The flight of t ends, and all its callers return what t returns.
LandAs(t, how) ==
    /\ Forget(t) /\ UNCHANGED kind
    /\ pc' = [u \in Threads |-> IF Returns(t, u) THEN Return(u, how) ELSE pc[u]]
    /\ clean' = (clean \ {t}) \cup
                   {u \in Threads : /\ how = "renewed" /\ t \in clean
                                    /\ Returns(t, u) /\ kind[u] = "request"}

\* Mutant: a flight that fails stays in the table.
LandLeaking(t, how) ==
    /\ flight' = IF how # "failed" THEN [flight EXCEPT ![Key(t)] = Nobody] ELSE flight
    /\ Forget(t) /\ UNCHANGED kind
    /\ pc' = [u \in Threads |->
                IF u = t \/ (how # "failed" /\ Returns(t, u)) THEN Return(u, how) ELSE pc[u]]
    /\ clean' = clean \ {t}

Land(t, how) == flight' = [flight EXCEPT ![Key(t)] = Nobody] /\ LandAs(t, how)

\* The leader begins.  Refresh begins with Verify of the web session of this
\* moment; WebSession.Refresh asks for a token only where the cookies are made
\* of it (applyFastPath).
Lead(t) ==
    /\ \/ /\ kind[t] \in {"loop", "visit"}
          /\ Goto(t, IF kind[t] = "visit" /\ slow THEN "clear" ELSE "generate")
          /\ UNCHANGED <<ob, clean>>
       \/ /\ kind[t] \notin {"loop", "visit"}
          /\ Goto(t, "isauth")
          /\ ob' = [ob EXCEPT ![t] = web]
          /\ clean' = clean \cup {t}
    /\ UNCHANGED <<sessVars, webVars, kind, tok>>

\* Mutant: flights are not shared.
CallAlone(t) ==
    /\ pc[t] = "call"
    /\ flight' = [flight EXCEPT ![Key(t)] = t]
    /\ Lead(t)

\* Join the flight that is under way, or lead one; a web session that nobody
\* has authenticated has no refresh token to use.
Call(t) ==
    /\ pc[t] = "call"
    /\ \/ /\ flight[Key(t)] # Nobody
          /\ Goto(t, "wait")
          /\ UNCHANGED <<sessVars, webVars, flight, kind, ob, tok, clean>>
       \/ /\ flight[Key(t)] = Nobody /\ (kind[t] = "visit" => known[ob[t]])
          /\ flight' = [flight EXCEPT ![Key(t)] = t]
          /\ Lead(t)
       \/ /\ kind[t] = "visit" /\ flight[Key(t)] = Nobody /\ ~ known[ob[t]]
          /\ ob' = [ob EXCEPT ![t] = First]
          /\ Goto(t, "done")
          /\ UNCHANGED <<sessVars, webVars, flight, kind, tok, clean>>

\* Where Verify goes on when the session is not alive.
Renew(t) == IF kind[t] = "loop" THEN "call" ELSE "generate"

IsAuthenticated(t) ==
    /\ pc[t] = "isauth"
    /\ \/ auth[ob[t]] /\ Goto(t, "send") /\ UNCHANGED <<ob, tok>>
       \/ ~ auth[ob[t]] /\ Goto(t, Renew(t)) /\ Forget(t)
    /\ UNCHANGED <<sessVars, webVars, flight, kind, clean>>

SendVerify(t) ==
    /\ pc[t] = "send"
    /\ tok' = [tok EXCEPT ![t] = jar[ob[t]]]
    /\ Goto(t, "answer")
    /\ UNCHANGED <<sessVars, webVars, flight, kind, ob, clean>>

\* The session counts as alive: it is, or the answer is none that Verify maps
\* (a 5xx page, say).  Refresh has nothing to do, the loop goes on.
Alive(t) ==
    /\ pc[t] = "answer"
    /\ \/ kind[t] = "loop" /\ Goto(t, "call") /\ Forget(t) /\ UNCHANGED <<flight, kind, clean>>
       \/ kind[t] # "loop" /\ Land(t, "alive")
    /\ UNCHANGED <<sessVars, webVars>>

\* Redirected, refused or a soft logout: Clear, whatever the jar holds by now.
Dead(t) ==
    /\ pc[t] = "answer" /\ tok[t] # "good"
    /\ auth' = [auth EXCEPT ![ob[t]] = FALSE] /\ jar' = [jar EXCEPT ![ob[t]] = "bad"]
    /\ Goto(t, Renew(t)) /\ Forget(t)
    /\ UNCHANGED <<sessVars, web, known, flight, kind, clean>>

\* A network error keeps the cookies.
NoAnswer(t) ==
    /\ pc[t] = "answer"
    /\ Goto(t, Renew(t)) /\ Forget(t)
    /\ UNCHANGED <<sessVars, webVars, flight, kind, clean>>

\* GenerateAccessTokenForApp, SetAccessToken, and c.Web(): the web session that
\* Authenticate will work on.  WebSession.Refresh stays with its own, and its
\* tokenRefresher only logs that the token could not be set.
Generate(t) ==
    /\ pc[t] = "generate"
    /\ tok' = [tok EXCEPT ![t] = "good"]
    /\ \/ access' = "good"
       \/ kind[t] = "visit" /\ UNCHANGED access
    /\ ob' = IF kind[t] = "visit" THEN ob ELSE [ob EXCEPT ![t] = web]
    /\ Goto(t, "clear")
    /\ UNCHANGED <<slow, expiries, webVars, flight, kind, clean>>

\* Mutant: the error is only logged.
GenerateFailsQuietly(t) ==
    /\ pc[t] = "generate"
    /\ Land(t, "renewed")
    /\ UNCHANGED <<sessVars, webVars>>

\* No token, or ErrSocketNotConnected of SetAccessToken.
GenerateFails(t) ==
    /\ pc[t] = "generate"
    /\ Land(t, "failed")
    /\ UNCHANGED <<sessVars, webVars>>

\* Authenticate stores its refresh token first, then clears.
Clear(t) ==
    /\ pc[t] = "clear"
    /\ known' = [known EXCEPT ![ob[t]] = TRUE]
    /\ auth' = [auth EXCEPT ![ob[t]] = FALSE] /\ jar' = [jar EXCEPT ![ob[t]] = "bad"]
    /\ Goto(t, "seed")
    /\ UNCHANGED <<sessVars, web, flight, kind, ob, tok, clean>>

\* The token becomes the login cookie.
ApplyFastPath(t) ==
    /\ pc[t] = "seed" /\ ~ slow
    /\ jar' = [jar EXCEPT ![ob[t]] = tok[t]]
    /\ Goto(t, "mark")
    /\ UNCHANGED <<sessVars, web, auth, known, flight, kind, ob, tok, clean>>

\* Steam sets the cookies in the answers to finalizelogin and the transfers.
AuthSlowPath(t) ==
    /\ pc[t] = "seed" /\ slow
    /\ jar' = [jar EXCEPT ![ob[t]] = "good"]
    /\ Goto(t, "mark")
    /\ UNCHANGED <<sessVars, web, auth, known, flight, kind, ob, tok, clean>>

AuthSlowPathFails(t) ==
    /\ pc[t] = "seed" /\ slow
    /\ Land(t, "failed")
    /\ UNCHANGED <<sessVars, webVars>>

\* isAuth is set, and Authenticate returns.
Mark(t) ==
    /\ pc[t] = "mark"
    /\ auth' = [auth EXCEPT ![ob[t]] = TRUE]
    /\ \/ kind[t] = "visit" /\ Goto(t, "settle") /\ UNCHANGED <<flight, kind, ob, tok, clean>>
       \/ kind[t] # "visit" /\ Land(t, "renewed")
    /\ UNCHANGED <<sessVars, web, jar, known>>

\* WebSession.Refresh waits a second for Steam, or for the end of its context.
Settle(t) ==
    /\ pc[t] = "settle"
    /\ Land(t, "renewed") \/ Land(t, "failed")
    /\ UNCHANGED <<sessVars, webVars>>

-----------------------------------------------------------------------------
(* Steam.                                                                  *)

\* The access token in use expires, or the cookies do, or both: they may come
\* from different renewals.  A token that was just granted is put in place
\* before it expires.
Expire ==
    /\ expiries < MaxExpiries
    /\ expiries' = expiries + 1
    /\ clean' = {}
    /\ \E what \in {{"token"}, {"cookies"}, {"token", "cookies"}} :
          /\ access' = IF "token" \in what THEN "bad" ELSE access
          /\ IF "cookies" \in what
             THEN /\ jar' = [w \in Webs |-> "bad"]
                  /\ tok' = [t \in Threads |->
                               IF pc[t] = "answer" THEN "bad" ELSE tok[t]]
             ELSE UNCHANGED <<jar, tok>>
    /\ UNCHANGED <<slow, web, auth, known, flight, kind, pc, ob>>

-----------------------------------------------------------------------------
Verify(t) == IsAuthenticated(t) \/ SendVerify(t) \/ Alive(t) \/ Dead(t) \/ NoAnswer(t)
Refresh(t) == Call(t) \/ Generate(t) \/ GenerateFails(t)
Authenticate(t) ==
    \/ Clear(t) \/ ApplyFastPath(t) \/ AuthSlowPath(t) \/ AuthSlowPathFails(t)
    \/ Mark(t) \/ Settle(t)
Begin(t) == Reconnect(t) \/ Perform(t) \/ Visit(t)
Go(t) ==
    \/ Retry(t) \/ (t = Ticker /\ Tick)
    \/ Refresh(t) \/ Verify(t) \/ Authenticate(t)

Next ==
    \/ \E t \in Threads : Begin(t) \/ Go(t)
    \/ Expire

Spec == Init /\ [][Next]_vars

\* Who has begun goes on, and the ticker of the loop fires.  That Steam, or the
\* library, ends every question with an answer or an error is an assumption:
\* HTTP requests carry a timeout, but the loop's context has no deadline and
\* the job of a socket request none that is set here (socket.go:189-192).
\* Steam grants a token, and finalises a login, if asked again and again.
\* Nobody has to reconnect or to send a request.
FairSpec ==
    /\ Spec
    /\ \A t \in Threads : WF_vars(Go(t))
    /\ SF_vars(Generate(Ticker)) /\ SF_vars(AuthSlowPath(Ticker))

-----------------------------------------------------------------------------
(* Each key has one flight, led by the goroutine the table names, and a
   caller that waits has a leader to wait for: however calls and failures
   overlap, no two goroutines renew under one key, and nobody waits for a
   flight that has landed (session.go:584-611).                             *)
FlightsHaveLeader ==
    /\ \A t \in Threads : Leads(t) => flight[Key(t)] = t
    /\ \A k \in Keys : flight[k] # Nobody => Leads(flight[k]) /\ Key(flight[k]) = k
    /\ \A t \in Threads : pc[t] = "wait" => flight[Key(t)] # Nobody

(* A request that was refused and whose Refresh renewed, also for an expiry,
   is retried with a good token, whoever led the flight and whatever the loop
   and the community clients renew meanwhile, as long as nothing expires again
   from the beginning of that flight on.  A request whose flight found the
   cookies alive ("resend") is not in it: it is repeated with the token it was
   refused with (router.go:91-102, session.go:613-648).                      *)
RetryIsRenewed ==
    \A t \in Threads :
        kind[t] = "request" /\ pc[t] = "retry" /\ t \in clean => access = "good"

(* What a request carries is usable, for the community and the services.    *)
Usable == auth[web] /\ jar[web] = "good" /\ access = "good"

(* The web session is usable again and again: whatever refreshes,
   verifications, community clients and reconnects have done to each other's
   cookies, a later tick of the loop repairs it (session.go:651-688).       *)
SessionRecovers == []<>Usable

(* Reconnect, Do and Request return: a shared flight leaves no caller behind,
   also when it fails, and the router and the community client retry once
   (router.go:91-102, community/client/client.go:169-235).  Each caller makes
   one call, so that again and again no call is under way says it of every
   call.                                                                    *)
CallsReturn == []<>(\A t \in Callers : pc[t] \in {"new", "done"})
=============================================================================
