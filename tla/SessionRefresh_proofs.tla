------------------------ MODULE SessionRefresh_proofs ------------------------
(***************************************************************************)
(* Theorems about SessionRefresh, for any callers and any number of        *)
(* expiries: types, single flights with a leader, and retries with a       *)
(* renewed token.                                                          *)
(***************************************************************************)
EXTENDS SessionRefresh, TLAPS

USE ThreadsAssumption DEF Goto, sessVars, webVars, Threads, Callers

\* Only the goroutine of the loop asks for a forced refresh.
OneLoop   == \A t \in Callers : kind[t] # "loop"
FlightInv == TypeOK /\ OneLoop /\ FlightsHaveLeader

-----------------------------------------------------------------------------
(* Types and flights.                                                      *)

LEMMA KeyFacts == ASSUME TypeOK PROVE \A t \in Threads : Key(t) \in Keys
BY DEF Key, Keys, TypeOK

LEMMA ReturnFacts ==
    ASSUME FlightInv, NEW t \in Threads, NEW how
    PROVE  /\ Return(t, how) \in {"idle", "resend", "retry", "done"}
           /\ t = Ticker => Return(t, how) = "idle"
           /\ t # Ticker => Return(t, how) # "idle"
           /\ Return(t, how) = "retry" => kind[t] \in {"request", "visit"} /\ how = "renewed"
BY DEF Return, FlightInv, TypeOK, OneLoop

\* The single flight that a goroutine asks for depends on its call, and for a
\* community client on its web session.
Keeps(t) == kind'[t] = kind[t] /\ (kind[t] = "visit" => ob'[t] = ob[t])

LEMMA KeyKept ==
    ASSUME NEW t \in Threads, Keeps(t)
    PROVE  Key(t)' = Key(t)
BY DEF Keeps, Key

\* The table of the flights after a step, entry by entry.
LEMMA TableStep ==
    ASSUME flight' \in [Keys -> Threads \cup {Nobody}],
           \A u \in Threads : Leads(u)' => flight'[Key(u)'] = u,
           \A k \in Keys, u \in Threads : flight'[k] = u => Leads(u)' /\ Key(u)' = k,
           \A u \in Threads : pc'[u] = "wait" => flight'[Key(u)'] # Nobody
    PROVE  FlightsHaveLeader'
<1>1. \A k \in Keys : (flight[k] # Nobody => Leads(flight[k]) /\ Key(flight[k]) = k)'
  <2> SUFFICES ASSUME NEW k \in Keys, NEW u \in Threads, flight'[k] = u
               PROVE  (Leads(flight[k]) /\ Key(flight[k]) = k)'
    OBVIOUS
  <2>1. Leads(u)' /\ Key(u)' = k
    OBVIOUS
  <2>2. QED
    BY <2>1 DEF Leads, Key
<1>2. QED
  BY <1>1 DEF FlightsHaveLeader

\* A flight that lands leaves no leader and no waiting caller behind.
LEMMA LandStep ==
    ASSUME FlightInv, NEW t \in Threads, Leads(t), NEW how, Land(t, how)
    PROVE  /\ FlightsHaveLeader'
           /\ OneLoop'
           /\ flight' \in [Keys -> Threads \cup {Nobody}]
           /\ pc' \in [Threads -> PCs]
           /\ pc'[Ticker] \in {"idle", "call"} \cup Verifying \cup Renewing
           /\ ob' \in [Threads -> Webs] /\ tok' \in [Threads -> Tokens]
           /\ kind' = kind /\ clean' \subseteq Threads
<1>1. flight[Key(t)] = t
  BY DEF FlightInv, FlightsHaveLeader
<1>2. flight' = [flight EXCEPT ![Key(t)] = Nobody]
  BY DEF Land
<1>3. pc' = [u \in Threads |-> IF Returns(t, u) THEN Return(u, how) ELSE pc[u]]
  BY DEF Land, LandAs
<1>4. kind' = kind /\ Forget(t)
  BY DEF Land, LandAs
<1>5. \A u \in Threads : Key(u)' = Key(u)
  BY <1>4, KeyKept DEF Keeps, Forget, FlightInv, TypeOK
<1>6. \A u \in Threads : Key(u) \in Keys
  BY KeyFacts DEF FlightInv
<1>7. \A u \in Threads : Key(u) = Key(t) => ~ Leads(u)' /\ pc'[u] # "wait"
  <2> SUFFICES ASSUME NEW u \in Threads, Key(u) = Key(t) PROVE ~ Leads(u)' /\ pc'[u] # "wait"
    OBVIOUS
  <2>1. CASE u = t \/ pc[u] = "wait"
    <3>1. pc'[u] \in {"idle", "resend", "retry", "done"}
      BY <2>1, <1>3, ReturnFacts DEF Returns
    <3>2. QED
      BY <3>1 DEF Leads, Renewing, Verifying
  <2>2. CASE u # t /\ pc[u] # "wait"
    <3>1. ~ Leads(u)
      BY <2>2, <1>1 DEF FlightInv, FlightsHaveLeader
    <3>2. pc'[u] = pc[u]
      BY <2>2, <1>3 DEF Returns
    <3>3. QED
      BY <2>2, <3>1, <3>2 DEF Leads
  <2>3. QED
    BY <2>1, <2>2
<1>8. \A u \in Threads : Key(u) # Key(t) => pc'[u] = pc[u]
  BY <1>3 DEF Returns
<1>9. FlightsHaveLeader'
  <2>1. \A k \in Keys : k # Key(t) => flight'[k] = flight[k]
    BY <1>2, <1>6 DEF FlightInv, TypeOK
  <2>2. flight'[Key(t)] = Nobody
    BY <1>2, <1>6 DEF FlightInv, TypeOK
  <2>3. \A u \in Threads : Leads(u)' => flight'[Key(u)'] = u
    <3> SUFFICES ASSUME NEW u \in Threads, Leads(u)' PROVE flight'[Key(u)'] = u
      OBVIOUS
    <3>1. Key(u) # Key(t) /\ pc'[u] = pc[u]
      BY <1>7, <1>8
    <3>2. flight[Key(u)] = u
      BY <3>1 DEF FlightInv, FlightsHaveLeader, Leads
    <3>3. QED
      BY <3>1, <3>2, <2>1, <1>5, <1>6
  <2>4. \A k \in Keys, u \in Threads : flight'[k] = u => Leads(u)' /\ Key(u)' = k
    <3> SUFFICES ASSUME NEW k \in Keys, NEW u \in Threads, flight'[k] = u
                 PROVE  Leads(u)' /\ Key(u)' = k
      OBVIOUS
    <3>1. k # Key(t) /\ u = flight[k]
      BY <2>1, <2>2
    <3>2. Leads(u) /\ Key(u) = k
      BY <3>1 DEF FlightInv, FlightsHaveLeader
    <3>3. pc'[u] = pc[u] /\ Key(u)' = k
      BY <3>1, <3>2, <1>5, <1>8
    <3>4. QED
      BY <3>2, <3>3 DEF Leads
  <2>5. \A u \in Threads : pc'[u] = "wait" => flight'[Key(u)'] # Nobody
    BY <1>5, <1>6, <1>7, <1>8, <2>1 DEF FlightInv, FlightsHaveLeader
  <2>6. flight' \in [Keys -> Threads \cup {Nobody}]
    BY <1>2 DEF FlightInv, TypeOK
  <2>7. QED
    BY <2>3, <2>4, <2>5, <2>6, TableStep
<1>10. flight' \in [Keys -> Threads \cup {Nobody}]
  BY <1>2 DEF FlightInv, TypeOK
<1>11. \A u \in Threads : pc'[u] \in PCs
  BY <1>3, ReturnFacts DEF FlightInv, TypeOK, PCs
<1>12. pc' \in [Threads -> PCs]
  BY <1>3, <1>11
<1>13. pc'[Ticker] \in {"idle", "call"} \cup Verifying \cup Renewing
  BY <1>3, ReturnFacts DEF FlightInv, TypeOK
<1>14. ob' \in [Threads -> Webs] /\ tok' \in [Threads -> Tokens]
  BY <1>4 DEF Forget, FlightInv, TypeOK, Webs, Tokens
<1>15. clean' \subseteq Threads
  BY DEF Land, LandAs, FlightInv, TypeOK
<1>16. OneLoop'
  BY <1>4 DEF FlightInv, OneLoop
<1>17. QED
  BY <1>4, <1>9, <1>10, <1>12, <1>13, <1>14, <1>15, <1>16

\* A step of t that stays inside, or outside, its flight.
LEMMA MoveStep ==
    ASSUME FlightInv, NEW t \in Threads, UNCHANGED flight,
           \A u \in Threads \ {t} : pc'[u] = pc[u] /\ Keeps(u),
           pc'[t] # "wait", Leads(t)' <=> Leads(t), Leads(t) => Keeps(t)
    PROVE  FlightsHaveLeader'
<1>1. \A u \in Threads : Leads(u)' <=> Leads(u)
  BY DEF Leads
<1>2. \A u \in Threads : Leads(u) => Key(u)' = Key(u)
  BY KeyKept
<1>3. \A u \in Threads \ {t} : Key(u)' = Key(u)
  BY KeyKept
<1>4. \A u \in Threads : Leads(u)' => flight'[Key(u)'] = u
  BY <1>1, <1>2 DEF FlightInv, FlightsHaveLeader
<1>5. \A k \in Keys, u \in Threads : flight'[k] = u => Leads(u)' /\ Key(u)' = k
  BY <1>1, <1>2 DEF FlightInv, FlightsHaveLeader
<1>6. \A u \in Threads : pc'[u] = "wait" => flight'[Key(u)'] # Nobody
  BY <1>3 DEF FlightInv, FlightsHaveLeader
<1>7. QED
  BY <1>4, <1>5, <1>6, TableStep DEF FlightInv, TypeOK

\* To join a flight, to lead one where there was none, or to give up.
LEMMA CallStep ==
    ASSUME FlightInv, NEW t \in Threads, Call(t)
    PROVE  FlightInv'
<1>0. pc[t] = "call" /\ Key(t) \in Keys /\ ~ Leads(t)
  BY KeyFacts DEF Call, Leads, Renewing, Verifying, FlightInv
<1> DEFINE Join == /\ flight[Key(t)] # Nobody /\ Goto(t, "wait")
                   /\ UNCHANGED <<sessVars, webVars, flight, kind, ob, tok, clean>>
           Begins == /\ flight[Key(t)] = Nobody
                     /\ flight' = [flight EXCEPT ![Key(t)] = t] /\ Lead(t)
           GiveUp == /\ kind[t] = "visit" /\ ob' = [ob EXCEPT ![t] = First] /\ Goto(t, "done")
                     /\ UNCHANGED <<sessVars, webVars, flight, kind, tok, clean>>
<1>1. CASE Join
  \* Nobody shares the key of the loop.
  <2>1. t # Ticker
    <3> SUFFICES ASSUME t = Ticker PROVE FALSE
      OBVIOUS
    <3>1. Key(t) = "force_refresh"
      BY DEF Key, FlightInv, TypeOK
    <3> DEFINE u == flight[Key(t)]
    <3>2. u \in Threads /\ Leads(u) /\ Key(u) = "force_refresh"
      BY <1>0, <1>1, <3>1 DEF FlightInv, FlightsHaveLeader, TypeOK
    <3>3. kind[u] = "loop"
      BY <3>2 DEF Key, FlightInv, TypeOK, Webs, First
    <3>4. QED
      BY <1>0, <3>2, <3>3 DEF FlightInv, OneLoop
  <2>2. TypeOK' /\ OneLoop'
    BY <1>1, <2>1 DEF FlightInv, TypeOK, OneLoop, PCs
  <2>3. /\ pc'[t] = "wait"
        /\ \A u \in Threads \ {t} : pc'[u] = pc[u]
    BY <1>1 DEF FlightInv, TypeOK
  <2>4. \A u \in Threads : (Leads(u)' <=> Leads(u)) /\ Key(u)' = Key(u)
    BY <1>0, <1>1, <2>3, KeyKept DEF Leads, Renewing, Verifying, Keeps
  <2>5. \A u \in Threads : Leads(u)' => flight'[Key(u)'] = u
    BY <1>1, <2>4 DEF FlightInv, FlightsHaveLeader
  <2>6. \A k \in Keys, u \in Threads : flight'[k] = u => Leads(u)' /\ Key(u)' = k
    BY <1>1, <2>4 DEF FlightInv, FlightsHaveLeader
  <2>7. \A u \in Threads : pc'[u] = "wait" => flight'[Key(u)'] # Nobody
    BY <1>1, <2>3, <2>4 DEF FlightInv, FlightsHaveLeader
  <2>8. FlightsHaveLeader'
    BY <1>1, <2>5, <2>6, <2>7, TableStep DEF FlightInv, TypeOK
  <2>9. QED
    BY <2>2, <2>8 DEF FlightInv
<1>2. CASE Begins
  <2>1. PICK l \in {"generate", "clear", "isauth"} :
            Goto(t, l) /\ (t # Ticker \/ l = "generate")
    BY <1>2 DEF Lead, FlightInv, TypeOK
  <2>2. UNCHANGED <<sessVars, webVars, kind, tok>>
    BY <1>2 DEF Lead
  <2>3. ob' \in [Threads -> Webs] /\ clean' \subseteq Threads /\ \A u \in Threads : Keeps(u)
    BY <1>2 DEF Lead, Keeps, FlightInv, TypeOK
  <2>4. flight' = [flight EXCEPT ![Key(t)] = t]
    BY <1>2
  <2>5. /\ pc' \in [Threads -> PCs]
        /\ pc'[Ticker] \in {"idle", "call"} \cup Verifying \cup Renewing
    BY <2>1 DEF FlightInv, TypeOK, PCs, Verifying, Renewing
  <2>6. TypeOK' /\ OneLoop'
    BY <2>2, <2>3, <2>4, <2>5 DEF FlightInv, TypeOK, OneLoop
  <2>7. /\ pc'[t] = l
        /\ \A u \in Threads \ {t} : pc'[u] = pc[u]
    BY <2>1 DEF FlightInv, TypeOK
  <2>8. /\ Leads(t)'
        /\ \A u \in Threads \ {t} : Leads(u)' <=> Leads(u)
    BY <2>1, <2>7 DEF Leads, Renewing, Verifying
  <2>9. \A u \in Threads : Key(u)' = Key(u) /\ Key(u) \in Keys
    BY <2>3, KeyKept, KeyFacts DEF FlightInv
  <2>10. \A k \in Keys : flight'[k] = IF k = Key(t) THEN t ELSE flight[k]
    BY <2>4 DEF FlightInv, TypeOK
  <2>11. \A u \in Threads \ {t} : Key(u) = Key(t) => ~ Leads(u)
    BY <1>2 DEF FlightInv, FlightsHaveLeader
  <2>12. \A u \in Threads : Leads(u)' => flight'[Key(u)'] = u
    BY <2>8, <2>9, <2>10, <2>11 DEF FlightInv, FlightsHaveLeader
  <2>13. \A k \in Keys, u \in Threads : flight'[k] = u => Leads(u)' /\ Key(u)' = k
    <3> SUFFICES ASSUME NEW k \in Keys, NEW u \in Threads, flight'[k] = u
                 PROVE  Leads(u)' /\ Key(u)' = k
      OBVIOUS
    <3>1. CASE k = Key(t)
      BY <3>1, <2>8, <2>9, <2>10
    <3>2. CASE k # Key(t)
      <4>1. flight[k] = u /\ Leads(u) /\ Key(u) = k
        BY <3>2, <2>10 DEF FlightInv, FlightsHaveLeader
      <4>2. u # t
        BY <3>2, <4>1
      <4>3. QED
        BY <4>1, <4>2, <2>8, <2>9
    <3>3. QED
      BY <3>1, <3>2
  <2>14. \A u \in Threads : pc'[u] = "wait" => flight'[Key(u)'] # Nobody
    BY <2>1, <2>7, <2>9, <2>10 DEF FlightInv, FlightsHaveLeader
  <2>15. FlightsHaveLeader'
    BY <2>6, <2>12, <2>13, <2>14, TableStep DEF TypeOK
  <2>16. QED
    BY <2>6, <2>15 DEF FlightInv
<1>3. CASE GiveUp
  <2>1. t # Ticker
    BY <1>3 DEF FlightInv, TypeOK
  <2>2. TypeOK' /\ OneLoop'
    BY <1>3, <2>1 DEF FlightInv, TypeOK, OneLoop, PCs, Webs
  <2>3. /\ pc'[t] = "done"
        /\ \A u \in Threads \ {t} : pc'[u] = pc[u] /\ Keeps(u)
    BY <1>3 DEF FlightInv, TypeOK, Keeps
  <2>4. ~ Leads(t)'
    BY <2>3 DEF Leads, Renewing, Verifying
  <2>5. FlightsHaveLeader'
    BY <1>0, <1>3, <2>3, <2>4, MoveStep
  <2>6. QED
    BY <2>2, <2>5 DEF FlightInv
<1>4. Join \/ Begins \/ GiveUp
  BY DEF Call
<1>5. QED
  BY <1>1, <1>2, <1>3, <1>4

\* Steps that keep t inside, or outside, its flight.
Moving(t) ==
    \/ Begin(t) \/ Retry(t) \/ (t = Ticker /\ Tick)
    \/ IsAuthenticated(t) \/ SendVerify(t) \/ Dead(t) \/ NoAnswer(t)
    \/ (kind[t] = "loop" /\ Alive(t)) \/ (kind[t] = "visit" /\ Mark(t))
    \/ Generate(t) \/ Clear(t) \/ ApplyFastPath(t) \/ AuthSlowPath(t)

\* Steps with which a flight lands.
Landing(t) ==
    \/ (kind[t] # "loop" /\ Alive(t)) \/ GenerateFails(t) \/ AuthSlowPathFails(t)
    \/ (kind[t] # "visit" /\ Mark(t)) \/ Settle(t)

LEMMA NextCases ==
    ASSUME Next
    PROVE  (\E t \in Threads : Call(t) \/ Moving(t) \/ Landing(t)) \/ Expire
BY DEF Next, Go, Refresh, Verify, Authenticate, Moving, Landing

\* The types, and what the step of one goroutine leaves to the others.
LEMMA MovingType ==
    ASSUME FlightInv, NEW t \in Threads, Moving(t)
    PROVE  /\ TypeOK' /\ OneLoop'
           /\ UNCHANGED flight
           /\ \A u \in Threads \ {t} : pc'[u] = pc[u] /\ Keeps(u)
<1> USE DEF FlightInv, TypeOK, OneLoop, PCs, Verifying, Renewing, Keeps
<1>1. CASE Begin(t)
  BY <1>1 DEF Begin, Reconnect, Perform, Visit, Become, Webs, Kinds
<1>2. CASE Retry(t)
  BY <1>2 DEF Retry, Webs
<1>3. CASE t = Ticker /\ Tick
  BY <1>3 DEF Tick
<1>4. CASE IsAuthenticated(t)
  BY <1>4 DEF IsAuthenticated, Renew, Forget, Webs, Tokens
<1>5. CASE SendVerify(t)
  BY <1>5 DEF SendVerify, Tokens
<1>6. CASE kind[t] = "loop" /\ Alive(t)
  BY <1>6 DEF Alive, Forget, Webs, Tokens
<1>7. CASE Dead(t)
  BY <1>7 DEF Dead, Renew, Forget, Webs, Tokens
<1>8. CASE NoAnswer(t)
  BY <1>8 DEF NoAnswer, Renew, Forget, Webs, Tokens
<1>9. CASE Generate(t)
  BY <1>9 DEF Generate, Tokens
<1>10. CASE Clear(t)
  BY <1>10 DEF Clear, Tokens
<1>11. CASE ApplyFastPath(t) \/ AuthSlowPath(t)
  BY <1>11 DEF ApplyFastPath, AuthSlowPath, Tokens
<1>12. CASE kind[t] = "visit" /\ Mark(t)
  BY <1>12 DEF Mark
<1>13. QED
  BY <1>1, <1>2, <1>3, <1>4, <1>5, <1>6, <1>7, <1>8, <1>9, <1>10, <1>11, <1>12 DEF Moving

LEMMA MovingStep ==
    ASSUME FlightInv, NEW t \in Threads, Moving(t)
    PROVE  FlightInv'
<1> USE DEF PCs, Verifying, Renewing
<1>1. \A l : Goto(t, l) => pc'[t] = l
  BY DEF FlightInv, TypeOK
<1>2. Leads(t) => Keeps(t)
  <2>1. CASE Begin(t) \/ Retry(t) \/ (t = Ticker /\ Tick)
    BY <2>1 DEF Begin, Reconnect, Perform, Visit, Retry, Tick, Leads
  <2>2. CASE IsAuthenticated(t) \/ SendVerify(t) \/ Dead(t) \/ NoAnswer(t)
    BY <2>2 DEF IsAuthenticated, SendVerify, Dead, NoAnswer, Forget, Keeps
  <2>3. CASE (kind[t] = "loop" /\ Alive(t)) \/ (kind[t] = "visit" /\ Mark(t))
    BY <2>3 DEF Alive, Mark, Forget, Keeps
  <2>4. CASE Generate(t) \/ Clear(t) \/ ApplyFastPath(t) \/ AuthSlowPath(t)
    BY <2>4 DEF Generate, Clear, ApplyFastPath, AuthSlowPath, Keeps
  <2>5. QED
    BY <2>1, <2>2, <2>3, <2>4 DEF Moving
<1>3. (Leads(t)' <=> Leads(t)) /\ pc'[t] # "wait"
  <2>0. kind[t] = "loop" <=> t = Ticker
    BY DEF FlightInv, TypeOK, OneLoop
  <2>1. CASE Begin(t)
    BY <1>1, <2>1 DEF Begin, Reconnect, Perform, Visit, Leads
  <2>2. CASE Retry(t)
    BY <1>1, <2>2 DEF Retry, Leads
  <2>3. CASE t = Ticker /\ Tick
    BY <1>1, <2>3 DEF Tick, Leads
  <2>4. CASE IsAuthenticated(t)
    BY <1>1, <2>0, <2>4 DEF IsAuthenticated, Renew, Leads
  <2>5. CASE SendVerify(t)
    BY <1>1, <2>5 DEF SendVerify, Leads
  <2>6. CASE kind[t] = "loop" /\ Alive(t)
    BY <1>1, <2>0, <2>6 DEF Alive, Leads
  <2>7. CASE Dead(t) \/ NoAnswer(t)
    BY <1>1, <2>0, <2>7 DEF Dead, NoAnswer, Renew, Leads
  <2>8. CASE Generate(t) \/ Clear(t)
    BY <1>1, <2>8 DEF Generate, Clear, Leads
  <2>9. CASE ApplyFastPath(t) \/ AuthSlowPath(t)
    BY <1>1, <2>9 DEF ApplyFastPath, AuthSlowPath, Leads
  <2>10. CASE kind[t] = "visit" /\ Mark(t)
    BY <1>1, <2>10 DEF Mark, Leads
  <2>11. QED
    BY <2>1, <2>2, <2>3, <2>4, <2>5, <2>6, <2>7, <2>8, <2>9, <2>10 DEF Moving
<1>4. FlightsHaveLeader'
  BY <1>2, <1>3, MovingType, MoveStep
<1>5. QED
  BY <1>4, MovingType DEF FlightInv

LEMMA LandingFacts ==
    ASSUME FlightInv, NEW t \in Threads, Landing(t)
    PROVE  /\ Leads(t)
           /\ \E how : /\ Land(t, how)
                       /\ how = "renewed" => pc[t] \in {"mark", "settle"}
           /\ UNCHANGED <<slow, access, expiries, web, jar, known>>
           /\ auth' \in [Webs -> BOOLEAN]
<1>1. CASE kind[t] # "loop" /\ Alive(t)
  BY <1>1 DEF Alive, Leads, Verifying, FlightInv, TypeOK
<1>2. CASE GenerateFails(t)
  BY <1>2 DEF GenerateFails, Leads, Renewing, FlightInv, TypeOK
<1>3. CASE AuthSlowPathFails(t)
  BY <1>3 DEF AuthSlowPathFails, Leads, Renewing, FlightInv, TypeOK
<1>4. CASE kind[t] # "visit" /\ Mark(t)
  BY <1>4 DEF Mark, Leads, Renewing, FlightInv, TypeOK
<1>5. CASE Settle(t)
  BY <1>5 DEF Settle, Leads, Renewing, FlightInv, TypeOK
<1>6. QED
  BY <1>1, <1>2, <1>3, <1>4, <1>5 DEF Landing

LEMMA FlightStep == FlightInv /\ [Next]_vars => FlightInv'
<1> SUFFICES ASSUME FlightInv, [Next]_vars PROVE FlightInv'
  OBVIOUS
<1>1. ASSUME NEW t \in Threads, Call(t) PROVE FlightInv'
  BY <1>1, CallStep
<1>2. ASSUME NEW t \in Threads, Moving(t) PROVE FlightInv'
  BY <1>2, MovingStep
<1>3. ASSUME NEW t \in Threads, Landing(t) PROVE FlightInv'
  <2>1. PICK how : Land(t, how)
    BY <1>3, LandingFacts
  <2>2. /\ Leads(t) /\ UNCHANGED <<slow, access, expiries, web, jar, known>>
        /\ auth' \in [Webs -> BOOLEAN]
    BY <1>3, LandingFacts
  <2>3. TypeOK'
    BY <2>1, <2>2, LandStep DEF FlightInv, TypeOK
  <2>4. FlightsHaveLeader' /\ OneLoop'
    BY <2>1, <2>2, LandStep
  <2>5. QED
    BY <2>3, <2>4 DEF FlightInv
<1>4. CASE Expire
  <2>1. jar' \in [Webs -> Tokens] /\ tok' \in [Threads -> Tokens] /\ access' \in Tokens
    BY <1>4 DEF Expire, FlightInv, TypeOK, Tokens
  <2>2. expiries' \in 0 .. MaxExpiries
    BY <1>4, ExpiriesAssumption DEF Expire, FlightInv, TypeOK
  <2>3. TypeOK' /\ OneLoop'
    BY <1>4, <2>1, <2>2 DEF Expire, FlightInv, TypeOK, OneLoop
  <2>4. FlightsHaveLeader'
    BY <1>4 DEF Expire, FlightInv, FlightsHaveLeader, Leads, Key
  <2>5. QED
    BY <2>3, <2>4 DEF FlightInv
<1>5. CASE UNCHANGED vars
  BY <1>5 DEF vars, workVars, FlightInv, TypeOK, OneLoop, FlightsHaveLeader, Leads, Key
<1>6. QED
  BY <1>1, <1>2, <1>3, <1>4, <1>5, NextCases

LEMMA FlightInvHolds == Spec => []FlightInv
<1>1. Init => FlightInv
  <2> SUFFICES ASSUME Init PROVE FlightInv
    OBVIOUS
  <2>1. pc \in [Threads -> PCs] /\ \A t \in Threads : ~ Leads(t) /\ pc[t] # "wait"
    BY DEF Init, Leads, PCs, Verifying, Renewing
  <2>2. flight \in [Keys -> Threads \cup {Nobody}] /\ \A k \in Keys : flight[k] = Nobody
    BY DEF Init
  <2>3. slow \in BOOLEAN /\ access \in Tokens /\ expiries \in 0 .. MaxExpiries
    BY ExpiriesAssumption DEF Init, Tokens
  <2>4. web \in Webs /\ auth \in [Webs -> BOOLEAN] /\ jar \in [Webs -> Tokens]
    BY DEF Init, Webs, Tokens
  <2>5. known \in [Webs -> BOOLEAN] /\ clean \subseteq Threads
    BY DEF Init
  <2>6. ob \in [Threads -> Webs] /\ tok \in [Threads -> Tokens]
    BY DEF Init, Webs, Tokens
  <2>7. kind \in [Threads -> Kinds] /\ kind[Ticker] = "loop" /\ OneLoop
    BY DEF Init, Kinds, OneLoop
  <2>8. TypeOK
    BY <2>1, <2>2, <2>3, <2>4, <2>5, <2>6, <2>7 DEF Init, TypeOK
  <2>9. QED
    BY <2>1, <2>2, <2>7, <2>8 DEF FlightInv, FlightsHaveLeader
<1>2. QED
  BY <1>1, FlightStep, PTL DEF Spec

\* Every variable keeps its type; the refresh loop never waits for a flight.
THEOREM SessionTypeCorrect == Spec => []TypeOK
<1>1. FlightInv => TypeOK
  BY DEF FlightInv
<1>2. QED
  BY <1>1, FlightInvHolds, PTL

\* Each single flight, of the Session and of every web session, has one leader,
\* and nobody waits for one that has landed.
THEOREM FlightsAreLed == Spec => []FlightsHaveLeader
<1>1. FlightInv => FlightsHaveLeader
  BY DEF FlightInv
<1>2. QED
  BY <1>1, FlightInvHolds, PTL

-----------------------------------------------------------------------------
(* Retries.                                                                *)

\* Those of clean lead the flight of refresh, or are requests that it renewed
\* for; past the grant the access token is good, and stays so, since an expiry
\* empties clean.
Ready(t) ==
    /\ kind[t] \notin {"loop", "visit"}
    /\ pc[t] \in Verifying \cup Renewing \cup {"retry"}
    /\ pc[t] \in {"clear", "seed", "mark", "settle", "retry"} => access = "good"
CleanReady == \A t \in clean : Ready(t)

\* What a step of t must do to keep CleanReady.
LEMMA ReadyStep ==
    ASSUME FlightInv, CleanReady, NEW t \in Threads, clean' \subseteq clean \cup {t},
           \A u \in Threads \ {t} : pc'[u] = pc[u] /\ kind'[u] = kind[u],
           access = "good" => access' = "good",
           t \in clean' => Ready(t)'
    PROVE  CleanReady'
<1>1. \A u \in clean' \ {t} : Ready(u)'
  BY DEF CleanReady, Ready, FlightInv, TypeOK
<1>2. QED
  BY <1>1 DEF CleanReady

\* A leader has a good token before it goes on from the grant.
LEMMA GrantStep ==
    ASSUME FlightInv, CleanReady, NEW t \in Threads, Moving(t) \/ Call(t)
    PROVE  CleanReady'
<1>1. \A u \in Threads \ {t} : pc'[u] = pc[u] /\ kind'[u] = kind[u]
  <2>1. CASE Call(t)
    BY <2>1 DEF Call, Lead, FlightInv, TypeOK
  <2>2. CASE Moving(t)
    BY <2>2, MovingType DEF Keeps
  <2>3. QED
    BY <2>1, <2>2
<1>2. \A l : Goto(t, l) => pc'[t] = l
  BY DEF FlightInv, TypeOK
<1>3. /\ clean' \subseteq clean \cup {t}
      /\ access = "good" => access' = "good"
      /\ t \in clean' => Ready(t)'
  <2>0. t \in clean => Ready(t)
    BY DEF CleanReady
  <2> USE <1>2, <2>0 DEF Ready, Verifying, Renewing
  <2>1. CASE Call(t)
    BY <2>1 DEF Call, Lead
  <2>2. CASE Begin(t)
    BY <2>2 DEF Begin, Reconnect, Perform, Visit
  <2>3. CASE Retry(t) \/ (t = Ticker /\ Tick)
    BY <2>3 DEF Retry, Tick, FlightInv, TypeOK
  <2>4. CASE IsAuthenticated(t)
    BY <2>4 DEF IsAuthenticated, Renew
  <2>5. CASE SendVerify(t)
    BY <2>5 DEF SendVerify
  <2>6. CASE Dead(t) \/ NoAnswer(t)
    BY <2>6 DEF Dead, NoAnswer, Renew
  <2>7. CASE kind[t] = "loop" /\ Alive(t)
    BY <2>7 DEF Alive
  <2>8. CASE kind[t] = "visit" /\ Mark(t)
    BY <2>8 DEF Mark
  <2>9. CASE Generate(t)
    BY <2>9 DEF Generate
  <2>10. CASE Clear(t) \/ ApplyFastPath(t) \/ AuthSlowPath(t)
    BY <2>10 DEF Clear, ApplyFastPath, AuthSlowPath
  <2>11. QED
    BY <2>1, <2>2, <2>3, <2>4, <2>5, <2>6, <2>7, <2>8, <2>9, <2>10 DEF Moving
<1>4. QED
  BY <1>1, <1>3, ReadyStep

\* A flight whose leader is clean and renewed lands with a good access token.
LEMMA LandingReady ==
    ASSUME FlightInv, CleanReady, NEW t \in Threads, Landing(t)
    PROVE  CleanReady'
<1>1. PICK how : Land(t, how) /\ (how = "renewed" => pc[t] \in {"mark", "settle"})
  BY LandingFacts
<1>2. UNCHANGED <<access, kind>>
  BY <1>1, LandingFacts DEF Land, LandAs
<1>3. \A u \in Threads : pc'[u] = IF Returns(t, u) THEN Return(u, how) ELSE pc[u]
  BY <1>1 DEF Land, LandAs
<1>4. SUFFICES ASSUME NEW u \in clean' PROVE Ready(u)'
  BY DEF CleanReady
<1>5. u \in Threads
  BY <1>1, LandStep, LandingFacts
<1>6. CASE u \in clean \ {t}
  <2>1. Ready(u) /\ ~ Returns(t, u)
    BY <1>6 DEF CleanReady, Ready, Returns, Verifying, Renewing
  <2>2. pc'[u] = pc[u]
    BY <1>3, <1>5, <2>1
  <2>3. QED
    BY <1>2, <2>1, <2>2 DEF Ready
<1>7. CASE u \notin clean \ {t}
  <2>1. how = "renewed" /\ t \in clean /\ Returns(t, u) /\ kind[u] = "request"
    BY <1>1, <1>7 DEF Land, LandAs
  <2>2. access = "good"
    BY <1>1, <2>1 DEF CleanReady, Ready
  <2>3. pc'[u] = "retry"
    BY <1>3, <1>5, <2>1 DEF Return
  <2>4. QED
    BY <1>2, <2>1, <2>2, <2>3 DEF Ready
<1>8. QED
  BY <1>6, <1>7

LEMMA CleanStep == FlightInv /\ CleanReady /\ [Next]_vars => CleanReady'
<1> SUFFICES ASSUME FlightInv, CleanReady, [Next]_vars PROVE CleanReady'
  OBVIOUS
<1>1. CASE Expire
  BY <1>1 DEF Expire, CleanReady
<1>2. ASSUME NEW t \in Threads, Call(t) \/ Moving(t) \/ Landing(t) PROVE CleanReady'
  BY <1>2, GrantStep, LandingReady
<1>3. CASE UNCHANGED vars
  BY <1>3 DEF vars, sessVars, workVars, CleanReady, Ready
<1>4. QED
  BY <1>1, <1>2, <1>3, NextCases

\* A refused request, for an expiry or for want of a login, whose Refresh renewed
\* is retried with a good token, whoever led the flight and whatever the loop
\* and the community clients renew meanwhile, unless something expires again
\* after that flight began.
THEOREM RetriesAreRenewed == Spec => []RetryIsRenewed
<1>1. Init => CleanReady
  BY DEF Init, CleanReady
<1>2. Spec => []CleanReady
  BY <1>1, CleanStep, FlightInvHolds, PTL DEF Spec
<1>3. FlightInv /\ CleanReady => RetryIsRenewed
  BY DEF CleanReady, Ready, RetryIsRenewed
<1>4. QED
  BY <1>2, <1>3, FlightInvHolds, PTL
=============================================================================
