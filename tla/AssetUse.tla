------------------------------- MODULE AssetUse -------------------------------
(***************************************************************************)
(* What pkg/trading promises of inventory assets (doc.go, "Concurrency &   *)
(* Race Condition Prevention"): a user takes all the assets of a trade at  *)
(* once, only if nobody uses any of them, and gives them back together.    *)
(* OfferProcessor and ItemReservation implement it, each with a table of   *)
(* per-asset locks that it takes one at a time.                            *)
(***************************************************************************)
CONSTANTS Users, Assets

VARIABLE using        \* using[u]: the assets of the trade u is working on

Disjoint(S, T) == \A a \in S : a \notin T

Init == using = [u \in Users |-> {}]

Acquire(u, S) ==
    /\ using[u] = {}
    /\ \A v \in Users : Disjoint(S, using[v])
    /\ using' = [using EXCEPT ![u] = S]

Release(u) == using' = [using EXCEPT ![u] = {}]

Next == \E u \in Users : Release(u) \/ \E S \in SUBSET Assets : Acquire(u, S)

Spec == Init /\ [][Next]_using

\* No asset takes part in two trades at a time.
Exclusive == \A u, v \in Users : u # v => Disjoint(using[u], using[v])
=============================================================================
