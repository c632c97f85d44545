------------------------------ MODULE OfferStory ------------------------------
(***************************************************************************)
(* What polling promises to the subscribers of the trade Manager           *)
(* (events.go, manager.go): every offer passes through its states at       *)
(* Steam, subscribers are told of them later, never ahead and never        *)
(* backwards, and an offer is announced when it is first seen active.      *)
(* A process that ends begins again where the program last kept its poll   *)
(* data.  TradePoller implements it, where answers are applied one by one. *)
(***************************************************************************)
EXTENDS Naturals

CONSTANTS Offers, States

VARIABLES
    status,   \* status[o]: the state of o at Steam
    told,     \* told[o]: the state subscribers were last told
    news,     \* news[o]: how often this process has announced o
    kept      \* what has been told, as the program has kept it

vars == <<status, told, news, kept>>

Final == {"Accepted", "Canceled"}

\* The states an offer passes through: s comes before t.
Precedes(s, t) ==
    \/ s = "none" /\ t # "none"
    \/ s = "NeedsConfirmation" /\ t \in {"Active"} \cup Final
    \/ s = "Active" /\ t \in Final

UpTo(s, t) == s = t \/ Precedes(s, t)

Init ==
    /\ status = [o \in Offers |-> "none"]
    /\ told = status /\ kept = status
    /\ news = [o \in Offers |-> 0]

\* Steam, the partner or this account acts on an offer.
Happen(o) ==
    /\ UNCHANGED <<told, news, kept>>
    /\ \E s \in States : Precedes(status[o], s) /\ status' = [status EXCEPT ![o] = s]

\* A poll tells of any offers what has happened to them, if not the latest, and
\* announces those of them that have become active.
Tell ==
    /\ UNCHANGED <<status, kept>>
    /\ told' \in [Offers -> States] /\ news' \in [Offers -> Nat]
    /\ \A o \in Offers :
          /\ UpTo(told[o], told'[o]) /\ UpTo(told'[o], status[o])
          /\ \/ news'[o] = news[o]
             \/ told[o] # "Active" /\ told'[o] = "Active" /\ news'[o] = news[o] + 1

\* The program keeps the poll data.
Keep == kept' = told /\ UNCHANGED <<status, told, news>>

\* The process ends, and another begins with what was kept.
Restart ==
    /\ told' = kept /\ news' = [o \in Offers |-> 0]
    /\ UNCHANGED <<status, kept>>

Next == Tell \/ (\E o \in Offers : Happen(o)) \/ Keep \/ Restart

Spec == Init /\ [][Next]_vars

\* A process announces an offer at most once, and never ahead of Steam.
OnceAndInTime == \A o \in Offers : news[o] <= 1 /\ UpTo(told[o], status[o])
=============================================================================
