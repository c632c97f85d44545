--------------------------- MODULE ItemReservation ---------------------------
(***************************************************************************)
(* pkg/trading/web, manager.go: ReserveItems (which SendOffer uses around  *)
(* its request) and LockItems.  A goroutine locks the asset IDs of its     *)
(* call one at a time in ascending order, in a table of mutexes shared by  *)
(* all; ReserveItems gives up at the first one that is taken and unlocks   *)
(* what it has, LockItems waits.  Both return a function that unlocks once.*)
(***************************************************************************)
EXTENDS Integers

CONSTANTS
    Callers,     \* goroutines that send offers or lock items
    Assets       \* asset IDs

ASSUME AssetsAssumption == Assets \subseteq Nat

VARIABLES
    itemLocks,   \* the locked keys of Manager.itemLocks
    pc,          \* pc[c]: where c is
    want,        \* want[c]: the IDs of c's last call
    got,         \* got[c]: those c has locked and not unlocked yet
    spent        \* spent[c]: c's unlock function has been called

vars == <<itemLocks, pc, want, got, spent>>

PCs == {"idle", "reserving", "locking", "held", "rollback", "releasing"}

TypeOK ==
    /\ itemLocks \subseteq Assets
    /\ pc \in [Callers -> PCs]
    /\ want \in [Callers -> SUBSET Assets]
    /\ got \in [Callers -> SUBSET Assets]
    /\ spent \in [Callers -> BOOLEAN]

Init ==
    /\ itemLocks = {}
    /\ pc = [c \in Callers |-> "idle"]
    /\ want = [c \in Callers |-> {}] /\ got = [c \in Callers |-> {}]
    /\ spent = [c \in Callers |-> FALSE]

Goto(c, s) == pc' = [pc EXCEPT ![c] = s]

\* The lowest ID of S: the IDs were sorted.
Lowest(S) == {a \in S : \A b \in S : a <= b}

\* A call with the distinct IDs S.
Begin(c, S, s) ==
    /\ pc[c] = "idle" /\ S # {}
    /\ Goto(c, s)
    /\ want' = [want EXCEPT ![c] = S]
    /\ spent' = [spent EXCEPT ![c] = FALSE]
    /\ UNCHANGED <<itemLocks, got>>

ReserveItems(c) == \E S \in SUBSET Assets : Begin(c, S, "reserving")
LockItems(c)    == \E S \in SUBSET Assets : Begin(c, S, "locking")

\* Mutant: the IDs are locked in the order they were given.
NextIDUnsorted(c) == want[c] \ got[c]

\* The ID that the loop locks next.
NextID(c) == Lowest(want[c] \ got[c])

\* Mutant: LockItems does not wait, it unlocks what it has and starts again.
LockNextRetrying(c) ==
    /\ pc[c] \in {"reserving", "locking"}
    /\ \E a \in NextID(c) :
          \/ /\ a \notin itemLocks
             /\ itemLocks' = itemLocks \cup {a}
             /\ got' = [got EXCEPT ![c] = @ \cup {a}]
          \/ /\ a \in itemLocks /\ pc[c] = "locking" /\ got[c] # {}
             /\ itemLocks' = itemLocks \ got[c]
             /\ got' = [got EXCEPT ![c] = {}]
    /\ IF got'[c] = want[c] THEN Goto(c, "held") ELSE UNCHANGED pc
    /\ UNCHANGED <<want, spent>>

\* TryLock or Lock takes a free mutex; the call returns after the last.
LockNext(c) ==
    /\ pc[c] \in {"reserving", "locking"}
    /\ \E a \in NextID(c) :
          /\ a \notin itemLocks
          /\ itemLocks' = itemLocks \cup {a}
          /\ got' = [got EXCEPT ![c] = @ \cup {a}]
    /\ IF got'[c] = want[c] THEN Goto(c, "held") ELSE UNCHANGED pc
    /\ UNCHANGED <<want, spent>>

\* Mutant: the IDs locked before the refused one stay locked.
RefuseKeeping(c) ==
    /\ pc[c] = "reserving"
    /\ NextID(c) \cap itemLocks # {}
    /\ Goto(c, "idle")
    /\ want' = [want EXCEPT ![c] = {}]
    /\ got' = [got EXCEPT ![c] = {}]
    /\ UNCHANGED <<itemLocks, spent>>

\* TryLock fails: ErrItemAlreadyReserved, after the rollback.
Refuse(c) ==
    /\ pc[c] = "reserving"
    /\ NextID(c) \cap itemLocks # {}
    /\ Goto(c, IF got[c] = {} THEN "idle" ELSE "rollback")
    /\ want' = [want EXCEPT ![c] = {}]
    /\ UNCHANGED <<itemLocks, got, spent>>

\* Mutant: the unlock function without its sync.Once.
ReleaseAgain(c) ==
    /\ pc[c] \in {"held", "idle"} /\ want[c] # {}
    /\ Goto(c, "releasing")
    /\ got' = [got EXCEPT ![c] = want[c]]
    /\ spent' = [spent EXCEPT ![c] = TRUE]
    /\ UNCHANGED <<itemLocks, want>>

\* The unlock function, which the caller may call again later.
Release(c) ==
    /\ pc[c] \in {"held", "idle"} /\ want[c] # {}
    /\ ~spent[c]
    /\ Goto(c, "releasing")
    /\ got' = [got EXCEPT ![c] = want[c]]
    /\ spent' = [spent EXCEPT ![c] = TRUE]
    /\ UNCHANGED <<itemLocks, want>>

UnlockNext(c) ==
    /\ pc[c] \in {"rollback", "releasing"}
    /\ \E a \in Lowest(got[c]) :
          /\ itemLocks' = itemLocks \ {a}
          /\ got' = [got EXCEPT ![c] = @ \ {a}]
    /\ IF got'[c] = {} THEN Goto(c, "idle") ELSE UNCHANGED pc
    /\ UNCHANGED <<want, spent>>

Next == \E c \in Callers :
    ReserveItems(c) \/ LockItems(c) \/ LockNext(c) \/ Refuse(c) \/ Release(c) \/ UnlockNext(c)

Spec == Init /\ [][Next]_vars

\* A running goroutine runs and gives back what it holds, and a mutex that is
\* free again and again is not refused to a waiter for ever (sync.Mutex).
FairSpec ==
    /\ Spec
    /\ \A c \in Callers : /\ WF_vars(Release(c)) /\ WF_vars(UnlockNext(c))
                          /\ WF_vars(Refuse(c)) /\ SF_vars(LockNext(c))

-----------------------------------------------------------------------------
(* Properties.                                                             *)

\* The assets a caller may trade with: its call has returned, unlock has not
\* been called.
Using == [c \in Callers |-> IF pc[c] = "held" THEN want[c] ELSE {}]

Use == INSTANCE AssetUse WITH Users <- Callers, using <- Using

\* What the goroutines hold is what is locked, each asset by one of them: none
\* stays locked after the calls that locked it, whether they were refused or
\* their unlock functions were called again (ReserveItems, LockItems).
LocksOwned ==
    /\ itemLocks = UNION {got[c] : c \in Callers}
    /\ \A c, d \in Callers : c # d => got[c] \cap got[d] = {}

\* Callers never wait for each other in a ring of any length: of every group,
\* some caller does not wait in LockItems for an asset of the group ("sort asset
\* IDs to avoid deadlock potential").
NoCircularWait ==
    \A W \in (SUBSET Callers) \ {{}} :
        \E c \in W : pc[c] = "locking" => \A d \in W : NextID(c) \cap got[d] = {}

\* So while a caller waits, somebody can go on: a caller whose next asset is
\* free, or one that is not waiting.
SomebodyMoves ==
    (\E c \in Callers : pc[c] = "locking") =>
        \E c \in Callers : \/ pc[c] = "locking" /\ NextID(c) \cap itemLocks = {}
                          \/ pc[c] \notin {"idle", "locking"}

\* What makes NoCircularWait inductive: a caller holds a lower part of its IDs.
LowerPart(c) ==
    pc[c] \in {"reserving", "locking"} =>
        /\ got[c] \subseteq want[c] /\ got[c] # want[c]
        /\ \A a \in got[c], b \in want[c] \ got[c] : a < b

ReserveInv ==
    /\ LocksOwned
    /\ \A c \in Callers :
          /\ LowerPart(c)
          /\ pc[c] = "idle" => got[c] = {} /\ (want[c] = {} \/ spent[c])
          /\ pc[c] = "held" => got[c] = want[c]

\* The module implements AssetUse: assets are taken all at once or not at all,
\* by one caller at a time.
ImplementsAssetUse == Use!Spec

\* LockItems returns, however calls overlap.
LockItemsReturns == \A c \in Callers : pc[c] = "locking" ~> pc[c] = "held"
=============================================================================
