------------------------ MODULE ItemReservation_proofs ------------------------
(***************************************************************************)
(* Theorems about ItemReservation, for any callers and any asset IDs:      *)
(* locks are owned, callers do not wait for each other in a ring, and the  *)
(* module implements AssetUse.                                             *)
(***************************************************************************)
EXTENDS ItemReservation, WellFoundedInduction, TLAPS

\* The loops meet IDs of the call.
LEMMA NextIDFacts ==
    ASSUME TypeOK, NEW c \in Callers
    PROVE  \A a \in NextID(c) : /\ a \in want[c] \ got[c] /\ a \in Assets /\ a \in Int
                                /\ \A b \in want[c] \ got[c] : b \in Int /\ a <= b
BY AssetsAssumption DEF NextID, Lowest, TypeOK

\* Every variable keeps its type.
THEOREM ReserveTypeCorrect == Spec => []TypeOK
<1>1. Init => TypeOK
  BY DEF Init, TypeOK, PCs
<1>2. TypeOK /\ [Next]_vars => TypeOK'
  <2> SUFFICES ASSUME TypeOK, [Next]_vars PROVE TypeOK'
    OBVIOUS
  <2>1. ASSUME NEW c \in Callers, ReserveItems(c) \/ LockItems(c) PROVE TypeOK'
    <3>1. PICK S \in SUBSET Assets, s \in {"reserving", "locking"} : Begin(c, S, s)
      BY <2>1 DEF ReserveItems, LockItems
    <3>2. QED
      BY <3>1 DEF Begin, Goto, TypeOK, PCs
  <2>2. ASSUME NEW c \in Callers, LockNext(c) PROVE TypeOK'
    <3>1. PICK a \in NextID(c) : /\ itemLocks' = itemLocks \cup {a}
                                 /\ got' = [got EXCEPT ![c] = @ \cup {a}]
      BY <2>2 DEF LockNext
    <3>2. itemLocks' \subseteq Assets /\ got' \in [Callers -> SUBSET Assets]
      BY <3>1, NextIDFacts DEF TypeOK
    <3>3. pc' \in [Callers -> PCs]
      BY <2>2 DEF LockNext, Goto, TypeOK, PCs
    <3>4. QED
      BY <2>2, <3>2, <3>3 DEF LockNext, TypeOK
  <2>3. ASSUME NEW c \in Callers, Refuse(c) \/ Release(c) PROVE TypeOK'
    <3>1. CASE Refuse(c)
      BY <3>1 DEF Refuse, Goto, TypeOK, PCs
    <3>2. CASE Release(c)
      BY <3>2 DEF Release, Goto, TypeOK, PCs
    <3>3. QED
      BY <2>3, <3>1, <3>2
  <2>4. ASSUME NEW c \in Callers, UnlockNext(c) PROVE TypeOK'
    <3>1. PICK a : itemLocks' = itemLocks \ {a} /\ got' = [got EXCEPT ![c] = @ \ {a}]
      BY <2>4 DEF UnlockNext
    <3>2. itemLocks' \subseteq Assets /\ got' \in [Callers -> SUBSET Assets]
      BY <3>1 DEF TypeOK
    <3>3. pc' \in [Callers -> PCs]
      BY <2>4 DEF UnlockNext, Goto, TypeOK, PCs
    <3>4. QED
      BY <2>4, <3>2, <3>3 DEF UnlockNext, TypeOK
  <2>5. CASE UNCHANGED vars
    BY <2>5 DEF vars, TypeOK
  <2>6. QED
    BY <2>1, <2>2, <2>3, <2>4, <2>5 DEF Next
<1>3. QED
  BY <1>1, <1>2, PTL DEF Spec

-----------------------------------------------------------------------------
(* ReserveInv is inductive.                                                *)

\* A step of c, which may lock or unlock assets, keeps the table in order when
\* it does the same to got[c] and touches no asset of another.
LEMMA OwnedStep ==
    ASSUME TypeOK, LocksOwned, NEW c \in Callers, NEW S \in SUBSET Assets,
           got' = [got EXCEPT ![c] = S],
           itemLocks' = (itemLocks \ got[c]) \cup S,
           S \cap itemLocks \subseteq got[c]
    PROVE  LocksOwned'
<1>1. /\ got'[c] = S
      /\ \A d \in Callers \ {c} : got'[d] = got[d]
  BY DEF TypeOK
<1>2. \A d \in Callers : got[d] \subseteq itemLocks
  BY DEF LocksOwned
<1>3. itemLocks' = UNION {got'[d] : d \in Callers}
  <2>1. ASSUME NEW a \in itemLocks' PROVE \E d \in Callers : a \in got'[d]
    BY <1>1, <2>1 DEF LocksOwned
  <2>2. ASSUME NEW d \in Callers, NEW a \in got'[d] PROVE a \in itemLocks'
    BY <1>1, <1>2, <2>2 DEF LocksOwned
  <2>3. QED
    BY <2>1, <2>2
<1>4. \A d, e \in Callers : d # e => got'[d] \cap got'[e] = {}
  <2>1. \A d \in Callers \ {c} : S \cap got[d] = {}
    BY <1>2 DEF LocksOwned
  <2>2. QED
    BY <1>1, <2>1 DEF LocksOwned
<1>5. QED
  BY <1>3, <1>4 DEF LocksOwned

\* The conjuncts about one caller.
Mine(c) ==
    /\ LowerPart(c)
    /\ pc[c] = "idle" => got[c] = {} /\ (want[c] = {} \/ spent[c])
    /\ pc[c] = "held" => got[c] = want[c]

LEMMA BeginStep ==
    ASSUME TypeOK, ReserveInv, NEW c \in Callers, ReserveItems(c) \/ LockItems(c)
    PROVE  ReserveInv'
<1>1. PICK S \in SUBSET Assets : /\ S # {} /\ pc[c] = "idle"
                                 /\ want' = [want EXCEPT ![c] = S]
                                 /\ \E s \in {"reserving", "locking"} : Goto(c, s)
                                 /\ spent' = [spent EXCEPT ![c] = FALSE]
                                 /\ UNCHANGED <<itemLocks, got>>
  BY DEF ReserveItems, LockItems, Begin
<1>2. Mine(c)'
  BY <1>1 DEF Mine, LowerPart, ReserveInv, Goto, TypeOK
<1>3. \A d \in Callers \ {c} : Mine(d)'
  BY <1>1 DEF Mine, LowerPart, ReserveInv, Goto, TypeOK
<1>4. LocksOwned'
  BY <1>1 DEF ReserveInv, LocksOwned
<1>5. QED
  BY <1>2, <1>3, <1>4 DEF ReserveInv, Mine

LEMMA LockStep ==
    ASSUME TypeOK, ReserveInv, NEW c \in Callers, LockNext(c)
    PROVE  ReserveInv'
<1>1. PICK a \in NextID(c) : /\ a \notin itemLocks
                             /\ itemLocks' = itemLocks \cup {a}
                             /\ got' = [got EXCEPT ![c] = @ \cup {a}]
  BY DEF LockNext
<1>2. LocksOwned'
  <2>1. got[c] \subseteq itemLocks
    BY DEF ReserveInv, LocksOwned
  <2>2. got[c] \cup {a} \in SUBSET Assets
    BY NextIDFacts DEF TypeOK
  <2>3. itemLocks' = (itemLocks \ got[c]) \cup (got[c] \cup {a})
    BY <1>1, <2>1
  <2>4. (got[c] \cup {a}) \cap itemLocks \subseteq got[c]
    BY <1>1
  <2>5. QED
    BY <1>1, <2>2, <2>3, <2>4, OwnedStep DEF ReserveInv
<1>3. Mine(c)'
  <2>1. got'[c] = got[c] \cup {a} /\ UNCHANGED <<want, spent>>
    BY <1>1 DEF LockNext, TypeOK
  <2>2. \A x \in got'[c], y \in want[c] \ got'[c] : x < y
    <3>1. ASSUME NEW x \in got'[c], NEW y \in want[c] \ got'[c] PROVE x < y
      <4>1. CASE x = a
        BY <2>1, <4>1, NextIDFacts
      <4>2. CASE x \in got[c]
        BY <2>1, <4>2 DEF ReserveInv, LowerPart, LockNext
      <4>3. QED
        BY <2>1, <4>1, <4>2
    <3>2. QED
      BY <3>1
  <2>3. got'[c] \subseteq want[c]
    BY <2>1, NextIDFacts DEF ReserveInv, LowerPart, LockNext
  <2>4. \/ pc'[c] = "held" /\ got'[c] = want[c]
        \/ pc'[c] = pc[c] /\ got'[c] # want[c]
    BY DEF LockNext, Goto, TypeOK
  <2>5. QED
    BY <2>1, <2>2, <2>3, <2>4 DEF Mine, LowerPart, LockNext
<1>4. \A d \in Callers \ {c} : Mine(d)'
  BY <1>1 DEF LockNext, Mine, LowerPart, ReserveInv, Goto, TypeOK
<1>5. QED
  BY <1>2, <1>3, <1>4 DEF ReserveInv, Mine

LEMMA RefuseStep ==
    ASSUME TypeOK, ReserveInv, NEW c \in Callers, Refuse(c)
    PROVE  ReserveInv'
<1>1. LocksOwned'
  BY DEF Refuse, ReserveInv, LocksOwned
<1>2. Mine(c)'
  BY DEF Refuse, Mine, LowerPart, ReserveInv, Goto, TypeOK
<1>3. \A d \in Callers \ {c} : Mine(d)'
  BY DEF Refuse, Mine, LowerPart, ReserveInv, Goto, TypeOK
<1>4. QED
  BY <1>1, <1>2, <1>3 DEF ReserveInv, Mine

LEMMA ReleaseStep ==
    ASSUME TypeOK, ReserveInv, NEW c \in Callers, Release(c)
    PROVE  ReserveInv'
\* The call has returned and unlock was not called before.
<1>1. pc[c] = "held" /\ got[c] = want[c]
  BY DEF Release, ReserveInv
<1>2. got' = got
  BY <1>1 DEF Release, TypeOK
<1>3. LocksOwned'
  BY <1>2 DEF Release, ReserveInv, LocksOwned
<1>4. \A d \in Callers : Mine(d)'
  BY <1>2 DEF Release, Mine, LowerPart, ReserveInv, Goto, TypeOK
<1>5. QED
  BY <1>3, <1>4 DEF ReserveInv, Mine

\* A caller that unlocks has no asset of the next call, and is done with it.
Unlocking(c) ==
    pc[c] \in {"rollback", "releasing"} => want[c] = {} \/ spent[c]

LEMMA UnlockStep ==
    ASSUME TypeOK, ReserveInv, NEW c \in Callers, Unlocking(c), UnlockNext(c)
    PROVE  ReserveInv'
<1>1. PICK a \in got[c] : /\ itemLocks' = itemLocks \ {a}
                          /\ got' = [got EXCEPT ![c] = @ \ {a}]
  BY DEF UnlockNext, Lowest
<1>2. LocksOwned'
  <2>1. got[c] \subseteq itemLocks
    BY DEF ReserveInv, LocksOwned
  <2>2. itemLocks' = (itemLocks \ got[c]) \cup (got[c] \ {a})
    BY <1>1, <2>1
  <2>3. got[c] \ {a} \in SUBSET Assets
    BY DEF TypeOK
  <2>4. QED
    BY <1>1, <2>2, <2>3, OwnedStep DEF ReserveInv
<1>3. Mine(c)'
  BY <1>1 DEF UnlockNext, Unlocking, Mine, LowerPart, ReserveInv, Goto, TypeOK
<1>4. \A d \in Callers \ {c} : Mine(d)'
  BY <1>1 DEF UnlockNext, Mine, LowerPart, ReserveInv, Goto, TypeOK
<1>5. QED
  BY <1>2, <1>3, <1>4 DEF ReserveInv, Mine

Inductive == ReserveInv /\ \A c \in Callers : Unlocking(c)

LEMMA InductiveStep ==
    ASSUME TypeOK, Inductive, [Next]_vars
    PROVE  Inductive'
<1>1. ReserveInv'
  <2>1. CASE UNCHANGED vars
    BY <2>1 DEF vars, Inductive, ReserveInv, LocksOwned, LowerPart
  <2>2. QED
    BY <2>1, BeginStep, LockStep, RefuseStep, ReleaseStep, UnlockStep DEF Next, Inductive
<1>2. \A c \in Callers : Unlocking(c)'
  <2>1. ASSUME NEW d \in Callers, NEW c \in Callers,
               ReserveItems(d) \/ LockItems(d) \/ LockNext(d) \/ Refuse(d) \/ Release(d)
                 \/ UnlockNext(d)
        PROVE  Unlocking(c)'
    <3>1. CASE ReserveItems(d) \/ LockItems(d)
      BY <3>1 DEF ReserveItems, LockItems, Begin, Goto, Unlocking, Inductive, TypeOK
    <3>2. CASE LockNext(d) \/ Refuse(d) \/ Release(d) \/ UnlockNext(d)
      BY <3>2 DEF LockNext, Refuse, Release, UnlockNext, Goto, Unlocking, Inductive, TypeOK
    <3>3. QED
      BY <2>1, <3>1, <3>2
  <2>2. CASE UNCHANGED vars
    BY <2>2 DEF vars, Unlocking, Inductive
  <2>3. QED
    BY <2>1, <2>2 DEF Next
<1>3. QED
  BY <1>1, <1>2 DEF Inductive

LEMMA ReserveInvariant == Spec => []Inductive
<1>1. Init => Inductive
  BY DEF Init, Inductive, ReserveInv, LocksOwned, LowerPart, Unlocking
<1>2. TypeOK /\ Inductive /\ [Next]_vars => Inductive'
  BY InductiveStep
<1>3. QED
  BY <1>1, <1>2, ReserveTypeCorrect, PTL DEF Spec

\* Every locked asset is held by exactly one goroutine: no call leaks a lock.
THEOREM ReserveLocksOwned == Spec => []LocksOwned
<1>1. Inductive => LocksOwned
  BY DEF Inductive, ReserveInv
<1>2. QED
  BY <1>1, ReserveInvariant, PTL

-----------------------------------------------------------------------------
(* No ring of waiting callers.                                             *)

\* A set of naturals up to n has a greatest member.
LEMMA Greatest ==
    ASSUME NEW n \in Nat, NEW S, S \subseteq 0..n, S # {}
    PROVE  \E m \in S : \A k \in S : k <= m
<1> DEFINE T == {n - k : k \in S}
<1>1. T \subseteq Nat /\ T # {}
  OBVIOUS
<1>2. PICK t \in T : \A u \in T : <<u, t>> \notin OpToRel(<, Nat)
  BY <1>1, NatLessThanWellFounded, WFMin
<1>3. \A u \in T : ~ (u < t)
  BY <1>1, <1>2 DEF OpToRel
<1>4. PICK m \in S : t = n - m
  OBVIOUS
<1>5. ASSUME NEW k \in S PROVE k <= m
  <2>1. ~ (n - k < n - m)
    BY <1>3, <1>4
  <2>2. QED
    BY <2>1
<1>6. QED
  BY <1>5

\* Every ID a caller holds is below those it has still to lock.
LEMMA WaitsAscend ==
    ASSUME TypeOK, Inductive, NEW d \in Callers, pc[d] = "locking",
           NEW a \in got[d], NEW b \in NextID(d)
    PROVE  a < b
BY NextIDFacts DEF Inductive, ReserveInv, LowerPart

\* LockItems calls cannot wait for each other in a ring, however many they are:
\* the one that waits for the greatest ID waits for nobody who waits.  Asset
\* IDs are bounded, as the code's uint64.
THEOREM ReserveNoCycle ==
    ASSUME NEW MaxID \in Nat, Assets \subseteq 0..MaxID
    PROVE  Spec => []NoCircularWait
<1>1. TypeOK /\ Inductive => NoCircularWait
  <2> SUFFICES ASSUME TypeOK, Inductive, NEW W \in SUBSET Callers, W # {},
                      \A c \in W : pc[c] = "locking" /\ \E d \in W : NextID(c) \cap got[d] # {}
               PROVE  FALSE
    BY DEF NoCircularWait
  <2> DEFINE Waited == UNION {NextID(c) : c \in W}
  <2>1. Waited \subseteq 0..MaxID
    BY NextIDFacts
  <2>2. Waited # {}
    OBVIOUS
  <2>3. PICK m \in Waited : \A k \in Waited : k <= m
    <3> HIDE DEF Waited
    <3> QED
      BY <2>1, <2>2, Greatest
  <2>4. PICK c \in W : m \in NextID(c)
    OBVIOUS
  <2>5. PICK d \in W, a \in NextID(c) : a \in got[d]
    OBVIOUS
  <2>6. a = m
    BY <2>4, <2>5, NextIDFacts
  <2>7. PICK b \in NextID(d) : m < b
    <3>1. PICK b : b \in NextID(d)
      OBVIOUS
    <3>2. QED
      BY <2>5, <2>6, <3>1, WaitsAscend
  <2>8. b <= m /\ b \in Int /\ m \in Int
    BY <2>1, <2>3, <2>7
  <2>9. QED
    BY <2>7, <2>8
<1>2. QED
  BY <1>1, ReserveInvariant, ReserveTypeCorrect, PTL

\* So the callers of LockItems never come to a standstill.
THEOREM ReserveNoDeadlock ==
    ASSUME NEW MaxID \in Nat, Assets \subseteq 0..MaxID
    PROVE  Spec => []SomebodyMoves
<1>1. TypeOK /\ Inductive /\ NoCircularWait => SomebodyMoves
  <2> SUFFICES ASSUME TypeOK, Inductive, NoCircularWait,
                      NEW w \in Callers, pc[w] = "locking"
               PROVE  \E c \in Callers : \/ pc[c] = "locking" /\ NextID(c) \cap itemLocks = {}
                                         \/ pc[c] \notin {"idle", "locking"}
    BY DEF SomebodyMoves
  <2> DEFINE W == {c \in Callers : pc[c] = "locking"}
  <2>1. PICK c \in W : \A d \in W : NextID(c) \cap got[d] = {}
    <3>1. W \in (SUBSET Callers) \ {{}}
      OBVIOUS
    <3>2. QED
      BY <3>1 DEF NoCircularWait
  <2>2. CASE NextID(c) \cap itemLocks = {}
    BY <2>2
  <2>3. CASE NextID(c) \cap itemLocks # {}
    <3>1. PICK d \in Callers : NextID(c) \cap got[d] # {}
      BY <2>3 DEF Inductive, ReserveInv, LocksOwned
    <3>2. pc[d] # "locking" /\ pc[d] # "idle"
      BY <2>1, <3>1 DEF Inductive, ReserveInv
    <3>3. QED
      BY <3>2
  <2>4. QED
    BY <2>2, <2>3
<1>2. QED
  BY <1>1, ReserveNoCycle, ReserveInvariant, ReserveTypeCorrect, PTL

-----------------------------------------------------------------------------
(* Refinement.                                                             *)

\* Locking the last ID takes all of them, calling unlock gives them back, and
\* every other step is invisible.
LEMMA UseStep ==
    ASSUME TypeOK, Inductive, [Next]_vars
    PROVE  [Use!Next]_Using
<1>1. ASSUME NEW c \in Callers, Release(c) PROVE [Use!Next]_Using
  <2>1. Using' = [Using EXCEPT ![c] = {}]
    BY <1>1 DEF Release, Goto, Using, TypeOK
  <2>2. QED
    BY <2>1 DEF Use!Next, Use!Release
<1>2. ASSUME NEW c \in Callers, LockNext(c) PROVE [Use!Next]_Using
  <2>1. CASE got'[c] = want[c]
    <3>1. Using' = [Using EXCEPT ![c] = want[c]]
      BY <1>2, <2>1 DEF LockNext, Goto, Using, TypeOK
    <3>2. Using[c] = {}
      BY <1>2 DEF LockNext, Using
    <3>3. \A d \in Callers : Use!Disjoint(want[c], Using[d])
      <4>1. LocksOwned' /\ Inductive'
        BY <1>2, InductiveStep DEF Next, Inductive, ReserveInv
      <4>2. ASSUME NEW d \in Callers \ {c}, pc[d] = "held"
            PROVE  want[d] = got'[d]
        BY <1>2, <4>2 DEF LockNext, Inductive, ReserveInv, TypeOK
      <4>3. \A d \in Callers \ {c} : Use!Disjoint(want[c], Using[d])
        BY <2>1, <4>1, <4>2 DEF LocksOwned, Use!Disjoint, Using
      <4>4. QED
        BY <3>2, <4>3 DEF Use!Disjoint
    <3>4. want[c] \in SUBSET Assets
      BY DEF TypeOK
    <3>5. QED
      BY <3>1, <3>2, <3>3, <3>4 DEF Use!Next, Use!Acquire
  <2>2. CASE got'[c] # want[c]
    <3>1. Using' = Using
      BY <1>2, <2>2 DEF LockNext, Using
    <3>2. QED
      BY <3>1
  <2>3. QED
    BY <2>1, <2>2
<1>3. ASSUME NEW c \in Callers,
             ReserveItems(c) \/ LockItems(c) \/ Refuse(c) \/ UnlockNext(c)
      PROVE  Using' = Using
  <2>1. CASE ReserveItems(c) \/ LockItems(c)
    BY <2>1 DEF ReserveItems, LockItems, Begin, Goto, Using, TypeOK
  <2>2. CASE Refuse(c) \/ UnlockNext(c)
    BY <2>2 DEF Refuse, UnlockNext, Goto, Using, TypeOK
  <2>3. QED
    BY <1>3, <2>1, <2>2
<1>4. CASE UNCHANGED vars
  BY <1>4 DEF vars, Using
<1>5. QED
  BY <1>1, <1>2, <1>3, <1>4 DEF Next

\* ReserveItems and LockItems implement AssetUse.
THEOREM ReserveImplementsAssetUse == Spec => ImplementsAssetUse
<1>1. Init => Use!Init
  BY DEF Init, Use!Init, Using
<1>2. QED
  BY <1>1, UseStep, ReserveInvariant, ReserveTypeCorrect, PTL
     DEF Spec, ImplementsAssetUse, Use!Spec

\* What AssetUse promises follows from its steps alone.
LEMMA UseExclusive == Use!Exclusive /\ [Use!Next]_Using => Use!Exclusive'
<1> SUFFICES ASSUME Use!Exclusive, [Use!Next]_Using PROVE Use!Exclusive'
  OBVIOUS
<1>1. DOMAIN Using = Callers /\ Using = [u \in DOMAIN Using |-> Using[u]]
  BY DEF Using
<1>2. ASSUME NEW u \in Callers, Use!Release(u) PROVE Use!Exclusive'
  <2>1. Using' = [Using EXCEPT ![u] = {}]
    BY <1>2 DEF Use!Release
  <2>2. \A v \in Callers : Using'[v] = IF v = u THEN {} ELSE Using[v]
    BY <1>1, <2>1
  <2>3. QED
    BY <2>2 DEF Use!Exclusive, Use!Disjoint
<1>3. ASSUME NEW u \in Callers, NEW S, Use!Acquire(u, S) PROVE Use!Exclusive'
  <2>1. /\ \A v \in Callers : \A a \in S : a \notin Using[v]
        /\ Using' = [Using EXCEPT ![u] = S]
    BY <1>3 DEF Use!Acquire, Use!Disjoint
  <2>2. \A v \in Callers : Using'[v] = IF v = u THEN S ELSE Using[v]
    BY <1>1, <2>1
  <2>3. QED
    BY <2>1, <2>2 DEF Use!Exclusive, Use!Disjoint
<1>4. CASE UNCHANGED Using
  BY <1>4 DEF Use!Exclusive, Use!Disjoint
<1>5. QED
  BY <1>2, <1>3, <1>4 DEF Use!Next

\* No asset is in the trades of two goroutines at a time, through AssetUse.
THEOREM ReserveExclusive == Spec => []Use!Exclusive
<1>1. Use!Init => Use!Exclusive
  BY DEF Use!Init, Use!Exclusive, Use!Disjoint
<1>2. QED
  BY <1>1, UseExclusive, ReserveImplementsAssetUse, PTL DEF ImplementsAssetUse, Use!Spec
=============================================================================
