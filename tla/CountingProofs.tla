----------------------------- MODULE CountingProofs ---------------------------
(***************************************************************************)
(* Two components whose proofs count. The retention budget charges exactly *)
(* what is owned, for every limit, queue size and number of frames; and a  *)
(* listing of checks that was read page by page is the whole listing, for  *)
(* every page size, set of jobs and number of workflows.                   *)
(***************************************************************************)
EXTENDS Retention, CheckAcceptance, FiniteSetTheorems, WellFoundedInduction, TLAPS

\* The structures and goroutines that hold a lease.
Owners(l) == {p \in Places : l \in hold[p]}

\* Which two places may hold the same lease: a run's history shares with whoever
\* hands it a notification, and failAll shares what a replay is working on.
Together(p, q) ==
  \/ p = q
  \/ p = "history" /\ q \in {"reader", "register", "replaying", "failReplay"}
  \/ q = "history" /\ p \in {"reader", "register", "replaying", "failReplay"}
  \/ p = "replaying" /\ q = "failReplay"
  \/ p = "failReplay" /\ q = "replaying"

Alone == \A p, q \in Places, l \in Leases :
           l \in hold[p] /\ l \in hold[q] => Together(p, q)

\* A pended notification that nobody has resolved is in no history yet.
Pended == \A l \in hold["replaying"] \cup hold["failReplay"] :
            l \notin resolved => l \notin hold["history"]

LeaseTypes ==
  /\ refs \in [Leases -> Nat]
  /\ cost \in [Leases -> 0..4]
  /\ used \in Nat
  /\ hold \in [Places -> SUBSET Leases]

\* Every lease counts its owners and carries a charge while it has one.
Book ==
  /\ LeaseTypes
  /\ RefsAreOwners
  /\ \A l \in Leases : refs[l] = 0 <=> cost[l] = 0
  /\ used = Charge(Leases)
  /\ used <= Limit

-----------------------------------------------------------------------------
(* Finite sets: places, owners and units.                                  *)

LEMMA PlacesFinite == IsFiniteSet(Places)
<1> DEFINE A == {"queue", "dispatch", "threadKey", "turnKey", "threadPending"}
           B == {"turnPending", "diagnostic", "replaying", "history", "reader"}
           C == {"register", "attachDiag", "failPending", "failReplay", "failDiag"}
<1>1. \A a, b, c, d, e : IsFiniteSet({a, b, c, d, e})
  <2> TAKE a, b, c, d, e
  <2>1. IsFiniteSet({} \cup {a}) BY FS_EmptySet, FS_AddElement
  <2>2. IsFiniteSet(({} \cup {a}) \cup {b}) BY <2>1, FS_AddElement
  <2>3. IsFiniteSet((({} \cup {a}) \cup {b}) \cup {c}) BY <2>2, FS_AddElement
  <2>4. IsFiniteSet(((({} \cup {a}) \cup {b}) \cup {c}) \cup {d}) BY <2>3, FS_AddElement
  <2>5. IsFiniteSet((((({} \cup {a}) \cup {b}) \cup {c}) \cup {d}) \cup {e}) BY <2>4, FS_AddElement
  <2>6. (((({} \cup {a}) \cup {b}) \cup {c}) \cup {d}) \cup {e} = {a, b, c, d, e} OBVIOUS
  <2> QED BY <2>5, <2>6
<1>2. IsFiniteSet(A) /\ IsFiniteSet(B) /\ IsFiniteSet(C) BY <1>1
<1> HIDE DEF A, B, C
<1>3. IsFiniteSet((A \cup B) \cup C) BY <1>2, FS_Union
<1>4. Places \subseteq (A \cup B) \cup C BY DEF Places, A, B, C
<1> QED BY <1>3, <1>4, FS_Subset

LEMMA UpTo ==
  ASSUME NEW n \in Nat
  PROVE  IsFiniteSet(1..n) /\ Cardinality(1..n) = n
<1>1. \A a, b \in Int : /\ IsFiniteSet(a..b)
                         /\ Cardinality(a..b) = IF a > b THEN 0 ELSE b-a+1
  BY FS_Interval
<1>2. 1 \in Int /\ n \in Int OBVIOUS
<1>3. /\ IsFiniteSet(1..n)
      /\ Cardinality(1..n) = IF 1 > n THEN 0 ELSE n-1+1
  BY <1>1, <1>2
<1> QED BY <1>3

LEMMA OwnersFinite ==
  ASSUME NEW l
  PROVE  IsFiniteSet(Owners(l)) /\ Cardinality(Owners(l)) \in Nat
<1>1. Owners(l) \in SUBSET Places BY DEF Owners
<1>2. IsFiniteSet(Owners(l)) BY <1>1, PlacesFinite, FS_Subset
<1> QED BY <1>2, FS_CardinalityType

\* A lease that nobody holds has no owner counted, and the other way round.
LEMMA NoOwner ==
  ASSUME NEW l, Cardinality(Owners(l)) = 0
  PROVE  \A p \in Places : l \notin hold[p]
<1>1. Owners(l) = {} BY OwnersFinite, FS_EmptySet
<1> QED BY <1>1 DEF Owners

LEMMA UnitsFinite ==
  ASSUME NEW S \in SUBSET Leases
  PROVE  /\ IsFiniteSet(Units(S)) /\ Charge(S) \in Nat
         /\ IsFiniteSet(Units(S))' /\ Charge(S)' \in Nat
<1>1. Limit \in Nat /\ 4 \in Nat BY BudgetAssumption
<1>2. IsFiniteSet(Leases) BY <1>1, UpTo DEF Leases
<1>3. IsFiniteSet(1..4) BY <1>1, UpTo
<1>4. IsFiniteSet(Leases \X (1..4)) BY <1>2, <1>3, FS_Product
<1>5. Units(S) \in SUBSET (Leases \X (1..4)) BY DEF Units
<1>6. Units(S)' \in SUBSET (Leases \X (1..4)) BY DEF Units
<1>7. IsFiniteSet(Units(S)) BY <1>4, <1>5, FS_Subset
<1>8. IsFiniteSet(Units(S)') BY <1>4, <1>6, FS_Subset
<1>9. Charge(S) \in Nat BY <1>7, FS_CardinalityType DEF Charge
<1>10. Cardinality(Units(S)') \in Nat BY <1>8, FS_CardinalityType
<1> QED BY <1>7, <1>8, <1>9, <1>10 DEF Charge

\* The units of one lease are as many as its cost.
LEMMA OneCharge ==
  ASSUME NEW l, NEW n \in 0..4
  PROVE  IsFiniteSet({l} \X (1..n)) /\ Cardinality({l} \X (1..n)) = n
<1>1. IsFiniteSet({l}) /\ Cardinality({l}) = 1 BY FS_Singleton
<1>2. IsFiniteSet(1..n) /\ Cardinality(1..n) = n BY UpTo
<1>3. /\ IsFiniteSet({l} \X (1..n))
      /\ Cardinality({l} \X (1..n)) = Cardinality({l}) * Cardinality(1..n)
  BY <1>1, <1>2, FS_Product
<1> QED BY <1>1, <1>2, <1>3

LEMMA ChargeOfOne ==
  ASSUME NEW l \in Leases, LeaseTypes
  PROVE  Charge({l}) = cost[l]
<1>1. cost[l] \in 0..4 BY DEF LeaseTypes
<1>2. Units({l}) = {l} \X (1..cost[l]) BY <1>1 DEF Units
<1> QED BY <1>1, <1>2, OneCharge DEF Charge

\* While the budget has room there is a lease that is free.
LEMMA RoomMeansFree ==
  ASSUME Book, NEW n \in 1..4, Fits(n)
  PROVE  Fresh \in Leases /\ refs[Fresh] = 0
<1>1. Limit \in Nat BY BudgetAssumption
<1>2. SUFFICES ASSUME \A l \in Leases : refs[l] # 0
               PROVE  FALSE
  BY DEF Fresh
<1>3. \A l \in Leases : cost[l] >= 1 BY <1>2 DEF Book, LeaseTypes
<1>4. IsFiniteSet(Leases) /\ Cardinality(Leases) = Limit
  BY <1>1, UpTo DEF Leases
<1> DEFINE f == [l \in Leases |-> <<l, 1>>]
<1>5. f \in Injection(Leases, Units(Leases))
  <2>1. \A l \in Leases : <<l, 1>> \in Units(Leases) BY <1>3 DEF Units
  <2>2. f \in [Leases -> Units(Leases)] BY <2>1
  <2>3. \A a, b \in Leases : f[a] = f[b] => a = b OBVIOUS
  <2> QED BY <2>2, <2>3 DEF Injection, IsInjective
<1>6. IsFiniteSet(Units(Leases)) BY UnitsFinite
<1> HIDE DEF f
<1>7. Cardinality(Leases) <= Cardinality(Units(Leases)) BY <1>5, <1>6, FS_Injection
<1>8. used = Cardinality(Units(Leases)) BY DEF Book, Charge
<1>9. used \in Nat /\ used + n <= Limit BY <1>1 DEF Book, LeaseTypes, Fits
<1> QED BY <1>1, <1>4, <1>7, <1>8, <1>9

-----------------------------------------------------------------------------
(* What reserving and releasing do to the books.                           *)

LEMMA SameUnits ==
  ASSUME NEW A \in SUBSET (Leases \X (1..4)), NEW B \in SUBSET (Leases \X (1..4)),
         \A l \in Leases, k \in 1..4 : <<l, k>> \in A <=> <<l, k>> \in B
  PROVE  A = B
<1>1. ASSUME NEW u \in Leases \X (1..4)
      PROVE  u \in A <=> u \in B
  <2>1. PICK l \in Leases, k \in 1..4 : u = <<l, k>> OBVIOUS
  <2> QED BY <2>1
<1> QED BY <1>1

LEMMA ReserveKeepsBook ==
  ASSUME Book, NEW n \in 1..4, NEW p \in Places, NEW more \in SUBSET (Places \ {p}),
         Reserve(n, p, more)
  PROVE  /\ Book'
         /\ Fresh \in Leases /\ \A q \in Places : Fresh \notin hold[q]
         /\ \A q \in Places :
              hold'[q] = IF q = p \/ q \in more THEN hold[q] \cup {Fresh} ELSE hold[q]
<1>1. LeaseTypes /\ RefsAreOwners /\ used = Charge(Leases) BY DEF Book
<1>2. PICK f \in Leases : f = Fresh /\ refs[f] = 0 BY RoomMeansFree DEF Reserve
<1>3. \A q \in Places : f \notin hold[q]
  <2>1. Cardinality(Owners(f)) = 0 BY <1>1, <1>2 DEF RefsAreOwners, Owners
  <2> QED BY <2>1, NoOwner
<1>4. cost[f] = 0 BY <1>2 DEF Book
<1>5. IsFiniteSet(more) /\ IsFiniteSet(more \cup {p})
      /\ Cardinality(more \cup {p}) = 1 + Cardinality(more) /\ Cardinality(more) \in Nat
  <2>1. IsFiniteSet(more) BY PlacesFinite, FS_Subset
  <2>2. Cardinality(more) \in Nat BY <2>1, FS_CardinalityType
  <2>3. p \notin more OBVIOUS
  <2>4. IsFiniteSet(more \cup {p}) /\ Cardinality(more \cup {p}) = Cardinality(more) + 1
    BY <2>1, <2>3, FS_AddElement
  <2> QED BY <2>1, <2>2, <2>4
<1>6. /\ refs' = [refs EXCEPT ![f] = 1 + Cardinality(more)]
      /\ cost' = [cost EXCEPT ![f] = n]
      /\ used' = used + n
      /\ hold' = [q \in Places |-> IF q = p \/ q \in more THEN hold[q] \cup {f} ELSE hold[q]]
      /\ n <= Limit - used
  BY <1>2 DEF Reserve, Fits
<1>7. LeaseTypes'
  <2>1. refs' \in [Leases -> Nat] BY <1>1, <1>5, <1>6 DEF LeaseTypes
  <2>2. cost' \in [Leases -> 0..4] BY <1>1, <1>6 DEF LeaseTypes
  <2>3. used' \in Nat BY <1>1, <1>6 DEF LeaseTypes
  <2>4. hold' \in [Places -> SUBSET Leases] BY <1>1, <1>6 DEF LeaseTypes
  <2> QED BY <2>1, <2>2, <2>3, <2>4 DEF LeaseTypes
<1>8. RefsAreOwners'
  <2> SUFFICES ASSUME NEW l \in Leases
               PROVE  refs'[l] = Cardinality({q \in Places : l \in hold'[q]})
    BY DEF RefsAreOwners
  <2>1. CASE l = f
    <3>1. {q \in Places : l \in hold'[q]} = more \cup {p} BY <1>3, <1>6, <2>1
    <3> QED BY <1>1, <1>5, <1>6, <2>1, <3>1 DEF LeaseTypes
  <2>2. CASE l # f
    <3>1. {q \in Places : l \in hold'[q]} = {q \in Places : l \in hold[q]} BY <1>6, <2>2
    <3>2. refs'[l] = refs[l] BY <1>1, <1>6, <2>2 DEF LeaseTypes
    <3> QED BY <1>1, <3>1, <3>2 DEF RefsAreOwners
  <2> QED BY <2>1, <2>2
<1>9. used' = Charge(Leases)'
  <2>1. Units(Leases)' = Units(Leases) \cup ({f} \X (1..n))
    <3>1. \A l \in Leases : cost'[l] = IF l = f THEN n ELSE cost[l]
      BY <1>1, <1>6 DEF LeaseTypes
    <3>2. \A l \in Leases, k \in 1..4 :
            <<l, k>> \in Units(Leases)' <=> <<l, k>> \in Units(Leases) \cup ({f} \X (1..n))
      <4> TAKE l \in Leases, k \in 1..4
      <4>1. <<l, k>> \in Units(Leases) <=> k <= cost[l] BY DEF Units
      <4>2. <<l, k>> \in Units(Leases)' <=> k <= cost'[l] BY DEF Units
      <4>3. <<l, k>> \in {f} \X (1..n) <=> l = f /\ k <= n OBVIOUS
      <4>4. CASE l = f
        <5>1. cost'[l] = n /\ cost[l] = 0 /\ ~(k <= 0) BY <1>4, <3>1, <4>4
        <5> QED BY <4>1, <4>2, <4>3, <4>4, <5>1
      <4>5. CASE l # f
        <5>1. cost'[l] = cost[l] BY <3>1, <4>5
        <5> QED BY <4>1, <4>2, <4>3, <4>5, <5>1
      <4> QED BY <4>4, <4>5
    <3>3. Units(Leases)' \in SUBSET (Leases \X (1..4)) BY DEF Units
    <3>4. Units(Leases) \in SUBSET (Leases \X (1..4)) BY DEF Units
    <3>5. {f} \X (1..n) \in SUBSET (Leases \X (1..4)) OBVIOUS
    <3>6. Units(Leases) \cup ({f} \X (1..n)) \in SUBSET (Leases \X (1..4)) BY <3>4, <3>5
    <3> DEFINE V == Units(Leases) \cup ({f} \X (1..n))
    <3>7. V \in SUBSET (Leases \X (1..4)) BY <3>6
    <3>8. \A l \in Leases, k \in 1..4 : <<l, k>> \in Units(Leases)' <=> <<l, k>> \in V
      BY <3>2
    <3> HIDE DEF V
    <3>9. Units(Leases)' = V BY <3>3, <3>7, <3>8, SameUnits
    <3> QED BY <3>9 DEF V
  <2>2. Units(Leases) \cap ({f} \X (1..n)) = {} BY <1>4 DEF Units
  <2>3. IsFiniteSet(Units(Leases)) /\ Charge(Leases) \in Nat BY UnitsFinite
  <2>4. IsFiniteSet({f} \X (1..n)) /\ Cardinality({f} \X (1..n)) = n
    <3>1. n \in 0..4 OBVIOUS
    <3> QED BY <3>1, OneCharge
  <2>5. Cardinality(Units(Leases)') = Cardinality(Units(Leases)) + n - Cardinality({})
    BY <2>1, <2>2, <2>3, <2>4, FS_Union
  <2>6. Cardinality(Units(Leases)') = Cardinality(Units(Leases)) + n
    BY <2>3, <2>5, FS_EmptySet DEF Charge
  <2> QED BY <1>1, <1>6, <2>6 DEF Charge
<1>10. \A l \in Leases : refs'[l] = 0 <=> cost'[l] = 0
  BY <1>1, <1>5, <1>6 DEF Book, LeaseTypes
<1>11. used' <= Limit BY <1>1, <1>6, BudgetAssumption DEF LeaseTypes
<1> QED BY <1>2, <1>3, <1>6, <1>7, <1>8, <1>9, <1>10, <1>11 DEF Book

\* The leases nobody owns any more give their charge back, the others keep it.
LEMMA SettleKeepsBook ==
  ASSUME Book, hold' \in [Places -> SUBSET Leases], refs' \in [Leases -> Nat],
         RefsAreOwners', \A l \in Leases : refs[l] = 0 => refs'[l] = 0,
         cost' = [l \in Leases |-> IF refs'[l] = 0 THEN 0 ELSE cost[l]],
         used' = used - Charge({l \in Alive : refs'[l] = 0})
  PROVE  Book'
<1> DEFINE D == {l \in Alive : refs'[l] = 0}
<1>1. LeaseTypes /\ used = Charge(Leases) BY DEF Book
<1>2. D \in SUBSET Leases BY DEF Alive
<1>3. \A l \in Leases : refs'[l] = 0 /\ l \notin D => cost[l] = 0
  BY <1>1 DEF Book, Alive, LeaseTypes
<1>4. \A l \in Leases : cost'[l] = IF l \in D THEN 0 ELSE cost[l] BY <1>3
<1> HIDE DEF D
<1>5. Units(Leases)' = Units(Leases) \ Units(D)
  <2>1. \A l \in Leases, k \in 1..4 :
          <<l, k>> \in Units(Leases)' <=> <<l, k>> \in Units(Leases) \ Units(D)
    <3> TAKE l \in Leases, k \in 1..4
    <3>1. <<l, k>> \in Units(Leases) <=> k <= cost[l] BY DEF Units
    <3>2. <<l, k>> \in Units(Leases)' <=> k <= cost'[l] BY DEF Units
    <3>3. <<l, k>> \in Units(D) <=> l \in D /\ k <= cost[l] BY DEF Units
    <3>4. CASE l \in D
      <4>1. ~(k <= cost'[l]) BY <1>4, <3>4
      <4> QED BY <3>1, <3>2, <3>3, <3>4, <4>1
    <3>5. CASE l \notin D
      <4>1. cost'[l] = cost[l] BY <1>4, <3>5
      <4> QED BY <3>1, <3>2, <3>3, <3>5, <4>1
    <3> QED BY <3>4, <3>5
  <2>2. Units(Leases)' \in SUBSET (Leases \X (1..4)) BY DEF Units
  <2>3. Units(Leases) \ Units(D) \in SUBSET (Leases \X (1..4)) BY DEF Units
  <2> QED BY <2>1, <2>2, <2>3, SameUnits
<1>6. Units(Leases) \cap Units(D) = Units(D) BY <1>2 DEF Units
<1>7. IsFiniteSet(Units(Leases)) /\ Charge(Leases) \in Nat BY UnitsFinite
<1>8. Charge(D) \in Nat BY <1>2, UnitsFinite
<1>9. Cardinality(Units(Leases)') = Cardinality(Units(Leases)) - Cardinality(Units(D))
  BY <1>5, <1>6, <1>7, FS_Difference
<1>10. used' = Charge(Leases)' BY <1>1, <1>9 DEF Charge, D
<1>11. Charge(Leases)' \in Nat BY UnitsFinite
<1>12. used' = used - Charge(D) BY DEF D
<1>13. cost' \in [Leases -> 0..4] BY <1>1 DEF LeaseTypes
<1>14. \A l \in Leases : refs'[l] = 0 <=> cost'[l] = 0 BY DEF Book
<1>15. used' <= Limit /\ used' \in Nat
  BY <1>1, <1>8, <1>10, <1>11, <1>12, BudgetAssumption DEF Book, LeaseTypes
<1> QED BY <1>10, <1>13, <1>14, <1>15 DEF Book, LeaseTypes

\* A lease moves between owners, or gets one more, and stays charged.
LEMMA ShareKeepsBook ==
  ASSUME Book, hold' \in [Places -> SUBSET Leases], refs' \in [Leases -> Nat],
         RefsAreOwners', \A l \in Leases : refs[l] = 0 <=> refs'[l] = 0,
         UNCHANGED <<cost, used>>
  PROVE  Book'
<1>1. Charge(Leases)' = Charge(Leases) BY DEF Charge, Units
<1> QED BY <1>1 DEF Book, LeaseTypes

\* After releases by P what is left of a lease is its owners outside P.
LEMMA LeftIsOwners ==
  ASSUME Book, NEW P \in SUBSET Places, NEW l \in Leases
  PROVE  /\ IsFiniteSet(Owners(l) \ P)
         /\ Left(P, l) = Cardinality(Owners(l) \ P) /\ Left(P, l) \in Nat
         /\ Left(P, l) <= refs[l]
<1>1. IsFiniteSet(Owners(l)) /\ Cardinality(Owners(l)) \in Nat BY OwnersFinite
<1>2. {p \in P : l \in hold[p]} = Owners(l) \cap P BY DEF Owners
<1>3. /\ IsFiniteSet(Owners(l) \ P)
      /\ Cardinality(Owners(l) \ P) = Cardinality(Owners(l)) - Cardinality(Owners(l) \cap P)
  BY <1>1, FS_Difference
<1>4. IsFiniteSet(Owners(l) \cap P) BY <1>1, FS_Intersection
<1>5. Cardinality(Owners(l) \cap P) \in Nat /\ Cardinality(Owners(l) \ P) \in Nat
  BY <1>3, <1>4, FS_CardinalityType
<1>6. refs[l] = Cardinality(Owners(l)) BY DEF Book, RefsAreOwners, Owners
<1>7. Left(P, l) = refs[l] - Cardinality(Owners(l) \cap P) BY <1>2 DEF Left, Releases
<1> QED BY <1>1, <1>3, <1>5, <1>6, <1>7

LEMMA ReleaseAllKeepsBook ==
  ASSUME Book, NEW P \in SUBSET Places, ReleaseAll(P), hold' \in [Places -> SUBSET Leases],
         \A l \in Leases :
           Cardinality({p \in Places : l \in hold'[p]}) = Cardinality(Owners(l) \ P)
  PROVE  Book'
<1>1. refs' = [l \in Leases |-> Left(P, l)] BY DEF ReleaseAll
<1>2. \A l \in Leases : refs'[l] = Left(P, l) BY <1>1
<1>3. refs' \in [Leases -> Nat] BY <1>1, LeftIsOwners
<1>4. RefsAreOwners' BY <1>2, LeftIsOwners DEF RefsAreOwners
<1>5. \A l \in Leases : refs[l] = 0 => refs'[l] = 0
  <2> TAKE l \in Leases
  <2>1. refs'[l] <= refs[l] /\ refs'[l] \in Nat BY <1>2, LeftIsOwners
  <2> QED BY <2>1
<1>6. cost' = [l \in Leases |-> IF refs'[l] = 0 THEN 0 ELSE cost[l]] BY <1>2 DEF ReleaseAll
<1>7. {l \in Alive : Left(P, l) = 0} = {l \in Alive : refs'[l] = 0} BY <1>2 DEF Alive
<1>8. used' = used - Charge({l \in Alive : refs'[l] = 0}) BY <1>7 DEF ReleaseAll
<1> QED BY <1>3, <1>4, <1>5, <1>6, <1>8, SettleKeepsBook

\* The places in from can hand over what they hold to places that neither release
\* nor hold it yet.
Movable(P, from, to) ==
  /\ P \in SUBSET Places /\ from \in SUBSET Places /\ P \cap from = {}
  /\ \A f \in from : to[f] \in Places \ (P \cup from)
  /\ \A f, g \in from, l \in Leases :
       l \in hold[f] => l \notin hold[to[f]] /\ (l \in hold[g] => g = f)

\* The places in P release what they hold, those in from hand theirs over.
LEMMA HandOverKeepsBook ==
  ASSUME Book, NEW P, NEW from, NEW to, HandOver(P, from, to), Movable(P, from, to)
  PROVE  Book'
<1> USE DEF Movable
<1>1. LeaseTypes BY DEF Book
<1>2. \A p \in Places :
        hold'[p] = IF p \in P \/ p \in from THEN {}
                   ELSE hold[p] \cup UNION {hold[f] : f \in {g \in from : to[g] = p}}
  BY DEF HandOver
<1>0. ASSUME NEW p \in Places, NEW l
      PROVE  l \in hold'[p] <=> /\ p \notin P /\ p \notin from
                               /\ \/ l \in hold[p]
                                  \/ \E f \in from : to[f] = p /\ l \in hold[f]
  <2> DEFINE U == UNION {hold[f] : f \in {g \in from : to[g] = p}}
  <2>1. l \in U <=> \E f \in from : to[f] = p /\ l \in hold[f] OBVIOUS
  <2>2. hold'[p] = IF p \in P \/ p \in from THEN {} ELSE hold[p] \cup U BY <1>2
  <2> HIDE DEF U
  <2> QED BY <2>1, <2>2
<1>3. hold' \in [Places -> SUBSET Leases]
  <2>1. \A p \in Places : hold[p] \subseteq Leases BY <1>1 DEF LeaseTypes
  <2>2. \A p \in Places : hold'[p] \subseteq Leases BY <1>0, <2>1
  <2>3. hold' = [p \in Places |-> hold'[p]] BY DEF HandOver
  <2> QED BY <2>2, <2>3
<1>6. \A l \in Leases, p \in Places :
        l \in hold'[p] <=> /\ p \notin P /\ p \notin from
                          /\ \/ l \in hold[p]
                             \/ \E f \in from : to[f] = p /\ l \in hold[f]
  BY <1>0
<1>7. ASSUME NEW l \in Leases
      PROVE  Cardinality({p \in Places : l \in hold'[p]}) = Cardinality(Owners(l) \ P)
  <2>1. IsFiniteSet(Owners(l) \ P) BY LeftIsOwners
  <2>2. CASE \A f \in from : l \notin hold[f]
    <3>1. {p \in Places : l \in hold'[p]} = Owners(l) \ P BY <1>6, <2>2 DEF Owners
    <3> QED BY <3>1
  <2>3. ASSUME NEW f \in from, l \in hold[f]
        PROVE  Cardinality({p \in Places : l \in hold'[p]}) = Cardinality(Owners(l) \ P)
    <3> DEFINE R == (Owners(l) \ P) \ {f}
    <3>1. f \in Owners(l) \ P BY <2>3 DEF Owners
    <3>2. to[f] \notin R /\ to[f] \in Places /\ to[f] \notin P BY <2>3 DEF Owners
    <3>3. \A g \in from : l \in hold[g] <=> g = f BY <2>3
    <3>4. {p \in Places : l \in hold'[p]} = R \cup {to[f]}
      <4>1. ASSUME NEW p \in Places
            PROVE  l \in hold'[p] <=> p \in R \cup {to[f]}
        <5>1. (\E g \in from : to[g] = p /\ l \in hold[g]) <=> p = to[f] BY <2>3, <3>3
        <5>2. p \in R <=> p \notin P /\ p # f /\ l \in hold[p] BY DEF Owners
        <5>3. CASE p = to[f]
          <6>1. p \notin P /\ p \notin from BY <5>3
          <6> QED BY <1>6, <5>1, <5>3, <6>1
        <5>4. CASE p # to[f]
          <6>1. l \in hold'[p] <=> p \notin P /\ p \notin from /\ l \in hold[p]
            BY <1>6, <5>1, <5>4
          <6>2. l \in hold[p] => (p \in from <=> p = f) BY <2>3, <3>3
          <6> QED BY <5>2, <5>4, <6>1, <6>2
        <5> QED BY <5>3, <5>4
      <4>2. R \cup {to[f]} \subseteq Places BY <3>2 DEF Owners
      <4> QED BY <4>1, <4>2
    <3>5. IsFiniteSet(R) /\ Cardinality(R) = Cardinality(Owners(l) \ P) - 1
      BY <2>1, <3>1, FS_RemoveElement
    <3>6. Cardinality(R) \in Nat BY <3>5, FS_CardinalityType
    <3>7. Cardinality(R \cup {to[f]}) = Cardinality(R) + 1 BY <3>2, <3>5, FS_AddElement
    <3>8. Cardinality(Owners(l) \ P) \in Nat BY <2>1, FS_CardinalityType
    <3>9. Cardinality({p \in Places : l \in hold'[p]}) = Cardinality(R \cup {to[f]}) BY <3>4
    <3> HIDE DEF R
    <3>10. Cardinality(Owners(l) \ P) = Cardinality(R) + 1 BY <2>1, <3>5, <3>6, <3>8
    <3> QED BY <3>7, <3>9, <3>10
  <2> QED BY <2>2, <2>3
<1>8. ReleaseAll(P) BY DEF HandOver
<1> QED BY <1>2, <1>3, <1>7, <1>8, ReleaseAllKeepsBook

\* The common case: releases only.
LEMMA ReleaseKeepsBook ==
  ASSUME Book, NEW P \in SUBSET Places, HandOver(P, {}, <<>>)
  PROVE  /\ Book'
         /\ \A p \in Places : hold'[p] = IF p \in P THEN {} ELSE hold[p]
<1>1. LeaseTypes BY DEF Book
<1>2. hold' = [p \in Places |-> IF p \in P THEN {} ELSE hold[p]] BY DEF HandOver
<1>3. hold' \in [Places -> SUBSET Leases] BY <1>1, <1>2 DEF LeaseTypes
<1>4. ASSUME NEW l \in Leases
      PROVE  {p \in Places : l \in hold'[p]} = Owners(l) \ P
  BY <1>2 DEF Owners
<1>5. ReleaseAll(P) BY DEF HandOver
<1> QED BY <1>2, <1>3, <1>4, <1>5, ReleaseAllKeepsBook

\* One more owner, who did not hold the lease.
LEMMA AddedKeepsBook ==
  ASSUME Book, NEW l \in Leases, refs[l] # 0, l \notin hold["history"], Added(l)
  PROVE  Book'
<1> "history" \in Places BY DEF Places
<1>1. LeaseTypes BY DEF Book
<1>2. /\ refs' = [refs EXCEPT ![l] = @ + 1]
      /\ hold' = [hold EXCEPT !["history"] = @ \cup {l}]
  BY DEF Added
<1>3. hold' \in [Places -> SUBSET Leases] BY <1>1, <1>2 DEF LeaseTypes
<1>4. refs' \in [Leases -> Nat] BY <1>1, <1>2 DEF LeaseTypes
<1>5. RefsAreOwners'
  <2> SUFFICES ASSUME NEW k \in Leases
               PROVE  refs'[k] = Cardinality({p \in Places : k \in hold'[p]})
    BY DEF RefsAreOwners
  <2>1. refs[k] = Cardinality(Owners(k)) /\ IsFiniteSet(Owners(k))
    BY OwnersFinite DEF Book, RefsAreOwners, Owners
  <2>2. CASE k = l
    <3>1. {p \in Places : k \in hold'[p]} = Owners(k) \cup {"history"}
      BY <1>1, <1>2, <2>2 DEF LeaseTypes, Owners
    <3>2. "history" \notin Owners(k) BY <2>2 DEF Owners
    <3>3. refs'[k] = refs[k] + 1 BY <1>1, <1>2, <2>2 DEF LeaseTypes
    <3> QED BY <2>1, <3>1, <3>2, <3>3, FS_AddElement
  <2>3. CASE k # l
    <3>1. {p \in Places : k \in hold'[p]} = Owners(k)
      BY <1>1, <1>2, <2>3 DEF LeaseTypes, Owners
    <3>2. refs'[k] = refs[k] BY <1>1, <1>2, <2>3 DEF LeaseTypes
    <3> QED BY <2>1, <3>1, <3>2
  <2> QED BY <2>2, <2>3
<1>6. \A k \in Leases : refs[k] = 0 <=> refs'[k] = 0
  BY <1>1, <1>2 DEF LeaseTypes
<1> QED BY <1>3, <1>4, <1>5, <1>6, ShareKeepsBook DEF Added

LEMMA MovedOwner ==
  ASSUME NEW S, IsFiniteSet(S), NEW a \in S, NEW b, b \notin S
  PROVE  Cardinality((S \ {a}) \cup {b}) = Cardinality(S)
<1>1. IsFiniteSet(S \ {a}) /\ Cardinality(S \ {a}) = Cardinality(S) - 1 BY FS_RemoveElement
<1>2. Cardinality(S) \in Nat BY FS_CardinalityType
<1>3. b \notin S \ {a} OBVIOUS
<1>4. Cardinality((S \ {a}) \cup {b}) = Cardinality(S \ {a}) + 1 BY <1>1, <1>3, FS_AddElement
<1> QED BY <1>1, <1>2, <1>4

\* Leases L go from the place a to b, which holds none of them.
LEMMA MoveKeepsBook ==
  ASSUME Book, NEW a \in Places, NEW b \in Places, a # b,
         hold' \in [Places -> SUBSET Leases], UNCHANGED <<refs, cost, used>>,
         \A p \in Places \ {a, b} : hold'[p] = hold[p],
         \A l \in Leases :
           \/ (l \in hold'[a] <=> l \in hold[a]) /\ (l \in hold'[b] <=> l \in hold[b])
           \/ l \in hold[a] /\ l \notin hold'[a] /\ l \notin hold[b] /\ l \in hold'[b]
  PROVE  Book'
<1>1. LeaseTypes BY DEF Book
<1>2. RefsAreOwners'
  <2> SUFFICES ASSUME NEW l \in Leases
               PROVE  Cardinality({p \in Places : l \in hold'[p]}) = Cardinality(Owners(l))
    BY DEF RefsAreOwners, Book, Owners
  <2>1. CASE (l \in hold'[a] <=> l \in hold[a]) /\ (l \in hold'[b] <=> l \in hold[b])
    <3>1. \A p \in Places : l \in hold'[p] <=> l \in hold[p] BY <2>1
    <3>2. {p \in Places : l \in hold'[p]} = Owners(l) BY <3>1 DEF Owners
    <3> QED BY <3>2
  <2>2. CASE l \in hold[a] /\ l \notin hold'[a] /\ l \notin hold[b] /\ l \in hold'[b]
    <3>1. \A p \in Places : l \in hold'[p] <=> (l \in hold[p] /\ p # a) \/ p = b BY <2>2
    <3>2. {p \in Places : l \in hold'[p]} = (Owners(l) \ {a}) \cup {b} BY <3>1 DEF Owners
    <3>3. a \in Owners(l) /\ b \notin Owners(l) BY <2>2 DEF Owners
    <3> QED BY <3>2, <3>3, OwnersFinite, MovedOwner
  <2> QED BY <2>1, <2>2
<1> QED BY <1>1, <1>2, ShareKeepsBook DEF LeaseTypes

\* resolveEvidence, for a place of failAll that drops the lease afterwards.
LEMMA ResolveKeepsBook ==
  ASSUME Book, NEW p \in Places \ {"history"}, NEW l \in hold[p], NEW t,
         l \notin resolved => l \notin hold["history"], ResolvedAndDropped(l, p, t)
  PROVE  /\ Book'
         /\ \A q \in Places \ {p, "history"} : hold'[q] = hold[q]
         /\ hold'[p] = hold[p] \ {l}
         /\ \/ hold'["history"] = hold["history"]
            \/ l \notin resolved /\ hold'["history"] = hold["history"] \cup {l}
<1> "history" \in Places BY DEF Places
<1>1. LeaseTypes /\ l \in Leases BY DEF Book, LeaseTypes
<1> DEFINE adds == l \notin resolved /\ ~over /\ ~frozen
           left == IF adds THEN refs[l] ELSE refs[l] - 1
<1>2. /\ refs' = [refs EXCEPT ![l] = left]
      /\ used' = IF left = 0 THEN used - cost[l] ELSE used
      /\ cost' = [cost EXCEPT ![l] = IF left = 0 THEN 0 ELSE cost[l]]
      /\ hold' = [hold EXCEPT ![p] = hold[p] \ {l},
                              !["history"] = IF adds THEN hold["history"] \cup {l}
                                             ELSE hold["history"]]
  BY <1>1 DEF ResolvedAndDropped, LeaseTypes
<1>3. adds => l \notin hold["history"] OBVIOUS
<1>4. adds => l \notin resolved OBVIOUS
<1>5. /\ \A q \in Places \ {p, "history"} : hold'[q] = hold[q]
      /\ hold'[p] = hold[p] \ {l}
      /\ hold'["history"] = IF adds THEN hold["history"] \cup {l} ELSE hold["history"]
      /\ hold' \in [Places -> SUBSET Leases]
  BY <1>1, <1>2 DEF LeaseTypes
<1>6. IsFiniteSet(Owners(l)) /\ Cardinality(Owners(l)) \in Nat /\ p \in Owners(l)
      /\ refs[l] = Cardinality(Owners(l))
  BY <1>1, OwnersFinite DEF Owners, Book, RefsAreOwners
<1>7. Cardinality(Owners(l)) # 0 BY <1>6, FS_EmptySet
<1>8. left \in Nat BY <1>6, <1>7
<1>9. refs' \in [Leases -> Nat] /\ refs'[l] = left /\ \A k \in Leases \ {l} : refs'[k] = refs[k]
  BY <1>1, <1>2, <1>8 DEF LeaseTypes
<1> HIDE DEF adds
<1>10. RefsAreOwners'
  <2> SUFFICES ASSUME NEW k \in Leases
               PROVE  refs'[k] = Cardinality({q \in Places : k \in hold'[q]})
    BY DEF RefsAreOwners
  <2>1. CASE k # l
    <3>1. \A q \in Places : k \in hold'[q] <=> k \in hold[q] BY <1>5, <2>1
    <3>2. {q \in Places : k \in hold'[q]} = {q \in Places : k \in hold[q]} BY <3>1
    <3> QED BY <1>9, <2>1, <3>2 DEF Book, RefsAreOwners
  <2>2. CASE k = l /\ adds
    <3>1. \A q \in Places : k \in hold'[q] <=> (k \in hold[q] /\ q # p) \/ q = "history"
      BY <1>5, <2>2
    <3>2. {q \in Places : k \in hold'[q]} = (Owners(l) \ {p}) \cup {"history"}
      BY <2>2, <3>1 DEF Owners
    <3>3. "history" \notin Owners(l) BY <1>3, <2>2 DEF Owners
    <3>4. Cardinality((Owners(l) \ {p}) \cup {"history"}) = Cardinality(Owners(l))
      BY <1>6, <3>3, MovedOwner
    <3>5. refs'[k] = refs[l] BY <1>9, <2>2
    <3>6. Cardinality({q \in Places : k \in hold'[q]})
          = Cardinality((Owners(l) \ {p}) \cup {"history"})
      BY <3>2
    <3> QED BY <1>6, <3>4, <3>5, <3>6
  <2>3. CASE k = l /\ ~adds
    <3>1. \A q \in Places : k \in hold'[q] <=> (k \in hold[q] /\ q # p)
      BY <1>5, <2>3
    <3>2. {q \in Places : k \in hold'[q]} = Owners(l) \ {p} BY <2>3, <3>1 DEF Owners
    <3>3. p \in Owners(l) /\ IsFiniteSet(Owners(l)) BY <1>6
    <3>4. Cardinality(Owners(l) \ {p}) = Cardinality(Owners(l)) - 1
      BY <3>3, FS_RemoveElement
    <3>5. refs'[k] = refs[l] - 1 BY <1>9, <2>3
    <3>6. Cardinality({q \in Places : k \in hold'[q]}) = Cardinality(Owners(l) \ {p})
      BY <3>2
    <3> QED BY <1>6, <3>4, <3>5, <3>6
  <2> QED BY <2>1, <2>2, <2>3
<1>11. \A k \in Leases : refs[k] = 0 => refs'[k] = 0 BY <1>6, <1>7, <1>9
<1>12. cost' = [k \in Leases |-> IF refs'[k] = 0 THEN 0 ELSE cost[k]]
  <2>1. \A k \in Leases : cost'[k] = IF refs'[k] = 0 THEN 0 ELSE cost[k]
    <3> TAKE k \in Leases
    <3>1. CASE k = l BY <1>1, <1>2, <1>9, <3>1 DEF LeaseTypes
    <3>2. CASE k # l
      <4>1. cost'[k] = cost[k] /\ refs'[k] = refs[k] BY <1>1, <1>2, <1>9, <3>2 DEF LeaseTypes
      <4> QED BY <4>1 DEF Book
    <3> QED BY <3>1, <3>2
  <2>2. cost' = [k \in Leases |-> cost'[k]] BY <1>1, <1>2 DEF LeaseTypes
  <2> QED BY <2>1, <2>2
<1>13. used' = used - Charge({k \in Alive : refs'[k] = 0})
  <2>1. CASE left = 0
    <3>1. {k \in Alive : refs'[k] = 0} = {l}
      <4>1. l \in Alive BY <1>1, <1>6, <1>7 DEF Alive
      <4>2. \A k \in Alive : k # l => refs'[k] # 0 BY <1>1, <1>9 DEF Alive, LeaseTypes
      <4> QED BY <1>9, <2>1, <4>1, <4>2
    <3> QED BY <1>1, <1>2, <2>1, <3>1, ChargeOfOne
  <2>2. CASE left # 0
    <3>1. \A k \in Alive : refs'[k] # 0 BY <1>1, <1>9, <2>2 DEF Alive, LeaseTypes
    <3>2. {k \in Alive : refs'[k] = 0} = {} BY <3>1
    <3>3. Units({}) = {} BY DEF Units
    <3>4. Charge({}) = 0 BY <3>3, FS_EmptySet DEF Charge
    <3>5. Charge({k \in Alive : refs'[k] = 0}) = 0 BY <3>2, <3>4
    <3>6. used' = used /\ used \in Nat BY <1>1, <1>2, <2>2 DEF LeaseTypes
    <3> QED BY <3>5, <3>6
  <2> QED BY <2>1, <2>2
<1>14. Book' BY <1>5, <1>9, <1>10, <1>11, <1>12, <1>13, SettleKeepsBook
<1> QED BY <1>4, <1>5, <1>14

\* failAll empties the tables: keys and what was saved for a thread are released,
\* pended events and diagnostics change hands, and a replay's events are shared.
LEMMA FailTakesKeepsBook ==
  ASSUME Book, Alone, FailTakes,
         hold["failPending"] = {}, hold["failReplay"] = {}, hold["failDiag"] = {}
  PROVE  /\ Book'
         /\ \A p \in Places :
              hold'[p] =
                CASE p \in {"threadKey", "turnKey", "threadPending", "turnPending", "diagnostic"}
                       -> {}
                  [] p = "failPending" -> hold["turnPending"]
                  [] p = "failDiag" -> hold["diagnostic"]
                  [] p = "failReplay" -> hold["replaying"]
                  [] OTHER -> hold[p]
<1> DEFINE keys == {"threadKey", "turnKey", "threadPending"}
           after(p) == CASE p \in keys \cup {"turnPending", "diagnostic"} -> {}
                         [] p = "failPending" -> hold["turnPending"]
                         [] p = "failDiag" -> hold["diagnostic"]
                         [] p = "failReplay" -> hold["replaying"]
                         [] OTHER -> hold[p]
<1>1. LeaseTypes BY DEF Book
<1>2. /\ refs' = [l \in Leases |-> IF l \in hold["replaying"] THEN refs[l] + 1 ELSE Left(keys, l)]
      /\ used' = used - Charge({l \in Alive : Left(keys, l) = 0})
      /\ cost' = [l \in Leases |-> IF Left(keys, l) = 0 THEN 0 ELSE cost[l]]
      /\ hold' = [p \in Places |-> after(p)]
  BY DEF FailTakes, FailTakesOver
<1>3. keys \in SUBSET Places /\ "failPending" \in Places /\ "failReplay" \in Places
      /\ "failDiag" \in Places /\ "turnPending" \in Places /\ "diagnostic" \in Places
      /\ "replaying" \in Places
  BY DEF Places
<1>4. \A p \in Places : hold'[p] = after(p) BY <1>2
<1>5. hold' \in [Places -> SUBSET Leases]
  <2>1. \A p \in Places : hold[p] \subseteq Leases BY <1>1 DEF LeaseTypes
  <2>2. \A p \in Places : after(p) \subseteq Leases BY <1>3, <2>1
  <2> QED BY <1>2, <2>2
<1>6. \A l \in Leases : l \in hold["replaying"] => Left(keys, l) = refs[l] /\ refs[l] # 0
  <2> TAKE l \in Leases
  <2> HAVE l \in hold["replaying"]
  <2>1. Owners(l) \ keys = Owners(l)
    <3>1. \A p \in keys : l \notin hold[p] BY <1>3 DEF Alone, Together
    <3> QED BY <3>1 DEF Owners
  <2>2. refs[l] = Cardinality(Owners(l)) BY DEF Book, RefsAreOwners, Owners
  <2>3. "replaying" \in Owners(l) BY <1>3 DEF Owners
  <2>4. Cardinality(Owners(l)) # 0 BY <2>3, OwnersFinite, FS_EmptySet
  <2>5. Left(keys, l) = Cardinality(Owners(l) \ keys) BY <1>3, LeftIsOwners
  <2> QED BY <2>1, <2>2, <2>4, <2>5
<1>7. \A l \in Leases : Left(keys, l) \in Nat /\ Left(keys, l) <= refs[l] BY <1>3, LeftIsOwners
<1>8. \A l \in Leases : refs'[l] = IF l \in hold["replaying"] THEN refs[l] + 1 ELSE Left(keys, l)
  BY <1>2
<1>9. refs' \in [Leases -> Nat] BY <1>1, <1>2, <1>7 DEF LeaseTypes
<1>10. \A l \in Leases : refs'[l] = 0 <=> Left(keys, l) = 0
  BY <1>1, <1>6, <1>8 DEF LeaseTypes
<1>11. RefsAreOwners'
  <2> SUFFICES ASSUME NEW l \in Leases
               PROVE  refs'[l] = Cardinality({p \in Places : l \in hold'[p]})
    BY DEF RefsAreOwners
  <2> DEFINE O == {p \in Places : l \in hold'[p]}
  <2>1. IsFiniteSet(Owners(l)) /\ Cardinality(Owners(l)) \in Nat
        /\ refs[l] = Cardinality(Owners(l))
    BY OwnersFinite DEF Book, RefsAreOwners, Owners
  <2>2. IsFiniteSet(Owners(l) \ keys) /\ Left(keys, l) = Cardinality(Owners(l) \ keys)
    BY <1>3, LeftIsOwners
  <2>3. CASE l \in hold["replaying"]
    <3>1. \A p \in keys \cup {"turnPending", "diagnostic"} : l \notin hold[p]
      BY <1>3, <2>3 DEF Alone, Together
    <3>2. \A p \in Places : l \in hold'[p] <=> l \in hold[p] \/ p = "failReplay"
      BY <1>3, <1>4, <2>3, <3>1
    <3>3. O = Owners(l) \cup {"failReplay"} BY <1>3, <3>2 DEF Owners
    <3>4. "failReplay" \notin Owners(l) BY DEF Owners
    <3>5. Cardinality(Owners(l) \cup {"failReplay"}) = Cardinality(Owners(l)) + 1
      BY <2>1, <3>4, FS_AddElement
    <3>6. Cardinality(O) = Cardinality(Owners(l) \cup {"failReplay"}) BY <3>3
    <3> HIDE DEF O
    <3>7. refs'[l] = refs[l] + 1 BY <1>8, <2>3
    <3>8. refs'[l] = Cardinality(O) BY <2>1, <3>5, <3>6, <3>7
    <3> QED BY <3>8 DEF O
  <2>4. ASSUME NEW a \in {"turnPending", "diagnostic"}, l \in hold[a]
        PROVE  refs'[l] = Cardinality(O)
    <3> DEFINE b == IF a = "turnPending" THEN "failPending" ELSE "failDiag"
    <3>1. \A p \in Places : l \in hold[p] => p = a
      BY <1>3, <2>4 DEF Alone, Together
    <3>2. a \in Places /\ b \in Places /\ b # a BY <1>3
    <3>3. \A p \in Places : l \in hold'[p] <=> p = b
      BY <1>3, <1>4, <2>4, <3>1
    <3>4. O = {b} BY <3>2, <3>3
    <3>5. Owners(l) \ keys = {a} /\ l \notin hold["replaying"]
      <4>1. Owners(l) = {a} BY <2>4, <3>1, <3>2 DEF Owners
      <4>2. l \notin hold["replaying"] BY <1>3, <3>1
      <4> QED BY <4>1, <4>2
    <3>6. Cardinality({a}) = 1 /\ Cardinality({b}) = 1 BY FS_Singleton
    <3>7. Cardinality(O) = 1 BY <3>4, <3>6
    <3>8. Left(keys, l) = 1 BY <2>2, <3>5, <3>6
    <3>9. refs'[l] = 1 BY <1>8, <3>5, <3>8
    <3> HIDE DEF O
    <3> QED BY <3>7, <3>9
  <2>5. CASE l \notin hold["replaying"] /\ \A a \in {"turnPending", "diagnostic"} : l \notin hold[a]
    <3>1. \A p \in Places : l \in hold'[p] <=> l \in hold[p] /\ p \notin keys
      BY <1>3, <1>4, <2>5
    <3>2. O = Owners(l) \ keys BY <3>1 DEF Owners
    <3>3. refs'[l] = Left(keys, l) BY <1>8, <2>5
    <3> QED BY <2>2, <3>2, <3>3
  <2> QED BY <2>3, <2>4, <2>5
<1>12. \A l \in Leases : refs[l] = 0 => refs'[l] = 0 BY <1>1, <1>7, <1>10 DEF LeaseTypes
<1>13. cost' = [l \in Leases |-> IF refs'[l] = 0 THEN 0 ELSE cost[l]] BY <1>2, <1>10
<1>14. {l \in Alive : Left(keys, l) = 0} = {l \in Alive : refs'[l] = 0} BY <1>10 DEF Alive
<1>15. used' = used - Charge({l \in Alive : refs'[l] = 0}) BY <1>2, <1>14
<1>16. Book' BY <1>5, <1>9, <1>11, <1>12, <1>13, <1>15, SettleKeepsBook
<1> QED BY <1>4, <1>16

-----------------------------------------------------------------------------
(* The inductive invariant.                                                *)

LeaseInv == Book /\ Alone /\ Pended

\* Where leases can be, by what the goroutines are doing. After failAll emptied
\* the tables nothing is armed any more; before turn/start is answered there is
\* neither a key nor a pended event for the turn.
Phases ==
  /\ hold["reader"] # {} => rcv = "release"
  /\ hold["register"] # {} => att = "registering"
  /\ hold["replaying"] # {} => att = "replay"
  /\ hold["attachDiag"] # {} => att \in {"replay", "diags"}
  /\ \A p \in {"failPending", "failReplay", "failDiag"} : hold[p] # {} => fail = "resolve"
  /\ fail \in {"resolve", "diags", "done"} =>
       \A p \in {"threadKey", "turnKey", "threadPending", "turnPending", "diagnostic"} :
         hold[p] = {}
  /\ shutting <=> fail # "none"
  /\ att \in {"idle", "thread", "registering", "calling", "failing", "finishing"} =>
       hold["turnKey"] = {} /\ hold["turnPending"] = {}
  /\ arms = 0 <=> att = "idle"

ControlTypes ==
  /\ resolved \subseteq Leases
  /\ run \in {"none", "attaching", "live", "gone"}
  /\ turnKnown \in BOOLEAN /\ frozen \in BOOLEAN /\ over \in BOOLEAN
  /\ att \in {"idle", "thread", "registering", "calling", "answered", "attach",
              "replay", "diags", "failing", "finishing", "done"}
  /\ rcv \in {"read", "accept", "release", "enqueue", "fail"}
  /\ shutting \in BOOLEAN
  /\ fail \in {"none", "claimed", "resolve", "diags", "done"}
  /\ dropped \in BOOLEAN
  /\ frames \in 0..MaxFrames
  /\ arms \in 0..2

BudgetIInv == LeaseInv /\ Phases /\ ControlTypes

LEMMA Keeping ==
  ASSUME LeaseInv, UNCHANGED <<leaseVars, resolved>>
  PROVE  LeaseInv'
<1>1. UNCHANGED <<refs, cost, used, hold, resolved>> BY DEF leaseVars
<1>2. Book' BY <1>1 DEF LeaseInv, Book, LeaseTypes, RefsAreOwners, Charge, Units
<1> QED BY <1>1, <1>2 DEF LeaseInv, Alone, Pended

LEMMA SmallerAlone ==
  ASSUME Alone, \A p \in Places : hold'[p] \subseteq hold[p]
  PROVE  Alone'
BY DEF Alone

LEMMA Reserving ==
  ASSUME LeaseInv, NEW n \in 1..4, NEW p \in Places \ {"replaying", "failReplay"},
         NEW more \in SUBSET (Places \ {p}), more = {} \/ (p = "reader" /\ more = {"history"}),
         Reserve(n, p, more), \A l \in resolved : l \in resolved' \/ l = Fresh
  PROVE  /\ LeaseInv' /\ Fresh \in Leases
         /\ \A q \in Places :
              hold'[q] = IF q = p \/ q \in more THEN hold[q] \cup {Fresh} ELSE hold[q]
<1> "history" \in Places /\ "replaying" \in Places /\ "failReplay" \in Places BY DEF Places
<1>1. /\ Book'
      /\ Fresh \in Leases /\ \A q \in Places : Fresh \notin hold[q]
      /\ \A q \in Places :
           hold'[q] = IF q = p \/ q \in more THEN hold[q] \cup {Fresh} ELSE hold[q]
  BY ReserveKeepsBook DEF LeaseInv
<1>2. PICK f \in Leases : f = Fresh BY <1>1
<1>3. /\ \A q \in Places : f \notin hold[q]
      /\ \A q \in Places :
           hold'[q] = IF q = p \/ q \in more THEN hold[q] \cup {f} ELSE hold[q]
      /\ \A l \in resolved : l \in resolved' \/ l = f
  BY <1>1, <1>2
<1>4. Alone'
  <2> SUFFICES ASSUME NEW a \in Places, NEW b \in Places, NEW l \in Leases,
                      l \in hold'[a], l \in hold'[b]
               PROVE  Together(a, b)
    BY DEF Alone
  <2>1. CASE l # f
    <3>1. l \in hold[a] /\ l \in hold[b] BY <1>3, <2>1
    <3> QED BY <3>1 DEF LeaseInv, Alone
  <2>2. CASE l = f
    <3>1. (a = p \/ a \in more) /\ (b = p \/ b \in more) BY <1>3, <2>2
    <3> QED BY <3>1 DEF Together
  <2> QED BY <2>1, <2>2
<1>5. Pended'
  <2> SUFFICES ASSUME NEW l \in hold'["replaying"] \cup hold'["failReplay"], l \notin resolved'
               PROVE  l \notin hold'["history"]
    BY DEF Pended
  <2>1. l \in hold["replaying"] \cup hold["failReplay"] /\ l # f BY <1>3
  <2>2. l \notin resolved BY <1>3, <2>1
  <2>3. l \notin hold["history"] BY <2>1, <2>2 DEF LeaseInv, Pended
  <2> QED BY <1>3, <2>1, <2>3
<1> QED BY <1>1, <1>4, <1>5 DEF LeaseInv

LEMMA Releasing ==
  ASSUME LeaseInv, NEW P \in SUBSET Places, HandOver(P, {}, <<>>), UNCHANGED resolved
  PROVE  /\ LeaseInv'
         /\ \A p \in Places : hold'[p] = IF p \in P THEN {} ELSE hold[p]
<1> "history" \in Places /\ "replaying" \in Places /\ "failReplay" \in Places BY DEF Places
<1>1. Book' /\ \A p \in Places : hold'[p] = IF p \in P THEN {} ELSE hold[p]
  BY ReleaseKeepsBook DEF LeaseInv
<1>2. \A p \in Places : hold'[p] \subseteq hold[p] BY <1>1
<1>3. Alone' BY <1>2, SmallerAlone DEF LeaseInv
<1>4. Pended' BY <1>2 DEF LeaseInv, Pended
<1> QED BY <1>1, <1>3, <1>4 DEF LeaseInv

-----------------------------------------------------------------------------
(* Steps that leave the leases alone, and steps that only release.         *)

LEMMA ControlSteps ==
  ASSUME BudgetIInv,
         \/ ReaderFails \/ CloseClient \/ EndRun \/ TurnFails \/ FinishTakes \/ FinishDone
         \/ SetTurn \/ FailFinishes
  PROVE  BudgetIInv'
<1> USE DEF BudgetIInv, leaseVars, entryVars
<1>1. CASE ReaderFails
  <2>1. LeaseInv' BY <1>1, Keeping DEF ReaderFails
  <2>2. Phases' BY <1>1 DEF ReaderFails, Phases, ControlTypes
  <2>3. ControlTypes' BY <1>1 DEF ReaderFails, ControlTypes
  <2> QED BY <2>1, <2>2, <2>3
<1>2. CASE CloseClient
  <2>1. LeaseInv' BY <1>2, Keeping DEF CloseClient
  <2>2. Phases' BY <1>2 DEF CloseClient, Phases, ControlTypes
  <2>3. ControlTypes' BY <1>2 DEF CloseClient, ControlTypes
  <2> QED BY <2>1, <2>2, <2>3
<1>3. CASE EndRun
  <2>1. LeaseInv' BY <1>3, Keeping DEF EndRun
  <2>2. Phases' BY <1>3 DEF EndRun, Phases, ControlTypes
  <2>3. ControlTypes' BY <1>3 DEF EndRun, ControlTypes, Finished
  <2> QED BY <2>1, <2>2, <2>3
<1>4. CASE TurnFails
  <2>1. LeaseInv' BY <1>4, Keeping DEF TurnFails
  <2>2. Phases' BY <1>4 DEF TurnFails, Phases, ControlTypes
  <2>3. ControlTypes' BY <1>4 DEF TurnFails, ControlTypes
  <2> QED BY <2>1, <2>2, <2>3
<1>5. CASE FinishTakes
  <2>1. LeaseInv' BY <1>5, Keeping DEF FinishTakes
  <2>2. Phases' BY <1>5 DEF FinishTakes, Phases, ControlTypes
  <2>3. ControlTypes' BY <1>5 DEF FinishTakes, ControlTypes
  <2> QED BY <2>1, <2>2, <2>3
<1>6. CASE FinishDone
  <2>1. LeaseInv' BY <1>6, Keeping DEF FinishDone
  <2>2. Phases' BY <1>6 DEF FinishDone, Phases, ControlTypes
  <2>3. ControlTypes' BY <1>6 DEF FinishDone, ControlTypes, Finished
  <2> QED BY <2>1, <2>2, <2>3
<1>7. CASE SetTurn
  <2>1. LeaseInv' BY <1>7, Keeping DEF SetTurn
  <2>2. Phases' BY <1>7 DEF SetTurn, Phases, ControlTypes
  <2>3. ControlTypes' BY <1>7 DEF SetTurn, ControlTypes
  <2> QED BY <2>1, <2>2, <2>3
<1>8. CASE FailFinishes
  <2>1. LeaseInv' BY <1>8, Keeping DEF FailFinishes
  <2>2. Phases'
    <3>1. /\ hold' = hold /\ rcv' = rcv /\ att' = att /\ arms' = arms /\ shutting' = shutting
          /\ fail = "diags" /\ fail' = "done"
      BY <1>8 DEF FailFinishes, leaseVars
    <3>2. Phases BY DEF BudgetIInv
    <3> HIDE DEF BudgetIInv
    <3> QED BY <3>1, <3>2 DEF Phases
  <2>3. ControlTypes'
    <3>1. run' \in {"none", "attaching", "live", "gone"} /\ over' \in BOOLEAN
      BY <1>8 DEF FailFinishes, ControlTypes, Finished
    <3>2. /\ UNCHANGED <<resolved, turnKnown, frozen, att, rcv, shutting, dropped, frames, arms>>
          /\ fail' = "done"
      BY <1>8 DEF FailFinishes
    <3> QED BY <3>1, <3>2 DEF ControlTypes
  <2> QED BY <2>1, <2>2, <2>3
<1> QED BY <1>1, <1>2, <1>3, <1>4, <1>5, <1>6, <1>7, <1>8

LEMMA ReleaseSteps ==
  ASSUME BudgetIInv,
         \/ ReaderReleases \/ DispatchDone \/ Discard \/ CollectRun \/ Registered \/ Replayed
  PROVE  BudgetIInv'
<1> USE DEF BudgetIInv, leaseVars, entryVars
<1>1. CASE ReaderReleases
  <2>0. {"reader"} \in SUBSET Places BY DEF Places
  <2>1. LeaseInv' /\ \A p \in Places : hold'[p] = IF p \in {"reader"} THEN {} ELSE hold[p]
    BY <1>1, <2>0, Releasing DEF ReaderReleases
  <2>2. Phases' BY <1>1, <2>1 DEF ReaderReleases, Phases, ControlTypes, Places
  <2>3. ControlTypes' BY <1>1 DEF ReaderReleases, ControlTypes
  <2> QED BY <2>1, <2>2, <2>3
<1>2. CASE DispatchDone
  <2>0. {"dispatch"} \in SUBSET Places BY DEF Places
  <2>1. LeaseInv' /\ \A p \in Places : hold'[p] = IF p \in {"dispatch"} THEN {} ELSE hold[p]
    BY <1>2, <2>0, Releasing DEF DispatchDone
  <2>2. Phases' BY <1>2, <2>1 DEF DispatchDone, Phases, ControlTypes, Places
  <2>3. ControlTypes' BY <1>2 DEF DispatchDone, ControlTypes
  <2> QED BY <2>1, <2>2, <2>3
<1>3. CASE Discard
  <2>0. {"queue"} \in SUBSET Places BY DEF Places
  <2>1. LeaseInv' /\ \A p \in Places : hold'[p] = IF p \in {"queue"} THEN {} ELSE hold[p]
    BY <1>3, <2>0, Releasing DEF Discard
  <2>2. Phases' BY <1>3, <2>1 DEF Discard, Phases, ControlTypes, Places
  <2>3. ControlTypes' BY <1>3 DEF Discard, ControlTypes
  <2> QED BY <2>1, <2>2, <2>3
<1>4. CASE CollectRun
  <2>0. {"history"} \in SUBSET Places BY DEF Places
  <2>1. LeaseInv' /\ \A p \in Places : hold'[p] = IF p \in {"history"} THEN {} ELSE hold[p]
    BY <1>4, <2>0, Releasing DEF CollectRun
  <2>2. Phases' BY <1>4, <2>1 DEF CollectRun, Phases, ControlTypes, Places
  <2>3. ControlTypes' BY <1>4 DEF CollectRun, ControlTypes
  <2> QED BY <2>1, <2>2, <2>3
<1>5. CASE Registered
  <2>0. {"register"} \in SUBSET Places BY DEF Places
  <2>1. LeaseInv' /\ \A p \in Places : hold'[p] = IF p \in {"register"} THEN {} ELSE hold[p]
    BY <1>5, <2>0, Releasing DEF Registered
  <2>2. Phases' BY <1>5, <2>1 DEF Registered, Phases, ControlTypes, Places
  <2>3. ControlTypes' BY <1>5 DEF Registered, ControlTypes
  <2> QED BY <2>1, <2>2, <2>3
<1>6. CASE Replayed
  <2>0. {"replaying"} \in SUBSET Places BY DEF Places
  <2>1. LeaseInv' /\ \A p \in Places : hold'[p] = IF p \in {"replaying"} THEN {} ELSE hold[p]
    BY <1>6, <2>0, Releasing DEF Replayed
  <2>2. Phases' BY <1>6, <2>1 DEF Replayed, Phases, ControlTypes, Places
  <2>3. ControlTypes' BY <1>6 DEF Replayed, ControlTypes
  <2> QED BY <2>1, <2>2, <2>3
<1> QED BY <1>1, <1>2, <1>3, <1>4, <1>5, <1>6

-----------------------------------------------------------------------------
(* Steps of the reader, which reserve or are refused.                      *)

\* A refused or needless reservation leaves the leases as they are; a granted one
\* adds the fresh lease in one place.
LEMMA ReserveOne ==
  ASSUME LeaseInv, NEW n \in 1..4, NEW p \in Places \ {"replaying", "failReplay"},
         Reserve(n, p, {}), \A l \in resolved : l \in resolved' \/ l = Fresh
  PROVE  /\ LeaseInv' /\ Fresh \in Leases
         /\ \A q \in Places : hold'[q] = IF q = p THEN hold[q] \cup {Fresh} ELSE hold[q]
<1> DEFINE none == {}
<1>0. none \in SUBSET (Places \ {p}) /\ none = {} /\ Reserve(n, p, none) OBVIOUS
<1> HIDE DEF none
<1>1. /\ LeaseInv' /\ Fresh \in Leases
      /\ \A q \in Places : hold'[q] = IF q = p \/ q \in none THEN hold[q] \cup {Fresh} ELSE hold[q]
  BY <1>0, Reserving
<1>2. \A q \in Places : hold'[q] = IF q = p THEN hold[q] \cup {Fresh} ELSE hold[q]
  BY <1>0, <1>1
<1> QED BY <1>1, <1>2

LEMMA ArmThreadKeeps ==
  ASSUME BudgetIInv, ArmThread
  PROVE  BudgetIInv'
<1> USE DEF BudgetIInv, leaseVars, entryVars
<1>1. UNCHANGED resolved BY DEF ArmThread
<1>2. ControlTypes' BY DEF ArmThread, ControlTypes
<1>3. CASE UNCHANGED leaseVars
  <2>1. LeaseInv' BY <1>1, <1>3, Keeping
  <2>2. Phases' BY <1>3 DEF ArmThread, Phases, ControlTypes
  <2> QED BY <1>2, <2>1, <2>2
<1>4. CASE Reserve(1, "threadKey", {})
  <2>0. "threadKey" \in Places \ {"replaying", "failReplay"} /\ 1 \in 1..4 BY DEF Places
  <2>1. /\ LeaseInv'
        /\ \A q \in Places : hold'[q] = IF q = "threadKey" THEN hold[q] \cup {Fresh} ELSE hold[q]
    BY <1>1, <1>4, <2>0, ReserveOne
  <2>2. Phases' BY <2>1 DEF ArmThread, Phases, ControlTypes, Places
  <2> QED BY <1>2, <2>1, <2>2
<1> QED BY <1>3, <1>4 DEF ArmThread

LEMMA ArmTurnKeeps ==
  ASSUME BudgetIInv, ArmTurn
  PROVE  BudgetIInv'
<1> USE DEF BudgetIInv, leaseVars, entryVars
<1>1. UNCHANGED resolved BY DEF ArmTurn
<1>2. ControlTypes' BY DEF ArmTurn, ControlTypes
<1>3. CASE UNCHANGED leaseVars
  <2>1. LeaseInv' BY <1>1, <1>3, Keeping
  <2>2. Phases' BY <1>3 DEF ArmTurn, Phases, ControlTypes
  <2> QED BY <1>2, <2>1, <2>2
<1>4. CASE Reserve(1, "turnKey", {})
  <2>0. "turnKey" \in Places \ {"replaying", "failReplay"} /\ 1 \in 1..4 BY DEF Places
  <2>1. /\ LeaseInv'
        /\ \A q \in Places : hold'[q] = IF q = "turnKey" THEN hold[q] \cup {Fresh} ELSE hold[q]
    BY <1>1, <1>4, <2>0, ReserveOne
  <2>2. Phases' BY <2>1 DEF ArmTurn, Phases, ControlTypes, Places
  <2> QED BY <1>2, <2>1, <2>2
<1> QED BY <1>3, <1>4 DEF ArmTurn

LEMMA ReadThreadKeeps ==
  ASSUME BudgetIInv, ReadThread
  PROVE  BudgetIInv'
<1> USE DEF BudgetIInv, leaseVars, entryVars
<1>1. UNCHANGED resolved BY DEF ReadThread
<1>2. ControlTypes' BY FrameAssumption DEF ReadThread, ControlTypes
<1>3. CASE UNCHANGED leaseVars
  <2>1. LeaseInv' BY <1>1, <1>3, Keeping
  <2>2. Phases' BY <1>3 DEF ReadThread, Phases, ControlTypes
  <2> QED BY <1>2, <2>1, <2>2
<1>4. CASE Reserve(3, "threadPending", {})
  <2>0. "threadPending" \in Places \ {"replaying", "failReplay"} /\ 3 \in 1..4 BY DEF Places
  <2>1. /\ LeaseInv'
        /\ \A q \in Places : hold'[q] = IF q = "threadPending" THEN hold[q] \cup {Fresh} ELSE hold[q]
    BY <1>1, <1>4, <2>0, ReserveOne
  <2>2. Phases' BY <2>1 DEF ReadThread, Phases, ControlTypes, Places
  <2> QED BY <1>2, <2>1, <2>2
<1> QED BY <1>3, <1>4 DEF ReadThread

LEMMA EnqueueKeeps ==
  ASSUME BudgetIInv, Enqueue
  PROVE  BudgetIInv'
<1> USE DEF BudgetIInv, leaseVars, entryVars
<1>1. UNCHANGED resolved BY DEF Enqueue
<1>2. ControlTypes' BY DEF Enqueue, ControlTypes
<1>3. CASE UNCHANGED leaseVars
  <2>1. LeaseInv' BY <1>1, <1>3, Keeping
  <2>2. Phases' BY <1>3 DEF Enqueue, Phases, ControlTypes
  <2> QED BY <1>2, <2>1, <2>2
<1>4. CASE Reserve(1, "queue", {})
  <2>0. "queue" \in Places \ {"replaying", "failReplay"} /\ 1 \in 1..4 BY DEF Places
  <2>1. /\ LeaseInv'
        /\ \A q \in Places : hold'[q] = IF q = "queue" THEN hold[q] \cup {Fresh} ELSE hold[q]
    BY <1>1, <1>4, <2>0, ReserveOne
  <2>2. Phases' BY <2>1 DEF Enqueue, Phases, ControlTypes, Places
  <2> QED BY <1>2, <2>1, <2>2
<1> QED BY <1>3, <1>4 DEF Enqueue

LEMMA ReadTurnKeeps ==
  ASSUME BudgetIInv, ReadTurn
  PROVE  BudgetIInv'
<1> USE DEF BudgetIInv, leaseVars, entryVars
<1>1. CASE UNCHANGED <<leaseVars, resolved>>
  <2>1. LeaseInv' BY <1>1, Keeping
  <2>2. Phases' BY <1>1 DEF ReadTurn, Phases, ControlTypes
  <2>3. ControlTypes' BY <1>1, FrameAssumption DEF ReadTurn, ControlTypes
  <2> QED BY <2>1, <2>2, <2>3
<1>2. CASE hold["turnKey"] # {} /\ Reserve(4, "turnPending", {}) /\ resolved' = resolved \ {Fresh}
  <2>0. "turnPending" \in Places \ {"replaying", "failReplay"} /\ 4 \in 1..4 BY DEF Places
  <2>1. /\ LeaseInv'
        /\ \A q \in Places : hold'[q] = IF q = "turnPending" THEN hold[q] \cup {Fresh} ELSE hold[q]
    BY <1>2, <2>0, ReserveOne
  <2>2. Phases' BY <1>2, <2>1 DEF ReadTurn, Phases, ControlTypes, Places
  <2>3. ControlTypes' BY <1>2, FrameAssumption DEF ReadTurn, ControlTypes
  <2> QED BY <2>1, <2>2, <2>3
<1> QED BY <1>1, <1>2 DEF ReadTurn

LEMMA ReadBadKeeps ==
  ASSUME BudgetIInv, ReadBad
  PROVE  BudgetIInv'
<1> USE DEF BudgetIInv, leaseVars, entryVars
<1>1. UNCHANGED resolved BY DEF ReadBad
<1>2. ControlTypes' BY FrameAssumption DEF ReadBad, ControlTypes
<1>3. CASE UNCHANGED leaseVars
  <2>1. LeaseInv' BY <1>1, <1>3, Keeping
  <2>2. Phases' BY <1>3 DEF ReadBad, Phases, ControlTypes
  <2> QED BY <1>2, <2>1, <2>2
<1>4. ASSUME NEW p \in {"history", "diagnostic"}, Reserve(1, p, {})
      PROVE  BudgetIInv'
  <2>0. p \in Places \ {"replaying", "failReplay"} /\ 1 \in 1..4 BY DEF Places
  <2>1. /\ LeaseInv'
        /\ \A q \in Places : hold'[q] = IF q = p THEN hold[q] \cup {Fresh} ELSE hold[q]
    BY <1>1, <1>4, <2>0, ReserveOne
  <2>2. Phases' BY <2>1 DEF ReadBad, Phases, ControlTypes, Places
  <2> QED BY <1>2, <2>1, <2>2
<1> QED BY <1>3, <1>4 DEF ReadBad

LEMMA AcceptLiveKeeps ==
  ASSUME BudgetIInv, NEW t \in BOOLEAN, AcceptLive(t)
  PROVE  BudgetIInv'
<1> USE DEF BudgetIInv, leaseVars, entryVars
<1>1. UNCHANGED resolved BY DEF AcceptLive
<1>2. ControlTypes' BY DEF AcceptLive, ControlTypes
<1>3. CASE UNCHANGED leaseVars /\ rcv' # "release"
  <2>1. LeaseInv' BY <1>1, <1>3, Keeping
  <2>2. Phases' BY <1>3 DEF AcceptLive, Phases, ControlTypes
  <2> QED BY <1>2, <2>1, <2>2
<1>4. CASE Reserve(3, "reader", {"history"}) /\ rcv' = "release"
  <2>0. /\ "reader" \in Places \ {"replaying", "failReplay"} /\ 3 \in 1..4
        /\ {"history"} \in SUBSET (Places \ {"reader"})
    BY DEF Places
  <2>1. /\ LeaseInv'
        /\ \A q \in Places : hold'[q] = IF q = "reader" \/ q \in {"history"}
                                       THEN hold[q] \cup {Fresh} ELSE hold[q]
    BY <1>1, <1>4, <2>0, Reserving
  <2>2. Phases' BY <1>4, <2>1 DEF AcceptLive, Phases, ControlTypes, Places
  <2> QED BY <1>2, <2>1, <2>2
<1> QED BY <1>3, <1>4 DEF AcceptLive

-----------------------------------------------------------------------------
(* Steps that share leases or hand them over.                              *)

LEMMA DispatchKeeps ==
  ASSUME BudgetIInv, NEW l \in Leases, Dispatch(l)
  PROVE  BudgetIInv'
<1> USE DEF BudgetIInv
<1>1. LeaseTypes /\ "queue" \in Places /\ "dispatch" \in Places
  BY DEF LeaseInv, Book, Places
<1>2. /\ hold["dispatch"] = {} /\ l \in hold["queue"]
      /\ hold' = [hold EXCEPT !["queue"] = @ \ {l}, !["dispatch"] = {l}]
      /\ UNCHANGED <<refs, cost, used, resolved>>
  BY DEF Dispatch
<1>3. /\ hold' \in [Places -> SUBSET Leases]
      /\ \A q \in Places : hold'[q] = IF q = "queue" THEN hold[q] \ {l}
                                     ELSE IF q = "dispatch" THEN {l} ELSE hold[q]
  BY <1>1, <1>2 DEF LeaseTypes
<1>4. Book' BY <1>1, <1>2, <1>3, MoveKeepsBook DEF LeaseInv
<1>5. Alone'
  <2> SUFFICES ASSUME NEW a \in Places, NEW b \in Places, NEW k \in Leases,
                      k \in hold'[a], k \in hold'[b]
               PROVE  Together(a, b)
    BY DEF Alone
  <2>1. CASE k # l
    <3>1. k \in hold[a] /\ k \in hold[b] BY <1>3, <2>1
    <3> QED BY <3>1 DEF LeaseInv, Alone
  <2>2. CASE k = l
    <3>1. \A q \in Places : l \in hold[q] => q = "queue"
      BY <1>1, <1>2 DEF LeaseInv, Alone, Together
    <3>2. a = "dispatch" /\ b = "dispatch" BY <1>3, <2>2, <3>1
    <3> QED BY <3>2 DEF Together
  <2> QED BY <2>1, <2>2
<1>6. Pended' BY <1>2, <1>3 DEF LeaseInv, Pended, Places
<1>7. Phases' BY <1>3 DEF Dispatch, Phases, ControlTypes, Places, entryVars
<1>8. ControlTypes' BY DEF Dispatch, ControlTypes, entryVars
<1> QED BY <1>4, <1>5, <1>6, <1>7, <1>8 DEF LeaseInv

\* A further owner for a lease that only p holds, beside the run's history.
LEMMA Adding ==
  ASSUME LeaseInv, NEW p \in {"register", "replaying"}, NEW l \in hold[p],
         l \notin hold["history"], Added(l),
         resolved \subseteq resolved', p = "replaying" => l \in resolved'
  PROVE  /\ LeaseInv'
         /\ \A q \in Places : hold'[q] = IF q = "history" THEN hold[q] \cup {l} ELSE hold[q]
<1> /\ p \in Places /\ "history" \in Places /\ "replaying" \in Places
    /\ "failReplay" \in Places /\ "register" \in Places
  BY DEF Places
<1>1. LeaseTypes /\ l \in Leases BY DEF LeaseInv, Book, LeaseTypes
<1>2. refs[l] # 0
  <2>1. refs[l] = Cardinality(Owners(l)) BY <1>1 DEF LeaseInv, Book, RefsAreOwners, Owners
  <2> QED BY <2>1, NoOwner
<1>3. Book' BY <1>1, <1>2, AddedKeepsBook DEF LeaseInv
<1>4. \A q \in Places : hold'[q] = IF q = "history" THEN hold[q] \cup {l} ELSE hold[q]
  BY <1>1 DEF Added, LeaseTypes
<1>5. \A q \in Places : l \in hold[q] => Together(p, q) BY <1>1 DEF LeaseInv, Alone
<1>6. Alone'
  <2> SUFFICES ASSUME NEW a \in Places, NEW b \in Places, NEW k \in Leases,
                      k \in hold'[a], k \in hold'[b]
               PROVE  Together(a, b)
    BY DEF Alone
  <2>1. CASE k \in hold[a] /\ k \in hold[b] BY <2>1 DEF LeaseInv, Alone
  <2>2. CASE k = l /\ (a = "history" \/ b = "history")
    <3>1. \A q \in Places \ {"history"} : l \in hold'[q] => Together(q, "history")
      BY <1>4, <1>5 DEF Together
    <3> QED BY <2>2, <3>1 DEF Together
  <2> QED BY <1>4, <2>1, <2>2
<1>7. Pended'
  <2>1. p # "replaying" => l \notin hold["replaying"] /\ l \notin hold["failReplay"]
    BY <1>5 DEF Together
  <2> QED BY <1>4, <2>1 DEF LeaseInv, Pended
<1> QED BY <1>3, <1>4, <1>6, <1>7 DEF LeaseInv

LEMMA RegisterAcceptsKeeps ==
  ASSUME BudgetIInv, NEW l \in Leases, RegisterAccepts(l)
  PROVE  BudgetIInv'
<1> USE DEF BudgetIInv
<1>1. /\ LeaseInv'
      /\ \A q \in Places : hold'[q] = IF q = "history" THEN hold[q] \cup {l} ELSE hold[q]
  BY Adding DEF RegisterAccepts
<1>2. Phases' BY <1>1 DEF RegisterAccepts, Phases, ControlTypes, Places
<1>3. ControlTypes' BY DEF RegisterAccepts, ControlTypes
<1> QED BY <1>1, <1>2, <1>3

LEMMA ReplayKeeps ==
  ASSUME BudgetIInv, NEW l \in Leases, NEW t \in BOOLEAN, Replay(l, t)
  PROVE  BudgetIInv'
<1> USE DEF BudgetIInv
<1>1. l \in hold["replaying"] /\ l \notin resolved /\ resolved' = resolved \cup {l}
  BY DEF Replay
<1>2. ControlTypes' BY <1>1 DEF Replay, ControlTypes, Accepted
<1>3. CASE UNCHANGED leaseVars
  <2>1. UNCHANGED <<refs, cost, used, hold>> BY <1>3 DEF leaseVars
  <2>2. Book' BY <2>1 DEF LeaseInv, Book, LeaseTypes, RefsAreOwners, Charge, Units
  <2>3. Alone' /\ Pended' BY <1>1, <2>1 DEF LeaseInv, Alone, Pended
  <2>4. Phases' BY <2>1 DEF Replay, Phases, ControlTypes
  <2> QED BY <1>2, <2>2, <2>3, <2>4 DEF LeaseInv
<1>4. CASE Added(l)
  <2>1. l \notin hold["history"] BY <1>1 DEF LeaseInv, Pended
  <2>2. /\ LeaseInv'
        /\ \A q \in Places : hold'[q] = IF q = "history" THEN hold[q] \cup {l} ELSE hold[q]
    BY <1>1, <1>4, <2>1, Adding
  <2>3. Phases' BY <2>2 DEF Replay, Phases, ControlTypes, Places
  <2> QED BY <1>2, <2>2, <2>3
<1> QED BY <1>3, <1>4 DEF Replay, Accepted

\* Diagnostics join the history of a run that goes on, or are dropped.
LEMMA Diagnosing ==
  ASSUME LeaseInv, NEW p \in {"attachDiag", "failDiag"}, Diagnosed(p), UNCHANGED resolved
  PROVE  /\ LeaseInv' /\ hold'[p] = {}
         /\ \A q \in Places \ {p, "history"} : hold'[q] = hold[q]
<1> /\ p \in Places /\ "history" \in Places /\ "replaying" \in Places
    /\ "failReplay" \in Places
  BY DEF Places
<1>1. CASE over
  <2>1. {p} \in SUBSET Places OBVIOUS
  <2>2. LeaseInv' /\ \A q \in Places : hold'[q] = IF q \in {p} THEN {} ELSE hold[q]
    BY <1>1, <2>1, Releasing DEF Diagnosed
  <2> QED BY <2>2
<1>2. CASE ~over
  <2>1. LeaseTypes BY DEF LeaseInv, Book
  <2>2. /\ hold' = [hold EXCEPT ![p] = {}, !["history"] = @ \cup hold[p]]
        /\ UNCHANGED <<refs, cost, used>>
    BY <1>2 DEF Diagnosed
  <2>3. /\ hold' \in [Places -> SUBSET Leases]
        /\ \A q \in Places : hold'[q] = IF q = p THEN {}
                                       ELSE IF q = "history" THEN hold[q] \cup hold[p] ELSE hold[q]
    BY <2>1, <2>2 DEF LeaseTypes
  <2>4. \A l \in Leases, q \in Places : l \in hold[p] /\ l \in hold[q] => q = p
    BY DEF LeaseInv, Alone, Together
  <2>5. Book'
    <3>1. \A l \in Leases :
           \/ (l \in hold'[p] <=> l \in hold[p]) /\ (l \in hold'["history"] <=> l \in hold["history"])
           \/ l \in hold[p] /\ l \notin hold'[p] /\ l \notin hold["history"] /\ l \in hold'["history"]
      BY <2>3, <2>4
    <3>2. \A q \in Places \ {p, "history"} : hold'[q] = hold[q] BY <2>3
    <3> QED BY <2>2, <2>3, <3>1, <3>2, MoveKeepsBook DEF LeaseInv
  <2>6. Alone'
    <3> SUFFICES ASSUME NEW a \in Places, NEW b \in Places, NEW l \in Leases,
                        l \in hold'[a], l \in hold'[b]
                 PROVE  Together(a, b)
      BY DEF Alone
    <3>1. CASE l \in hold[p]
      <4>1. a = "history" /\ b = "history" BY <2>3, <2>4, <3>1
      <4> QED BY <4>1 DEF Together
    <3>2. CASE l \notin hold[p]
      <4>1. l \in hold[a] /\ l \in hold[b] BY <2>3, <3>2
      <4> QED BY <4>1 DEF LeaseInv, Alone
    <3> QED BY <3>1, <3>2
  <2>7. Pended'
    <3> SUFFICES ASSUME NEW l \in hold["replaying"] \cup hold["failReplay"], l \notin resolved
                 PROVE  l \notin hold'["history"]
      BY <2>3 DEF Pended
    <3>1. l \in Leases BY <2>1 DEF LeaseTypes
    <3>2. l \notin hold[p] BY <2>4, <3>1
    <3> QED BY <2>3, <3>2 DEF LeaseInv, Pended
  <2> QED BY <2>3, <2>5, <2>6, <2>7 DEF LeaseInv
<1> QED BY <1>1, <1>2

LEMMA AttachDiagnosesKeeps ==
  ASSUME BudgetIInv, AttachDiagnoses
  PROVE  BudgetIInv'
<1> USE DEF BudgetIInv, entryVars
<1>1. /\ LeaseInv' /\ hold'["attachDiag"] = {}
      /\ \A q \in Places \ {"attachDiag", "history"} : hold'[q] = hold[q]
  BY Diagnosing DEF AttachDiagnoses
<1>2. Phases' BY <1>1 DEF AttachDiagnoses, Phases, ControlTypes, Places
<1>3. ControlTypes' BY DEF AttachDiagnoses, ControlTypes
<1> QED BY <1>1, <1>2, <1>3

LEMMA FailDiagnosesKeeps ==
  ASSUME BudgetIInv, FailDiagnoses
  PROVE  BudgetIInv'
<1> USE DEF BudgetIInv, entryVars
<1>1. /\ LeaseInv' /\ hold'["failDiag"] = {}
      /\ \A q \in Places \ {"failDiag", "history"} : hold'[q] = hold[q]
  <2>1. CASE turnKnown BY <2>1, Diagnosing DEF FailDiagnoses
  <2>2. CASE ~turnKnown
    <3>1. {"failDiag"} \in SUBSET Places BY DEF Places
    <3>2. LeaseInv' /\ \A q \in Places : hold'[q] = IF q \in {"failDiag"} THEN {} ELSE hold[q]
      BY <2>2, <3>1, Releasing DEF FailDiagnoses
    <3> QED BY <3>1, <3>2
  <2> QED BY <2>1, <2>2
<1>2. Phases' BY <1>1 DEF FailDiagnoses, Phases, ControlTypes, Places
<1>3. ControlTypes' BY DEF FailDiagnoses, ControlTypes
<1> QED BY <1>1, <1>2, <1>3

LEMMA FailResolvesKeeps ==
  ASSUME BudgetIInv, NEW p \in {"failPending", "failReplay"}, NEW l \in Leases,
         NEW t \in BOOLEAN, FailResolves(p, l, t)
  PROVE  BudgetIInv'
<1> USE DEF BudgetIInv
<1> /\ p \in Places \ {"history"} /\ "history" \in Places /\ "replaying" \in Places
    /\ "failReplay" \in Places
  BY DEF Places
<1>1. /\ l \in hold[p] /\ ResolvedAndDropped(l, p, t) /\ fail = "resolve"
      /\ UNCHANGED <<run, turnKnown, over, att, rcv, shutting, fail, dropped, frames, arms>>
  BY DEF FailResolves
<1>2. l \notin resolved => l \notin hold["history"]
  BY <1>1 DEF LeaseInv, Pended, Alone, Together
<1>3. /\ Book'
      /\ \A q \in Places \ {p, "history"} : hold'[q] = hold[q]
      /\ hold'[p] = hold[p] \ {l}
      /\ \/ hold'["history"] = hold["history"]
         \/ l \notin resolved /\ hold'["history"] = hold["history"] \cup {l}
  BY <1>1, <1>2, ResolveKeepsBook DEF LeaseInv
<1>4. resolved' = resolved \cup {l} BY <1>1 DEF ResolvedAndDropped
<1>5. Alone'
  <2> SUFFICES ASSUME NEW a \in Places, NEW b \in Places, NEW k \in Leases,
                      k \in hold'[a], k \in hold'[b]
               PROVE  Together(a, b)
    BY DEF Alone
  <2>1. CASE k \in hold[a] /\ k \in hold[b] BY <2>1 DEF LeaseInv, Alone
  <2>2. CASE k = l /\ (a = "history" \/ b = "history")
    <3>1. \A q \in Places : l \in hold[q] => Together(p, q) BY <1>1 DEF LeaseInv, Alone
    <3>2. \A q \in Places \ {"history"} : l \in hold'[q] => q = "replaying" \/ q = "failReplay"
      BY <1>3, <3>1 DEF Together
    <3> QED BY <2>2, <3>2 DEF Together
  <2> QED BY <1>3, <2>1, <2>2
<1>6. Pended' BY <1>3, <1>4 DEF LeaseInv, Pended
<1>7. Phases' BY <1>1, <1>3 DEF Phases, ControlTypes, Places
<1>8. ControlTypes' BY <1>1, <1>4 DEF ResolvedAndDropped, ControlTypes
<1> QED BY <1>3, <1>5, <1>6, <1>7, <1>8 DEF LeaseInv

LEMMA FailTakesKeeps ==
  ASSUME BudgetIInv, FailTakes
  PROVE  BudgetIInv'
<1> USE DEF BudgetIInv
<1>1. /\ fail = "claimed" /\ fail' = "resolve"
      /\ UNCHANGED <<resolved, run, turnKnown, frozen, over, att, rcv, shutting, dropped, frames, arms>>
  BY DEF FailTakes, FailTakesOver, entryVars
<1>2. hold["failPending"] = {} /\ hold["failReplay"] = {} /\ hold["failDiag"] = {}
  BY <1>1 DEF Phases
<1>3. /\ Book'
      /\ \A p \in Places :
           hold'[p] =
             CASE p \in {"threadKey", "turnKey", "threadPending", "turnPending", "diagnostic"} -> {}
               [] p = "failPending" -> hold["turnPending"]
               [] p = "failDiag" -> hold["diagnostic"]
               [] p = "failReplay" -> hold["replaying"]
               [] OTHER -> hold[p]
  BY <1>2, FailTakesKeepsBook DEF LeaseInv
<1> DEFINE src(p) == CASE p = "failPending" -> "turnPending" [] p = "failDiag" -> "diagnostic"
                       [] p = "failReplay" -> "replaying" [] OTHER -> p
<1>4. \A p \in Places : \A l : l \in hold'[p] =>
        /\ src(p) \in Places /\ l \in hold[src(p)]
        /\ p \notin {"threadKey", "turnKey", "threadPending", "turnPending", "diagnostic"}
  BY <1>3 DEF Places
<1>5. Alone'
  <2> SUFFICES ASSUME NEW a \in Places, NEW b \in Places, NEW l \in Leases,
                      l \in hold'[a], l \in hold'[b]
               PROVE  Together(a, b)
    BY DEF Alone
  <2>1. Together(src(a), src(b)) BY <1>4 DEF LeaseInv, Alone
  <2> QED BY <1>4, <2>1 DEF Together
<1>6. Pended'
  <2>1. hold'["replaying"] = hold["replaying"] /\ hold'["failReplay"] = hold["replaying"]
        /\ hold'["history"] = hold["history"]
    BY <1>3 DEF Places
  <2> QED BY <1>1, <2>1 DEF LeaseInv, Pended
<1>7. Phases' BY <1>1, <1>3 DEF Phases, ControlTypes, Places
<1>8. ControlTypes' BY <1>1 DEF ControlTypes
<1> QED BY <1>3, <1>5, <1>6, <1>7, <1>8 DEF LeaseInv

LEMMA RegisterKeeps ==
  ASSUME BudgetIInv, Register
  PROVE  BudgetIInv'
<1> USE DEF BudgetIInv
<1>0. UNCHANGED <<resolved, turnKnown, frozen, rcv, shutting, fail, dropped, frames, arms>>
      /\ att = "thread"
  BY DEF Register
<1>1. CASE UNCHANGED leaseVars /\ att' = "done" /\ over' = TRUE /\ UNCHANGED run
  <2>1. LeaseInv' BY <1>0, <1>1, Keeping
  <2>2. Phases' BY <1>0, <1>1 DEF Phases, ControlTypes, leaseVars
  <2>3. ControlTypes' BY <1>0, <1>1 DEF ControlTypes
  <2> QED BY <2>1, <2>2, <2>3
<1>2. CASE /\ ~shutting /\ att' = "registering" /\ run' = "attaching" /\ UNCHANGED over
           /\ HandOver({"threadKey"}, {"threadPending"}, [f \in {"threadPending"} |-> "register"])
  <2>0. PICK P, from, to : /\ P = {"threadKey"} /\ from = {"threadPending"}
                          /\ to = [f \in {"threadPending"} |-> "register"]
    OBVIOUS
  <2>1. P \in SUBSET Places /\ from \in SUBSET Places /\ P \cap from = {}
        /\ \A f \in from : to[f] \in Places \ (P \cup from)
    BY <2>0 DEF Places
  <2>2. \A f, g \in from, l \in Leases :
          l \in hold[f] => l \notin hold[to[f]] /\ (l \in hold[g] => g = f)
    BY <2>0 DEF LeaseInv, Alone, Together, Places
  <2>3. HandOver(P, from, to) BY <1>2, <2>0
  <2>4. \A p : {g \in from : to[g] = p} = IF p = "register" THEN {"threadPending"} ELSE {}
    BY <2>0
  <2>5. /\ Book'
        /\ \A p \in Places :
             hold'[p] = IF p \in P \/ p \in from THEN {}
                        ELSE hold[p] \cup UNION {hold[f] : f \in {g \in from : to[g] = p}}
    <3>1. Movable(P, from, to) BY <2>1, <2>2 DEF Movable
    <3>2. Book' BY <2>3, <3>1, HandOverKeepsBook DEF LeaseInv
    <3> QED BY <2>3, <3>2 DEF HandOver
  <2>6. \A p \in Places : hold'[p] = IF p \in {"threadKey", "threadPending"} THEN {}
                                     ELSE IF p = "register" THEN hold[p] \cup hold["threadPending"]
                                     ELSE hold[p]
    <3> TAKE p \in Places
    <3>1. CASE p \in {"threadKey", "threadPending"} BY <2>0, <2>5, <3>1
    <3>2. CASE p = "register"
      <4>1. UNION {hold[f] : f \in {"threadPending"}} = hold["threadPending"] OBVIOUS
      <4>2. p \notin P /\ p \notin from BY <2>0, <3>2
      <4>3. hold'[p] = hold[p] \cup UNION {hold[f] : f \in {g \in from : to[g] = p}}
        BY <2>5, <4>2
      <4>4. {g \in from : to[g] = p} = {"threadPending"} BY <2>4, <3>2
      <4>5. UNION {hold[f] : f \in {g \in from : to[g] = p}} = hold["threadPending"] BY <4>1, <4>4
      <4> QED BY <3>2, <4>3, <4>5
    <3>3. CASE p \notin {"threadKey", "threadPending", "register"}
      <4>1. UNION {hold[f] : f \in {}} = {} OBVIOUS
      <4>2. p \notin P /\ p \notin from BY <2>0, <3>3
      <4>3. hold'[p] = hold[p] \cup UNION {hold[f] : f \in {g \in from : to[g] = p}}
        BY <2>5, <4>2
      <4>4. {g \in from : to[g] = p} = {} BY <2>4, <3>3
      <4>5. UNION {hold[f] : f \in {g \in from : to[g] = p}} = {} BY <4>1, <4>4
      <4> QED BY <3>3, <4>3, <4>5
    <3> QED BY <3>1, <3>2, <3>3
  <2>7. Alone'
    <3> SUFFICES ASSUME NEW a \in Places, NEW b \in Places, NEW l \in Leases,
                        l \in hold'[a], l \in hold'[b]
                 PROVE  Together(a, b)
      BY DEF Alone
    <3>1. CASE l \in hold["threadPending"]
      <4>1. \A q \in Places : l \in hold[q] => q = "threadPending"
        BY <3>1 DEF LeaseInv, Alone, Together, Places
      <4>2. a = "register" /\ b = "register" BY <2>6, <4>1
      <4> QED BY <4>2 DEF Together
    <3>2. CASE l \notin hold["threadPending"]
      <4>1. l \in hold[a] /\ l \in hold[b] BY <2>6, <3>2
      <4> QED BY <4>1 DEF LeaseInv, Alone
    <3> QED BY <3>1, <3>2
  <2>8. Pended' BY <1>0, <2>6 DEF LeaseInv, Pended, Places
  <2>9. Phases' BY <1>0, <1>2, <2>6 DEF Phases, ControlTypes, Places
  <2>10. ControlTypes' BY <1>0, <1>2 DEF ControlTypes
  <2> QED BY <2>5, <2>7, <2>8, <2>9, <2>10 DEF LeaseInv
<1> QED BY <1>1, <1>2 DEF Register

LEMMA AttachKeeps ==
  ASSUME BudgetIInv, Attach
  PROVE  BudgetIInv'
<1> USE DEF BudgetIInv
<1>0. UNCHANGED <<resolved, turnKnown, frozen, over, rcv, shutting, fail, dropped, frames, arms>>
      /\ att = "attach"
  BY DEF Attach
<1>1. CASE att' = "done" /\ run' = "gone" /\ HandOver({"turnKey"}, {}, <<>>)
  <2>0. {"turnKey"} \in SUBSET Places BY DEF Places
  <2>1. LeaseInv' /\ \A p \in Places : hold'[p] = IF p \in {"turnKey"} THEN {} ELSE hold[p]
    BY <1>0, <1>1, <2>0, Releasing
  <2>2. Phases' BY <1>0, <1>1, <2>1 DEF Phases, ControlTypes, Places
  <2>3. ControlTypes' BY <1>0, <1>1 DEF ControlTypes
  <2> QED BY <2>1, <2>2, <2>3
<1>2. CASE /\ att' = "replay" /\ run' = "live"
           /\ HandOver({"turnKey"}, {"turnPending", "diagnostic"},
                       [f \in {"turnPending", "diagnostic"} |->
                          IF f = "turnPending" THEN "replaying" ELSE "attachDiag"])
  <2>0. PICK P, from, to :
          /\ P = {"turnKey"} /\ from = {"turnPending", "diagnostic"}
          /\ to = [f \in {"turnPending", "diagnostic"} |->
                     IF f = "turnPending" THEN "replaying" ELSE "attachDiag"]
    OBVIOUS
  <2>1. P \in SUBSET Places /\ from \in SUBSET Places /\ P \cap from = {}
        /\ \A f \in from : to[f] \in Places \ (P \cup from)
    BY <2>0 DEF Places
  <2>2. \A f, g \in from, l \in Leases :
          l \in hold[f] => l \notin hold[to[f]] /\ (l \in hold[g] => g = f)
    BY <2>0 DEF LeaseInv, Alone, Together, Places
  <2>3. HandOver(P, from, to) BY <1>2, <2>0
  <2>4. \A p : {g \in from : to[g] = p} =
                 IF p = "replaying" THEN {"turnPending"}
                 ELSE IF p = "attachDiag" THEN {"diagnostic"} ELSE {}
    BY <2>0
  <2>5. /\ Book'
        /\ \A p \in Places :
             hold'[p] = IF p \in P \/ p \in from THEN {}
                        ELSE hold[p] \cup UNION {hold[f] : f \in {g \in from : to[g] = p}}
    <3>1. Movable(P, from, to) BY <2>1, <2>2 DEF Movable
    <3>2. Book' BY <2>3, <3>1, HandOverKeepsBook DEF LeaseInv
    <3> QED BY <2>3, <3>2 DEF HandOver
  <2>6. \A p \in Places : hold'[p] = IF p \in {"turnKey", "turnPending", "diagnostic"} THEN {}
                                     ELSE IF p = "replaying" THEN hold[p] \cup hold["turnPending"]
                                     ELSE IF p = "attachDiag" THEN hold[p] \cup hold["diagnostic"]
                                     ELSE hold[p]
    <3> TAKE p \in Places
    <3>1. CASE p \in {"turnKey", "turnPending", "diagnostic"} BY <2>0, <2>5, <3>1
    <3>2. ASSUME NEW q, {g \in from : to[g] = p} = {q}, p \notin P, p \notin from
          PROVE  hold'[p] = hold[p] \cup hold[q]
      <4>1. UNION {hold[f] : f \in {q}} = hold[q] OBVIOUS
      <4>2. hold'[p] = hold[p] \cup UNION {hold[f] : f \in {g \in from : to[g] = p}}
        BY <2>5, <3>2
      <4>3. UNION {hold[f] : f \in {g \in from : to[g] = p}} = hold[q] BY <3>2, <4>1
      <4> QED BY <4>2, <4>3
    <3>3. CASE p = "replaying"
      <4>1. {g \in from : to[g] = p} = {"turnPending"} BY <2>4, <3>3
      <4>2. p \notin P /\ p \notin from BY <2>0, <3>3
      <4> QED BY <3>2, <3>3, <4>1, <4>2
    <3>4. CASE p = "attachDiag"
      <4>1. {g \in from : to[g] = p} = {"diagnostic"} BY <2>4, <3>4
      <4>2. p \notin P /\ p \notin from BY <2>0, <3>4
      <4>3. hold'[p] = hold[p] \cup hold["diagnostic"] BY <3>2, <4>1, <4>2
      <4> QED BY <3>4, <4>3
    <3>5. CASE p \notin {"turnKey", "turnPending", "diagnostic", "replaying", "attachDiag"}
      <4>1. UNION {hold[f] : f \in {}} = {} OBVIOUS
      <4>2. p \notin P /\ p \notin from BY <2>0, <3>5
      <4>3. hold'[p] = hold[p] \cup UNION {hold[f] : f \in {g \in from : to[g] = p}}
        BY <2>5, <4>2
      <4>4. {g \in from : to[g] = p} = {} BY <2>4, <3>5
      <4>5. UNION {hold[f] : f \in {g \in from : to[g] = p}} = {} BY <4>1, <4>4
      <4> QED BY <3>5, <4>3, <4>5
    <3> QED BY <3>1, <3>3, <3>4, <3>5
  <2>7. Alone'
    <3> SUFFICES ASSUME NEW a \in Places, NEW b \in Places, NEW l \in Leases,
                        l \in hold'[a], l \in hold'[b]
                 PROVE  Together(a, b)
      BY DEF Alone
    <3>1. ASSUME NEW c \in {"turnPending", "diagnostic"}, l \in hold[c]
          PROVE  Together(a, b)
      <4>1. \A q \in Places : l \in hold[q] => q = c
        BY <3>1 DEF LeaseInv, Alone, Together, Places
      <4>2. a = b BY <2>6, <3>1, <4>1 DEF Places
      <4> QED BY <4>2 DEF Together
    <3>2. CASE l \notin hold["turnPending"] /\ l \notin hold["diagnostic"]
      <4>1. l \in hold[a] /\ l \in hold[b] BY <2>6, <3>2
      <4> QED BY <4>1 DEF LeaseInv, Alone
    <3> QED BY <3>1, <3>2
  <2>8. Pended'
    <3>1. \A l \in Leases : l \in hold["turnPending"] => l \notin hold["history"]
      BY DEF LeaseInv, Alone, Together, Places
    <3>2. hold["turnPending"] \subseteq Leases BY DEF LeaseInv, Book, LeaseTypes, Places
    <3>3. /\ hold'["replaying"] = hold["replaying"] \cup hold["turnPending"]
          /\ hold'["failReplay"] = hold["failReplay"] /\ hold'["history"] = hold["history"]
      BY <2>6 DEF Places
    <3> QED BY <1>0, <3>1, <3>2, <3>3 DEF LeaseInv, Pended
  <2>9. Phases' BY <1>0, <1>2, <2>6 DEF Phases, ControlTypes, Places
  <2>10. ControlTypes' BY <1>0, <1>2 DEF ControlTypes
  <2> QED BY <2>5, <2>7, <2>8, <2>9, <2>10 DEF LeaseInv
<1> QED BY <1>1, <1>2 DEF Attach

-----------------------------------------------------------------------------
(* The invariant holds, and says what the budget promises.                 *)

LEMMA BudgetStarts ==
  ASSUME RetentionInit
  PROVE  BudgetIInv
<1> USE DEF RetentionInit
<1>1. /\ \A p \in Places : hold[p] = {}
      /\ LeaseTypes
  BY DEF LeaseTypes
<1>2. RefsAreOwners
  <2> SUFFICES ASSUME NEW l \in Leases
               PROVE  Cardinality({p \in Places : l \in hold[p]}) = 0
    BY DEF RefsAreOwners
  <2>1. {p \in Places : l \in hold[p]} = {} BY <1>1
  <2> QED BY <2>1, FS_EmptySet
<1>3. used = Charge(Leases)
  <2>1. Units(Leases) = {} BY DEF Units
  <2> QED BY <2>1, FS_EmptySet DEF Charge
<1>4. Book BY <1>1, <1>2, <1>3, BudgetAssumption DEF Book
<1>5. Alone BY <1>1 DEF Alone
<1>6. Pended /\ Phases BY <1>1 DEF Pended, Phases, Places
<1>7. ControlTypes
  <2>1. frames \in 0..MaxFrames /\ arms \in 0..2 BY FrameAssumption
  <2>2. resolved \subseteq Leases /\ turnKnown \in BOOLEAN /\ frozen \in BOOLEAN /\ over \in BOOLEAN
    OBVIOUS
  <2>3. shutting \in BOOLEAN /\ dropped \in BOOLEAN OBVIOUS
  <2> QED BY <2>1, <2>2, <2>3 DEF ControlTypes
<1> QED BY <1>4, <1>5, <1>6, <1>7 DEF BudgetIInv, LeaseInv

LEMMA BudgetPreserved ==
  ASSUME BudgetIInv, [RetentionNext]_retentionVars
  PROVE  BudgetIInv'
<1>1. CASE ArmThread \/ ArmTurn \/ ReadThread \/ ReadTurn \/ ReadBad
  BY <1>1, ArmThreadKeeps, ArmTurnKeeps, ReadThreadKeeps, ReadTurnKeeps, ReadBadKeeps
<1>2. CASE Reading
  BY <1>2, ReleaseSteps, EnqueueKeeps, ControlSteps, AcceptLiveKeeps DEF Reading
<1>3. CASE (\E l \in Leases : Dispatch(l)) \/ DispatchDone \/ Discard
  BY <1>3, DispatchKeeps, ReleaseSteps
<1>4. CASE CloseClient \/ EndRun \/ CollectRun \/ TurnFails
  BY <1>4, ControlSteps, ReleaseSteps
<1>5. CASE Attaching
  BY <1>5, RegisterKeeps, ReleaseSteps, ControlSteps, AttachKeeps, AttachDiagnosesKeeps,
     RegisterAcceptsKeeps, ReplayKeeps
  DEF Attaching
<1>6. CASE Failing
  BY <1>6, FailTakesKeeps, FailDiagnosesKeeps, ControlSteps, FailResolvesKeeps DEF Failing
<1>7. CASE UNCHANGED retentionVars
  <2>1. LeaseInv' BY <1>7, Keeping DEF BudgetIInv, retentionVars, leaseVars
  <2>2. Phases' /\ ControlTypes'
    BY <1>7 DEF BudgetIInv, Phases, ControlTypes, retentionVars, leaseVars, entryVars
  <2> QED BY <2>1, <2>2 DEF BudgetIInv
<1> QED BY <1>1, <1>2, <1>3, <1>4, <1>5, <1>6, <1>7 DEF RetentionNext

\* At most three owners: a history, a replay, and failAll.
LEMMA AtMostThree ==
  ASSUME LeaseInv, NEW l \in Leases
  PROVE  refs[l] \in 0..3
<1>1. IsFiniteSet(Owners(l)) /\ refs[l] = Cardinality(Owners(l)) /\ refs[l] \in Nat
  BY OwnersFinite DEF LeaseInv, Book, RefsAreOwners, Owners
<1>2. \A a, b \in Owners(l) : Together(a, b) BY DEF LeaseInv, Alone, Owners
<1>3. \E x, y, z : Owners(l) \subseteq {x, y, z}
  <2>1. CASE "replaying" \in Owners(l) \/ "failReplay" \in Owners(l)
    <3>1. Owners(l) \subseteq {"history", "replaying", "failReplay"} BY <1>2, <2>1 DEF Together
    <3> QED BY <3>1
  <2>2. CASE "replaying" \notin Owners(l) /\ "failReplay" \notin Owners(l)
    <3>1. CASE Owners(l) \subseteq {"history"} BY <3>1
    <3>2. ASSUME NEW q \in Owners(l), q # "history"
          PROVE  Owners(l) \subseteq {"history", q, q}
      BY <1>2, <2>2, <3>2 DEF Together
    <3> QED BY <3>1, <3>2
  <2> QED BY <2>1, <2>2
<1>4. PICK x, y, z : Owners(l) \subseteq {x, y, z} BY <1>3
<1>5. IsFiniteSet({x, y, z}) /\ Cardinality({x, y, z}) <= 3
  <2>1. IsFiniteSet({x}) /\ Cardinality({x}) = 1 BY FS_Singleton
  <2>2. IsFiniteSet({x} \cup {y}) /\ Cardinality({x} \cup {y}) \in {1, 2}
    BY <2>1, FS_AddElement
  <2>3. IsFiniteSet(({x} \cup {y}) \cup {z}) /\ Cardinality(({x} \cup {y}) \cup {z}) \in {1, 2, 3}
    BY <2>2, FS_AddElement
  <2>4. ({x} \cup {y}) \cup {z} = {x, y, z} OBVIOUS
  <2> QED BY <2>3, <2>4
<1>6. Cardinality(Owners(l)) <= Cardinality({x, y, z}) /\ Cardinality({x, y, z}) \in Nat
  BY <1>4, <1>5, FS_Subset, FS_CardinalityType
<1> QED BY <1>1, <1>5, <1>6

LEMMA BudgetFollows ==
  ASSUME BudgetIInv
  PROVE  BudgetSound
<1> USE DEF BudgetIInv
<1>1. LeaseTypes /\ RefsAreOwners /\ used = Charge(Leases) /\ used <= Limit
      /\ \A l \in Leases : refs[l] = 0 <=> cost[l] = 0
  BY DEF LeaseInv, Book
<1>2. RetentionTypeOK
  <2>1. refs \in [Leases -> 0..3]
    <3>1. \A l \in Leases : refs[l] \in 0..3 BY AtMostThree
    <3>2. refs = [l \in Leases |-> refs[l]] BY <1>1 DEF LeaseTypes
    <3> QED BY <3>1, <3>2
  <2>2. used \in 0..Limit BY <1>1, BudgetAssumption DEF LeaseTypes
  <2> QED BY <1>1, <2>1, <2>2 DEF RetentionTypeOK, ControlTypes, LeaseTypes
\* A set of leases that includes all that are alive carries the whole charge.
<1>3. ASSUME NEW S \in SUBSET Leases, \A l \in Leases : refs[l] # 0 => l \in S
      PROVE  used = Charge(S)
  <2>1. \A l \in Leases, k \in 1..4 : <<l, k>> \in Units(S) <=> <<l, k>> \in Units(Leases)
    <3> TAKE l \in Leases, k \in 1..4
    <3>1. <<l, k>> \in Units(S) <=> l \in S /\ k <= cost[l] BY DEF Units
    <3>2. <<l, k>> \in Units(Leases) <=> k <= cost[l] BY DEF Units
    <3>3. k <= cost[l] => cost[l] # 0 OBVIOUS
    <3>4. k <= cost[l] => l \in S BY <1>1, <1>3, <3>3
    <3> QED BY <3>1, <3>2, <3>4
  <2>2. Units(S) \in SUBSET (Leases \X (1..4)) /\ Units(Leases) \in SUBSET (Leases \X (1..4))
    BY DEF Units
  <2>3. Units(S) = Units(Leases) BY <2>1, <2>2, SameUnits
  <2> QED BY <1>1, <2>3 DEF Charge
<1>4. ChargeIsExact
  <2>1. Alive \in SUBSET Leases /\ \A l \in Leases : refs[l] # 0 => l \in Alive
    BY <1>1 DEF Alive, LeaseTypes
  <2> QED BY <1>1, <1>3, <2>1 DEF ChargeIsExact
<1>5. CleanFailure BY DEF CleanFailure, Phases
<1>6. CloseGivesBack
  <2> SUFFICES ASSUME fail = "done", rcv = "read", att \in {"idle", "done"},
                      hold["queue"] \cup hold["dispatch"] = {}
               PROVE  used = Charge(hold["history"])
    BY DEF CloseGivesBack
  <2>1. \A p \in Places : p # "history" => hold[p] = {} BY DEF Phases, Places
  <2>2. hold["history"] \in SUBSET Leases BY <1>1 DEF LeaseTypes, Places
  <2>3. ASSUME NEW l \in Leases, l \notin hold["history"]
        PROVE  refs[l] = 0
    <3>1. {p \in Places : l \in hold[p]} = {} BY <2>1, <2>3
    <3> QED BY <1>1, <3>1, FS_EmptySet DEF RefsAreOwners
  <2> QED BY <1>3, <2>2, <2>3
<1> QED BY <1>1, <1>2, <1>4, <1>5, <1>6 DEF BudgetSound

\* However reader, dispatcher, attachment, failAll and collector interleave, and
\* for every budget: a lease counts its owners, the budget's count is the charge
\* of what is owned and never above the limit, a failed attachment leaves nothing
\* behind, and a closed client keeps only the histories still readable
\* (notificationRetention, retentionLease).
THEOREM RetentionSound == RetentionSpec => []BudgetSound
<1>1. RetentionInit => BudgetIInv BY BudgetStarts
<1>2. BudgetIInv /\ [RetentionNext]_retentionVars => BudgetIInv' BY BudgetPreserved
<1>3. BudgetIInv => BudgetSound BY BudgetFollows
<1> QED BY <1>1, <1>2, <1>3, PTL DEF RetentionSpec

-----------------------------------------------------------------------------
(* The acceptance of a commit by its checks. Pages of two listings are     *)
(* read while GitHub moves on. What makes them one listing: a page holds   *)
(* as many entries as are left, so pages without repeated identifiers, the *)
(* last one short, are the whole set (PageCounts). What was read of it is  *)
(* older, but a success is final (JobBook) and attempts only grow          *)
(* (FlowBook); and the run that a retry was requested for stays past the   *)
(* attempt that was examined (RetryBook, ExaminedBook).                    *)

FlowRun == [attempt : 0..MaxFlowAttempts, started : Nat,
            phase : {"none", "created", "active", "done"}, todo : SUBSET Names,
            verdict : {"", "success", "failure", "cancelled"}]

ChecksTyped == checks \in Seq(CheckRun) /\ Len(checks) <= MaxChecks
FlowsTyped ==
  /\ flows \in [Flows -> FlowRun] /\ starts \in Nat
  /\ \A w \in Flows : /\ flows[w].started <= starts
                      /\ flows[w].phase = "none" <=> flows[w].attempt = 0
ObserverTyped ==
  /\ cpc \in {"idle", "checks", "flows", "observed", "jobs", "pull", "run", "again", "post"}
  /\ recover \in BOOLEAN /\ target \in Flows /\ wanted = 1
  /\ state \in CheckStates /\ failedOne \in BOOLEAN /\ green \in BOOLEAN
  /\ autos \in [Flows -> Nat]
ListTyped ==
  /\ pageNo \in Nat \ {0} /\ total \in -1..MaxChecks + NWorkflows
  /\ IsFiniteSet(DOMAIN got) /\ Cardinality(DOMAIN got) = (pageNo - 1) * PageSize
  /\ cpc = "checks" => DOMAIN got \subseteq DOMAIN checks
  /\ cpc \in {"flows", "again"} => DOMAIN got \subseteq Listed
  /\ cpc \notin {"checks", "flows", "again"} => DOMAIN got = {}

CheckParts == ChecksTyped /\ FlowsTyped /\ ObserverTyped /\ ListTyped

\* A success that was read is still one.
JobBook ==
  cpc = "checks" => \A i \in DOMAIN got : got[i] = "success" => checks[i].job = "success"

\* A workflow run that was read as r, after the checks were listed: it has not
\* gone back since, and an end that was read is still one or was followed by an attempt.
WasRead(r, w) ==
  /\ r \in FlowRun /\ r.started <= starts
  /\ r.attempt <= flows[w].attempt
  /\ r.phase = "done" => flows[w].attempt > r.attempt \/ flows[w].phase = "done"
  /\ autos[w] > 0 => r.attempt > 1
  /\ \A x \in begun : x[1] = w => x[2] <= r.attempt

FlowBook == cpc \in {"flows", "again"} => \A w \in DOMAIN got : WasRead(got[w], w)

\* The attempts that had begun when the checks were listed.
BegunBook ==
  /\ begun \subseteq Flows \X (0..MaxFlowAttempts)
  /\ \A x \in begun : x[2] <= flows[x[1]].attempt

GreenBook == cpc = "flows" /\ state = "succeeded" => green

\* Only attempt 1 is retried, so a run that was retried is past it.
RetryBook == \A w \in Flows : autos[w] <= 1 /\ (autos[w] = 1 => flows[w].attempt > 1)

\* The attempt that is examined has ended, and nobody has retried it.
ExaminedBook ==
  cpc \in {"jobs", "pull", "run", "again", "post"} =>
    /\ autos[target] = 0
    /\ flows[target].attempt > 1 \/ (flows[target].attempt = 1 /\ flows[target].phase = "done")

ReplayBook == cpc \in {"pull", "run", "again", "post"} => Replayable

CheckBooks ==
  JobBook /\ FlowBook /\ BegunBook /\ GreenBook /\ RetryBook /\ ExaminedBook /\ ReplayBook

CheckIInv == CheckParts /\ CheckBooks

LEMMA CheckByPart ==
  ASSUME CheckParts
  PROVE  CheckTypeOK
<1> USE DEF CheckParts
<1>1. \A i \in DOMAIN checks : checks[i] \in CheckRun BY DEF ChecksTyped
<1>2. \A w \in Flows : flows[w].phase \in {"none", "created", "active", "done"}
  BY DEF FlowsTyped, FlowRun
<1>3. wanted \in 1..MaxFlowAttempts BY CheckAssumption DEF ObserverTyped
<1>4. DOMAIN got \subseteq 1..MaxChecks + NWorkflows
  <2>1. DOMAIN checks \subseteq 1..MaxChecks BY CheckAssumption DEF ChecksTyped
  <2>2. Listed \subseteq 1..NWorkflows BY DEF Listed, Flows
  <2>3. 1..MaxChecks \subseteq 1..MaxChecks + NWorkflows BY CheckAssumption
  <2>4. 1..NWorkflows \subseteq 1..MaxChecks + NWorkflows BY CheckAssumption
  <2> QED BY <2>1, <2>2, <2>3, <2>4 DEF ListTyped, ObserverTyped
<1> QED BY <1>1, <1>2, <1>3, <1>4 DEF ChecksTyped, ObserverTyped, ListTyped, CheckTypeOK

\* A set of numbers with a bound has a greatest one.
LEMMA Greatest ==
  ASSUME NEW S \in SUBSET Nat, S # {}, NEW n \in Nat, \A s \in S : s <= n
  PROVE  \E m \in S : \A s \in S : s <= m
<1> DEFINE T == {k \in Nat : \E s \in S : k = n - s}
           R == OpToRel(<, Nat)
<1>1. T \subseteq Nat /\ T # {}
  <2>1. PICK s \in S : TRUE OBVIOUS
  <2>2. n - s \in Nat BY <2>1
  <2> QED BY <2>1, <2>2
<1>2. \A x, y \in Nat : y < x => <<y, x>> \in R BY DEF OpToRel
<1>3. \E x \in T : \A y \in T : ~(<<y, x>> \in R)
  <2> HIDE DEF T, R
  <2> QED BY <1>1, WFMin, NatLessThanWellFounded DEF R
<1>4. PICK x \in T : \A y \in T : ~(<<y, x>> \in R) BY <1>3
<1> HIDE DEF R
<1>5. ASSUME NEW y \in T PROVE x <= y
  <2> HIDE DEF T
  <2>1. x \in Nat /\ y \in Nat BY <1>1
  <2>2. ~(y < x) BY <1>2, <1>4, <2>1
  <2> QED BY <2>1, <2>2
<1>6. PICK m \in S : x = n - m BY DEF T
<1>7. ASSUME NEW s \in S PROVE s <= m
  <2>1. n - s \in T BY <1>7
  <2> HIDE DEF T
  <2>2. x <= n - s BY <1>5, <2>1
  <2> QED BY <1>6, <1>7, <2>2
<1> QED BY <1>6, <1>7

\* Pages without repeated entries: full ones count, a short one ends the listing.
LEMMA PageCounts ==
  ASSUME NEW all, IsFiniteSet(all), NEW g \in SUBSET all, NEW p \in Nat \ {0}, p = pageNo,
         Cardinality(g) = (p - 1) * PageSize, NEW b \in PageOf(all), b \cap g = {}
  PROVE  /\ b \subseteq all /\ IsFiniteSet(g \cup b)
         /\ ~Short(b) => Cardinality(g \cup b) = p * PageSize
         /\ Short(b) => g \cup b = all
<1> DEFINE c == (p - 1) * PageSize
<1>1. PageSize \in Nat /\ c \in Nat /\ p * PageSize = c + PageSize BY CheckAssumption
<1> HIDE DEF c
<1>2. b \in SUBSET all BY DEF PageOf
<1>3. IsFiniteSet(b) /\ IsFiniteSet(g) /\ Cardinality(g) <= Cardinality(all) BY <1>2, FS_Subset
<1>4. /\ Cardinality(all) \in Nat /\ Cardinality(b) \in Nat /\ Cardinality(g) \in Nat
  BY <1>3, FS_CardinalityType
<1>5. IsFiniteSet(g \cup b) /\ Cardinality(g \cup b) = Cardinality(g) + Cardinality(b)
  <2>1. Cardinality(g \cap b) = 0
    <3>1. g \cap b = {} OBVIOUS
    <3> QED BY <3>1, FS_EmptySet
  <2>2. /\ IsFiniteSet(g \cup b)
        /\ Cardinality(g \cup b) = Cardinality(g) + Cardinality(b) - Cardinality(g \cap b)
    BY <1>3, FS_Union
  <2> QED BY <1>4, <2>1, <2>2
<1>6. Cardinality(g) = c BY DEF c
<1>7. LET left == Cardinality(all) - c
      IN Cardinality(b) = IF left < 0 THEN 0 ELSE IF left < PageSize THEN left ELSE PageSize
  BY DEF PageOf, c
<1>8. Cardinality(b) = IF Cardinality(all) - c < PageSize THEN Cardinality(all) - c ELSE PageSize
  BY <1>1, <1>3, <1>4, <1>6, <1>7
<1>9. ~Short(b) => Cardinality(b) = PageSize BY <1>1, <1>4, <1>8 DEF Short
<1>10. Short(b) => Cardinality(g \cup b) = Cardinality(all)
  BY <1>1, <1>4, <1>5, <1>6, <1>8 DEF Short
<1>11. g \cup b \in SUBSET all BY <1>2
<1>12. Cardinality(all) = Cardinality(g \cup b) => all = g \cup b BY <1>11, FS_Subset
<1> QED BY <1>1, <1>2, <1>5, <1>6, <1>9, <1>10, <1>12

LEMMA DomainsFinite ==
  ASSUME CheckParts
  PROVE  /\ IsFiniteSet(DOMAIN checks) /\ IsFiniteSet(Listed)
         /\ Cardinality(DOMAIN checks) \in -1..MaxChecks + NWorkflows
         /\ Cardinality(Listed) \in -1..MaxChecks + NWorkflows
<1>1. Len(checks) \in Nat /\ DOMAIN checks = 1..Len(checks) /\ Len(checks) <= MaxChecks
  BY DEF CheckParts, ChecksTyped
<1>2. IsFiniteSet(1..Len(checks)) /\ Cardinality(1..Len(checks)) = Len(checks) BY <1>1, UpTo
<1>3. IsFiniteSet(1..NWorkflows) /\ Cardinality(1..NWorkflows) = NWorkflows
  BY CheckAssumption, UpTo
<1>4. Listed \in SUBSET (1..NWorkflows) BY DEF Listed, Flows
<1>5. IsFiniteSet(Listed) /\ Cardinality(Listed) <= NWorkflows BY <1>3, <1>4, FS_Subset
<1>6. Cardinality(Listed) \in Nat BY <1>5, FS_CardinalityType
<1> QED BY <1>1, <1>2, <1>5, <1>6, CheckAssumption

\* The jobs of an attempt are the ones that it has to do.
LEMMA JobsAre ==
  ASSUME NEW w \in Flows, flows[w].todo \in SUBSET Names
  PROVE  Jobs(w) \in Seq(flows[w].todo)
<1> DEFINE T == flows[w].todo
           n == Cardinality(T)
<1>1. IsFiniteSet(T) BY CheckAssumption, FS_Subset
<1>2. n \in Nat /\ ExistsBijection(1..n, T) BY <1>1, FS_CardinalityType
<1>3. PICK s \in [1..n -> T] : \A t \in T : \E i \in 1..n : s[i] = t
  BY <1>2 DEF ExistsBijection, Bijection, Surjection
<1>4. {s[i] : i \in DOMAIN s} = T BY <1>3
<1>5. Jobs(w) \in [1..n -> T] BY <1>4 DEF Jobs
<1> HIDE DEF n, T
<1>6. Jobs(w) \in Seq(T) BY <1>2, <1>5
<1> QED BY <1>6 DEF T

-----------------------------------------------------------------------------
(* GitHub goes on: a check run that has ended stays as it is, and the      *)
(* attempts of a workflow run follow each other.                           *)

Ended == {"success", "failure", "cancelled", "stopped"}

ChecksGo ==
  /\ DOMAIN checks \subseteq DOMAIN checks'
  /\ \A i \in DOMAIN checks :
       /\ checks'[i].flow = checks[i].flow /\ checks'[i].attempt = checks[i].attempt
       /\ checks'[i].name = checks[i].name
       /\ checks[i].job \in Ended => checks'[i].job = checks[i].job
  /\ \A i \in DOMAIN checks' \ DOMAIN checks :
       LET w == checks'[i].flow
       IN  \/ w = 0
           \/ /\ w \in Flows /\ flows[w].phase = "created"
              /\ checks'[i].attempt = flows[w].attempt

FlowsGo ==
  /\ starts <= starts'
  /\ \A w \in Flows :
       /\ flows[w].attempt <= flows'[w].attempt
       /\ flows[w].phase = "done" /\ flows'[w].attempt = flows[w].attempt =>
            flows'[w].phase = "done"
       /\ flows[w].phase # "none" => flows'[w].phase # "none"

LEMMA ChecksRest ==
  ASSUME ChecksTyped, checks' = checks
  PROVE  ChecksTyped' /\ ChecksGo
BY DEF ChecksTyped, ChecksGo

LEMMA FlowNumbers ==
  ASSUME NEW r \in FlowRun
  PROVE  r.attempt \in Nat /\ r.attempt <= MaxFlowAttempts /\ r.started \in Nat
<1>1. r.attempt \in 0..MaxFlowAttempts /\ r.started \in Nat BY DEF FlowRun
<1>2. MaxFlowAttempts \in Nat BY CheckAssumption
<1> QED BY <1>1, <1>2

LEMMA FlowsRest ==
  ASSUME FlowsTyped, flows' = flows, starts' = starts
  PROVE  FlowsTyped' /\ FlowsGo
<1>1. \A w \in Flows : flows[w].attempt \in Nat BY FlowNumbers DEF FlowsTyped
<1> QED BY <1>1 DEF FlowsTyped, FlowsGo

LEMMA FlowEdited ==
  ASSUME FlowsTyped, NEW w \in Flows, NEW r \in FlowRun, flows' = [flows EXCEPT ![w] = r],
         starts' \in Nat, starts <= starts', r.started <= starts', r.phase # "none", r.attempt # 0,
         flows[w].attempt <= r.attempt,
         flows[w].phase = "done" /\ r.attempt = flows[w].attempt => r.phase = "done"
  PROVE  FlowsTyped' /\ FlowsGo
<1>1. /\ flows' \in [Flows -> FlowRun] /\ flows'[w] = r
      /\ \A v \in Flows : v # w => flows'[v] = flows[v]
  BY DEF FlowsTyped
<1>2. \A v \in Flows : flows[v].started \in Nat /\ flows[v].attempt \in Nat
  BY FlowNumbers DEF FlowsTyped
<1>3. \A v \in Flows : /\ flows'[v].started <= starts'
                       /\ flows'[v].phase = "none" <=> flows'[v].attempt = 0
  BY <1>1, <1>2 DEF FlowsTyped
<1>4. FlowsTyped' BY <1>1, <1>3 DEF FlowsTyped
<1>5. FlowsGo BY <1>1, <1>2 DEF FlowsGo
<1> QED BY <1>4, <1>5

LEMMA BeginGoes ==
  ASSUME FlowsTyped, NEW w \in Flows, NEW names \in SUBSET Names, Begin(w, names)
  PROVE  FlowsTyped' /\ FlowsGo /\ checks' = checks /\ flows'[w].attempt = flows[w].attempt + 1
<1> DEFINE r == [attempt |-> flows[w].attempt + 1, started |-> starts', phase |-> "created",
                 todo |-> names, verdict |-> ""]
<1>1. flows' = [flows EXCEPT ![w] = r] /\ starts' = starts + 1 /\ checks' = checks
      /\ flows[w].attempt < MaxFlowAttempts
  BY DEF Begin, FlowsTyped
<1>2. flows[w].attempt \in Nat /\ starts \in Nat /\ MaxFlowAttempts \in Nat
  BY FlowNumbers, CheckAssumption DEF FlowsTyped
<1>3. flows[w].attempt + 1 \in 0..MaxFlowAttempts /\ starts' \in Nat /\ starts <= starts'
  <2>1. starts' = starts + 1 /\ flows[w].attempt < MaxFlowAttempts BY <1>1
  <2> QED BY <1>2, <2>1
<1>4. r \in FlowRun BY <1>3 DEF FlowRun
<1>5. r.started = starts' /\ r.phase = "created" /\ r.attempt = flows[w].attempt + 1 OBVIOUS
<1> HIDE DEF r
<1>6. starts' <= starts' /\ r.attempt # 0 /\ flows[w].attempt <= r.attempt
      /\ r.attempt # flows[w].attempt
  BY <1>2, <1>3, <1>5
<1>7. FlowsTyped' /\ FlowsGo BY <1>1, <1>3, <1>4, <1>5, <1>6, FlowEdited
<1> QED BY <1>1, <1>5, <1>7 DEF FlowsTyped

LEMMA PhaseGoes ==
  ASSUME FlowsTyped, NEW w \in Flows, NEW r \in FlowRun, flows' = [flows EXCEPT ![w] = r],
         starts' = starts, flows[w].phase \in {"created", "active"}, r.phase # "none",
         r.attempt = flows[w].attempt, r.started = flows[w].started
  PROVE  FlowsTyped' /\ FlowsGo
<1>1. /\ starts \in Nat /\ flows[w].attempt \in Nat /\ flows[w].attempt # 0
      /\ flows[w].started <= starts
  BY FlowNumbers DEF FlowsTyped
<1>2. starts <= starts' /\ flows[w].attempt <= r.attempt BY <1>1
<1> QED BY <1>1, <1>2, FlowEdited

LEMMA JobsCreatedGoes ==
  ASSUME CheckParts, NEW w \in Flows, JobsCreated(w)
  PROVE  ChecksTyped' /\ ChecksGo /\ FlowsTyped' /\ FlowsGo
<1> USE DEF CheckParts
<1> DEFINE r == [flows[w] EXCEPT !.phase = "active", !.todo = {}]
           new == [i \in DOMAIN Jobs(w) |-> [flow |-> w, attempt |-> flows[w].attempt,
                                             name |-> Jobs(w)[i], job |-> "queued"]]
<1>1. /\ flows[w].phase = "created" /\ Len(checks) + Len(Jobs(w)) <= MaxChecks
      /\ checks' = checks \o new /\ starts' = starts
  BY DEF JobsCreated
<1>2. flows' = [flows EXCEPT ![w] = r] BY DEF JobsCreated, FlowsTyped
<1>3. flows[w] \in FlowRun BY DEF FlowsTyped
<1>4. /\ r \in FlowRun /\ r.phase = "active"
      /\ r.attempt = flows[w].attempt /\ r.started = flows[w].started
  BY <1>3 DEF FlowRun
<1> HIDE DEF r
<1>5. FlowsTyped' /\ FlowsGo BY <1>1, <1>2, <1>4, PhaseGoes
<1>6. flows[w].todo \in SUBSET Names /\ flows[w].attempt \in 0..MaxFlowAttempts BY <1>3 DEF FlowRun
<1>7. Jobs(w) \in Seq(flows[w].todo) BY <1>6, JobsAre
<1> DEFINE n == Len(Jobs(w))
<1>8. n \in Nat /\ DOMAIN Jobs(w) = 1..n /\ \A i \in 1..n : Jobs(w)[i] \in Names BY <1>6, <1>7
<1>9. \A i \in 1..n : new[i] \in CheckRun /\ new[i].flow = w /\ new[i].attempt = flows[w].attempt
  BY <1>6, <1>8 DEF CheckRun, JobStates
<1>10. new \in [1..n -> CheckRun]
  <2>1. \A i \in 1..n : [flow |-> w, attempt |-> flows[w].attempt, name |-> Jobs(w)[i],
                         job |-> "queued"] \in CheckRun
    BY <1>6, <1>8 DEF CheckRun, JobStates
  <2> QED BY <1>8, <2>1
<1> HIDE DEF n, new
<1>11. new \in Seq(CheckRun) /\ Len(new) = n BY <1>8, <1>10
<1>12. checks \in Seq(CheckRun) BY DEF ChecksTyped
<1> DEFINE l == Len(checks)
<1>13. /\ checks' \in Seq(CheckRun) /\ Len(checks') = l + n /\ l \in Nat
       /\ DOMAIN checks = 1..l /\ DOMAIN checks' = 1..(l + n)
       /\ \A i \in 1..l : checks'[i] = checks[i]
       /\ \A i \in 1..(l + n) : i > l => checks'[i] = new[i - l]
  <2>1. Len(checks) \in Nat /\ DOMAIN checks = 1..Len(checks) BY <1>12
  <2>2. checks \o new \in Seq(CheckRun) /\ Len(checks \o new) = Len(checks) + Len(new)
    BY <1>11, <1>12
  <2>3. \A i \in 1..(Len(checks) + Len(new)) :
          (checks \o new)[i] = IF i <= Len(checks) THEN checks[i] ELSE new[i - Len(checks)]
    BY <1>11, <1>12
  <2> QED BY <1>1, <1>8, <1>11, <2>1, <2>2, <2>3
<1>14. ChecksTyped' BY <1>1, <1>13 DEF ChecksTyped, n
<1> HIDE DEF l
<1>15. ASSUME NEW i \in DOMAIN checks' \ DOMAIN checks
       PROVE  checks'[i].flow = w /\ checks'[i].attempt = flows[w].attempt
  <2>1. i - l \in 1..n /\ checks'[i] = new[i - l] BY <1>8, <1>13
  <2> QED BY <1>9, <2>1
<1>16. DOMAIN checks \subseteq DOMAIN checks' BY <1>8, <1>13
<1>17. ChecksGo BY <1>1, <1>13, <1>15, <1>16 DEF ChecksGo
<1> QED BY <1>5, <1>14, <1>17

\* Check runs move, each on its own.
LEMMA ChecksMove ==
  ASSUME ChecksTyped, DOMAIN checks' = DOMAIN checks,
         checks' = [i \in DOMAIN checks |-> checks'[i]],
         \A i \in DOMAIN checks :
           \/ checks'[i] = checks[i]
           \/ /\ checks[i].job \notin Ended
              /\ \E j \in JobStates : checks'[i] = [checks[i] EXCEPT !.job = j]
  PROVE  ChecksTyped' /\ ChecksGo
<1>1. checks \in Seq(CheckRun) /\ Len(checks) \in Nat /\ DOMAIN checks = 1..Len(checks)
  BY DEF ChecksTyped
<1>2. ASSUME NEW i \in DOMAIN checks
      PROVE  /\ checks'[i] \in CheckRun
             /\ checks'[i].flow = checks[i].flow /\ checks'[i].attempt = checks[i].attempt
             /\ checks'[i].name = checks[i].name
             /\ checks[i].job \in Ended => checks'[i].job = checks[i].job
  <2>1. checks[i] \in CheckRun BY <1>1
  <2>2. CASE checks'[i] = checks[i] BY <2>1, <2>2
  <2>3. CASE /\ checks[i].job \notin Ended
             /\ \E j \in JobStates : checks'[i] = [checks[i] EXCEPT !.job = j]
    <3>1. PICK j \in JobStates : checks'[i] = [checks[i] EXCEPT !.job = j] BY <2>3
    <3> QED BY <2>1, <2>3, <3>1 DEF CheckRun
  <2> QED BY <2>2, <2>3
<1>3. checks' \in [1..Len(checks) -> CheckRun] BY <1>1, <1>2
<1>4. checks' \in Seq(CheckRun) BY <1>1, <1>3
<1>5. Len(checks') = Len(checks) BY <1>1, <1>4
<1>6. ChecksTyped' BY <1>4, <1>5 DEF ChecksTyped
<1> QED BY <1>2, <1>6 DEF ChecksGo

LEMMA JobMovesGoes ==
  ASSUME ChecksTyped, NEW k \in DOMAIN checks, JobMoves(k)
  PROVE  ChecksTyped' /\ ChecksGo
<1>1. PICK j \in JobStates : checks' = [checks EXCEPT ![k].job = j] BY DEF JobMoves, JobStates
<1>2. checks[k].job \notin Ended BY DEF JobMoves, Ended
<1>3. DOMAIN checks' = DOMAIN checks /\ checks' = [i \in DOMAIN checks |-> checks'[i]] BY <1>1
<1>4. \A i \in DOMAIN checks : i # k => checks'[i] = checks[i] BY <1>1
<1>5. checks'[k] = [checks[k] EXCEPT !.job = j] BY <1>1
<1> QED BY <1>2, <1>3, <1>4, <1>5, ChecksMove

LEMMA FlowCancelledGoes ==
  ASSUME CheckParts, NEW w \in Flows, FlowCancelled(w)
  PROVE  ChecksTyped' /\ ChecksGo /\ FlowsTyped' /\ FlowsGo
<1> USE DEF CheckParts
<1>1. /\ flows[w].phase = "active" /\ starts' = starts
      /\ checks' = [i \in DOMAIN checks |-> Cancelled(w, checks[i])]
  BY DEF FlowCancelled
<1> DEFINE r == [flows[w] EXCEPT !.phase = "done", !.verdict = "cancelled"]
<1>2. flows' = [flows EXCEPT ![w] = r] BY DEF FlowCancelled, FlowsTyped
<1>3. flows[w] \in FlowRun BY DEF FlowsTyped
<1>4. /\ r \in FlowRun /\ r.phase = "done"
      /\ r.attempt = flows[w].attempt /\ r.started = flows[w].started
  BY <1>3 DEF FlowRun
<1> HIDE DEF r
<1>5. FlowsTyped' /\ FlowsGo BY <1>1, <1>2, <1>4, PhaseGoes
<1>6. ASSUME NEW i \in DOMAIN checks
      PROVE  \/ checks'[i] = checks[i]
             \/ /\ checks[i].job \notin Ended
                /\ \E j \in JobStates : checks'[i] = [checks[i] EXCEPT !.job = j]
  BY <1>1 DEF Cancelled, Ended, JobStates
<1>7. DOMAIN checks' = DOMAIN checks /\ checks' = [i \in DOMAIN checks |-> checks'[i]] BY <1>1
<1>8. ChecksTyped' /\ ChecksGo BY <1>6, <1>7, ChecksMove
<1> QED BY <1>5, <1>8

LEMMA FlowEndsGoes ==
  ASSUME FlowsTyped, NEW w \in Flows, FlowEnds(w)
  PROVE  FlowsTyped' /\ FlowsGo
<1> DEFINE v == Conclusion(w)
           r == [flows[w] EXCEPT !.phase = "done", !.verdict = v]
<1>1. flows[w].phase = "active" /\ starts' = starts /\ flows' = [flows EXCEPT ![w] = r]
  BY DEF FlowEnds, FlowsTyped
<1>2. v \in {"failure", "success", "cancelled"} BY DEF Conclusion
<1>3. flows[w] \in FlowRun BY DEF FlowsTyped
<1> HIDE DEF v
<1>4. /\ r \in FlowRun /\ r.phase = "done"
      /\ r.attempt = flows[w].attempt /\ r.started = flows[w].started
  BY <1>2, <1>3 DEF FlowRun
<1> HIDE DEF r
<1> QED BY <1>1, <1>4, PhaseGoes

LEMMA ForeignGoes ==
  ASSUME ChecksTyped, ForeignCheck
  PROVE  ChecksTyped' /\ ChecksGo
<1>1. PICK n \in Names :
        checks' = Append(checks, [flow |-> 0, attempt |-> 0, name |-> n, job |-> "success"])
  BY DEF ForeignCheck
<1> DEFINE c == [flow |-> 0, attempt |-> 0, name |-> n, job |-> "success"]
           l == Len(checks)
<1>2. 0 \in 0..MaxFlowAttempts BY CheckAssumption
<1>3. c \in CheckRun /\ c.flow = 0 BY <1>2 DEF CheckRun, JobStates
<1>4. checks' = Append(checks, c) /\ l < MaxChecks BY <1>1 DEF ForeignCheck
<1> HIDE DEF c
<1>5. checks \in Seq(CheckRun) /\ l \in Nat /\ DOMAIN checks = 1..l BY DEF ChecksTyped
<1>6. /\ checks' \in Seq(CheckRun) /\ Len(checks') = l + 1 /\ DOMAIN checks' = 1..(l + 1)
      /\ checks'[l + 1] = c /\ \A i \in 1..l : checks'[i] = checks[i]
  BY <1>3, <1>4, <1>5
<1>7. ChecksTyped' BY <1>4, <1>5, <1>6, CheckAssumption DEF ChecksTyped
<1> HIDE DEF l
<1>8. \A i \in DOMAIN checks' \ DOMAIN checks : checks'[i].flow = 0 BY <1>3, <1>5, <1>6
<1>9. ChecksGo BY <1>5, <1>6, <1>8 DEF ChecksGo
<1> QED BY <1>7, <1>9

LEMMA GitHubGoes ==
  ASSUME CheckParts, GitHub
  PROVE  /\ ChecksTyped' /\ ChecksGo /\ FlowsTyped' /\ FlowsGo
         /\ UNCHANGED <<observer, autos>>
<1> USE DEF CheckParts
<1>1. ASSUME NEW w \in Flows, FlowStarts(w) \/ PersonReruns(w)
      PROVE  ChecksTyped' /\ ChecksGo /\ FlowsTyped' /\ FlowsGo /\ UNCHANGED <<observer, autos>>
  <2>1. PICK names \in SUBSET Names : Begin(w, names) BY <1>1 DEF FlowStarts, PersonReruns
  <2>2. UNCHANGED <<observer, autos>> BY <1>1 DEF FlowStarts, PersonReruns
  <2>3. FlowsTyped' /\ FlowsGo /\ checks' = checks BY <2>1, BeginGoes
  <2> QED BY <2>2, <2>3, ChecksRest
<1>2. ASSUME NEW w \in Flows, JobsCreated(w)
      PROVE  ChecksTyped' /\ ChecksGo /\ FlowsTyped' /\ FlowsGo /\ UNCHANGED <<observer, autos>>
  <2>1. UNCHANGED <<observer, autos>> BY <1>2 DEF JobsCreated
  <2> QED BY <1>2, <2>1, JobsCreatedGoes
<1>3. ASSUME NEW w \in Flows, FlowEnds(w)
      PROVE  ChecksTyped' /\ ChecksGo /\ FlowsTyped' /\ FlowsGo /\ UNCHANGED <<observer, autos>>
  <2>1. UNCHANGED <<observer, autos>> /\ checks' = checks BY <1>3 DEF FlowEnds
  <2> QED BY <1>3, <2>1, FlowEndsGoes, ChecksRest
<1>4. ASSUME NEW w \in Flows, FlowCancelled(w)
      PROVE  ChecksTyped' /\ ChecksGo /\ FlowsTyped' /\ FlowsGo /\ UNCHANGED <<observer, autos>>
  <2>1. UNCHANGED <<observer, autos>> BY <1>4 DEF FlowCancelled
  <2> QED BY <1>4, <2>1, FlowCancelledGoes
<1>5. ASSUME NEW i \in DOMAIN checks, JobMoves(i)
      PROVE  ChecksTyped' /\ ChecksGo /\ FlowsTyped' /\ FlowsGo /\ UNCHANGED <<observer, autos>>
  <2>1. UNCHANGED <<observer, autos>> /\ flows' = flows /\ starts' = starts BY <1>5 DEF JobMoves
  <2> QED BY <1>5, <2>1, JobMovesGoes, FlowsRest
<1>6. ASSUME ForeignCheck
      PROVE  ChecksTyped' /\ ChecksGo /\ FlowsTyped' /\ FlowsGo /\ UNCHANGED <<observer, autos>>
  <2>1. UNCHANGED <<observer, autos>> /\ flows' = flows /\ starts' = starts
    BY <1>6 DEF ForeignCheck
  <2> QED BY <1>6, <2>1, ForeignGoes, FlowsRest
<1> QED BY <1>1, <1>2, <1>3, <1>4, <1>5, <1>6 DEF GitHub

LEMMA GitHubKeeps ==
  ASSUME CheckIInv, ChecksTyped', ChecksGo, FlowsTyped', FlowsGo, UNCHANGED <<observer, autos>>
  PROVE  CheckIInv'
<1> USE DEF CheckIInv, CheckParts, CheckBooks
<1>1. UNCHANGED <<cpc, recover, target, wanted, total, pageNo, got, state, failedOne, green, begun,
                  autos>>
  BY DEF observer, listVars, seenVars
<1>2. ObserverTyped' BY <1>1 DEF ObserverTyped
<1>3. Listed \subseteq Listed' BY DEF Listed, FlowsGo
<1>4. ListTyped' BY <1>1, <1>3 DEF ListTyped, ChecksGo
<1>5. JobBook' BY <1>1 DEF JobBook, ListTyped, ChecksGo, Ended
<1>6. \A w \in Flows : /\ flows[w].attempt \in Nat /\ flows'[w].attempt \in Nat
                       /\ flows[w].attempt <= flows'[w].attempt
  <2>1. \A w \in Flows : flows[w] \in FlowRun /\ flows'[w] \in FlowRun
    BY DEF FlowsTyped, FlowRun, Flows
  <2> QED BY <2>1, FlowNumbers DEF FlowsGo
<1>7. FlowBook'
  <2> SUFFICES ASSUME cpc \in {"flows", "again"}, NEW w \in DOMAIN got
               PROVE  /\ got[w] \in FlowRun /\ got[w].started <= starts'
                      /\ got[w].attempt <= flows'[w].attempt
                      /\ got[w].phase = "done" =>
                           flows'[w].attempt > got[w].attempt \/ flows'[w].phase = "done"
                      /\ autos[w] > 0 => got[w].attempt > 1
                      /\ \A x \in begun : x[1] = w => x[2] <= got[w].attempt
    BY <1>1 DEF FlowBook, WasRead
  <2>1. w \in Flows BY DEF ListTyped, Listed
  <2>2. got[w] \in FlowRun BY DEF FlowBook, WasRead
  <2>3. got[w].started \in Nat /\ got[w].attempt \in Nat BY <2>2, FlowNumbers
  <2>4. got[w].started <= starts' BY <2>3 DEF FlowBook, WasRead, FlowsTyped, FlowsGo
  <2>5. got[w].attempt <= flows'[w].attempt BY <1>6, <2>1, <2>3 DEF FlowBook, WasRead
  <2>6. got[w].phase = "done" => flows'[w].attempt > got[w].attempt \/ flows'[w].phase = "done"
    <3> HAVE got[w].phase = "done"
    <3>1. CASE flows[w].attempt > got[w].attempt BY <1>6, <2>1, <2>3, <3>1
    <3>2. CASE flows[w].attempt <= got[w].attempt
      <4>1. flows[w].attempt = got[w].attempt /\ flows[w].phase = "done"
        BY <1>6, <2>1, <2>3, <3>2 DEF FlowBook, WasRead
      <4>2. flows'[w].attempt = flows[w].attempt => flows'[w].phase = "done"
        BY <2>1, <4>1 DEF FlowsGo
      <4> QED BY <1>6, <2>1, <2>3, <4>1, <4>2
    <3> QED BY <1>6, <2>1, <2>3, <3>1, <3>2
  <2> QED BY <2>2, <2>4, <2>5, <2>6 DEF FlowBook, WasRead
<1>8. BegunBook'
  <2> SUFFICES ASSUME NEW x \in begun PROVE x[2] <= flows'[x[1]].attempt
    BY <1>1 DEF BegunBook
  <2>1. x[1] \in Flows /\ x[2] \in Nat BY CheckAssumption DEF BegunBook
  <2> QED BY <1>6, <2>1 DEF BegunBook
<1>9. GreenBook' BY <1>1 DEF GreenBook
<1>10. RetryBook' BY <1>1, <1>6 DEF RetryBook
<1>11. ExaminedBook'
  <2> SUFFICES ASSUME cpc \in {"jobs", "pull", "run", "again", "post"}
               PROVE  /\ autos[target] = 0
                      /\ \/ flows'[target].attempt > 1
                         \/ flows'[target].attempt = 1 /\ flows'[target].phase = "done"
    BY <1>1 DEF ExaminedBook
  <2>1. target \in Flows BY DEF ObserverTyped
  <2> QED BY <1>6, <2>1 DEF ExaminedBook, FlowsGo
<1>12. ReplayBook'
  <2> SUFFICES ASSUME cpc \in {"pull", "run", "again", "post"}
               PROVE  Replayable'
    BY <1>1 DEF ReplayBook
  <2> SUFFICES ASSUME NEW i \in DOMAIN checks', checks'[i].flow = target, checks'[i].attempt = 1
               PROVE  /\ checks'[i].job \in {"success", "cancelled", "stopped"}
                      /\ checks'[i].name = LiveName => checks'[i].job # "stopped"
    BY <1>1 DEF Replayable, AttemptJobs, NeverStarted, ObserverTyped
  <2>1. CASE i \in DOMAIN checks
    <3>1. i \in AttemptJobs BY <2>1 DEF AttemptJobs, ChecksGo, ObserverTyped
    <3>2. /\ checks[i].job \in {"success", "cancelled", "stopped"}
          /\ checks[i].name = LiveName => checks[i].job # "stopped"
      BY <3>1 DEF ReplayBook, Replayable, NeverStarted
    <3> QED BY <2>1, <3>2 DEF ChecksGo, Ended
  <2>2. CASE i \notin DOMAIN checks
    <3>1. target \in Flows /\ target # 0 BY CheckAssumption DEF ObserverTyped, Flows
    <3>2. flows[target].phase = "created" /\ flows[target].attempt = 1
      BY <2>2, <3>1 DEF ChecksGo
    <3> QED BY <3>2 DEF ExaminedBook
  <2> QED BY <2>1, <2>2
<1> QED BY <1>2, <1>4, <1>5, <1>7, <1>8, <1>9, <1>10, <1>11, <1>12

-----------------------------------------------------------------------------
(* The states of the required checks.                                      *)

LEMMA AllGreen ==
  ASSUME NEW f
  PROVE  Evaluate(f) = "succeeded" <=> \A n \in Names : StateOf(n, f) = "succeeded"
<1> DEFINE states == {StateOf(n, f) : n \in Names}
<1>1. \A n \in Names : StateOf(n, f) \in CheckStates BY DEF StateOf, CheckStates
<1>2. states \subseteq CheckStates BY <1>1
<1>3. Evaluate(f) = "succeeded" <=> states \cap {"failed", "cancelled", "missing", "pending"} = {}
  BY DEF Evaluate
<1>4. states \cap {"failed", "cancelled", "missing", "pending"} = {} <=>
        \A s \in states : s = "succeeded"
  BY <1>2 DEF CheckStates
<1> QED BY <1>3, <1>4

\* A complete listing that looks green is green: the newest check runs are the
\* same, and a success is final.
LEMMA GreenStays ==
  ASSUME ChecksTyped, NEW f, DOMAIN f = DOMAIN checks,
         \A i \in DOMAIN checks : f[i] = "success" => checks[i].job = "success",
         Evaluate(f) = "succeeded"
  PROVE  Evaluate(Truth) = "succeeded"
<1>1. DOMAIN Truth = DOMAIN checks /\ \A i \in DOMAIN checks : Truth[i] = checks[i].job BY DEF Truth
<1> HIDE DEF Truth
<1>2. ASSUME NEW n \in Names PROVE StateOf(n, Truth) = "succeeded"
  <2> DEFINE own == {i \in DOMAIN checks : checks[i].name = n /\ checks[i].flow # 0}
             m == CHOOSE i \in own : \A j \in own : j <= i
  <2>1. StateOf(n, f) = "succeeded" BY AllGreen
  <2>2. own # {} /\ f[m] = "success" BY <2>1 DEF StateOf
  <2>3. m \in own
    <3>1. Len(checks) \in Nat /\ DOMAIN checks = 1..Len(checks) BY DEF ChecksTyped
    <3>2. own \in SUBSET Nat /\ \A i \in own : i <= Len(checks) BY <3>1
    <3> HIDE DEF own
    <3>3. \E k \in own : \A j \in own : j <= k BY <2>2, <3>1, <3>2, Greatest
    <3> QED BY <3>3
  <2>4. Truth[m] = "success" BY <1>1, <2>2, <2>3
  <2> QED BY <1>1, <2>2, <2>4 DEF StateOf
<1> QED BY <1>2, AllGreen

LEMMA StatesTyped ==
  ASSUME NEW f
  PROVE  Evaluate(f) \in CheckStates /\ FlowsState(f) \in CheckStates
BY DEF Evaluate, FlowsState, workflowState, CheckStates

\* A state that is neither missing nor pending is that of the latest run.
LEMMA FlowsStateIs ==
  ASSUME NEW f, FlowsState(f) \notin {"missing", "pending"}
  PROVE  DOMAIN f # {} /\ ~Active(f) /\ FlowsState(f) = workflowState(f[Latest(f)])
<1> DEFINE empty == DOMAIN f = {}
           last == workflowState(f[Latest(f)])
<1>1. FlowsState(f) = CASE empty -> "missing" [] ~empty /\ Active(f) -> "pending" [] OTHER -> last
  BY DEF FlowsState
<1> HIDE DEF last, empty
<1>2. empty => FlowsState(f) = "missing" BY <1>1
<1>3. ~empty /\ Active(f) => FlowsState(f) = "pending" BY <1>1
<1>4. ~empty /\ ~Active(f) => FlowsState(f) = last BY <1>1
<1> QED BY <1>2, <1>3, <1>4 DEF last, empty

LEMMA NoPageFacts ==
  DOMAIN NoPage = {} /\ IsFiniteSet(DOMAIN NoPage) /\ Cardinality(DOMAIN NoPage) = 0
<1>1. DOMAIN NoPage = {} BY DEF NoPage
<1> QED BY <1>1, FS_EmptySet

-----------------------------------------------------------------------------
(* Steps of the observer.                                                  *)

LEMMA FreshList ==
  ASSUME pageNo' = 1, total' = -1, got' = NoPage
  PROVE  ListTyped'
<1>1. DOMAIN got' = {} /\ IsFiniteSet(DOMAIN got') /\ Cardinality(DOMAIN got') = 0
  BY NoPageFacts
<1>2. 0 = (1 - 1) * PageSize /\ -1 \in -1..MaxChecks + NWorkflows BY CheckAssumption
<1> QED BY <1>1, <1>2 DEF ListTyped

\* The observer begins, or is done.
LEMMA RestsOrBegins ==
  ASSUME ChecksTyped', FlowsTyped', ObserverTyped', cpc' \in {"idle", "observed", "checks"},
         pageNo' = 1, total' = -1, got' = NoPage, begun' = {}, RetryBook'
  PROVE  CheckIInv'
<1>1. ListTyped' BY FreshList
<1>2. DOMAIN got' = {} BY NoPageFacts
<1>3. JobBook' /\ FlowBook' BY <1>2 DEF JobBook, FlowBook
<1>4. BegunBook' BY DEF BegunBook
<1>5. GreenBook' /\ ExaminedBook' /\ ReplayBook' BY DEF GreenBook, ExaminedBook, ReplayBook
<1> QED BY <1>1, <1>3, <1>4, <1>5 DEF CheckIInv, CheckParts, CheckBooks

LEMMA GiveUpKeeps ==
  ASSUME CheckIInv, GiveUp, UNCHANGED <<ghVars, recover, target, wanted, autos>>
  PROVE  CheckIInv'
<1> USE DEF CheckIInv, CheckParts, CheckBooks
<1>1. UNCHANGED <<checks, flows, starts, recover, target, wanted, autos>> BY DEF ghVars
<1>2. /\ cpc' = "idle" /\ total' = -1 /\ pageNo' = 1 /\ got' = NoPage
      /\ state' = "missing" /\ failedOne' = FALSE /\ green' = FALSE /\ begun' = {}
  BY DEF GiveUp
<1>3. ChecksTyped' /\ FlowsTyped' BY <1>1, ChecksRest, FlowsRest
<1>4. failedOne' \in BOOLEAN /\ green' \in BOOLEAN BY <1>2
<1>5. ObserverTyped' BY <1>1, <1>2, <1>4 DEF ObserverTyped, CheckStates
<1>6. RetryBook' BY <1>1 DEF RetryBook
<1> QED BY <1>2, <1>3, <1>5, <1>6, RestsOrBegins

LEMMA LookKeeps ==
  ASSUME CheckIInv, Look
  PROVE  CheckIInv'
<1> USE DEF CheckIInv, CheckParts, CheckBooks
<1>1. UNCHANGED <<checks, flows, starts, autos>> BY DEF Look, ghVars
<1>2. /\ cpc' = "checks" /\ total' = -1 /\ pageNo' = 1 /\ got' = NoPage
      /\ state' = "missing" /\ failedOne' = FALSE /\ green' = FALSE /\ begun' = {}
      /\ target' \in Flows /\ wanted' = 1
  BY DEF Look, Retried
<1>3. ChecksTyped' /\ FlowsTyped' BY <1>1, ChecksRest, FlowsRest
<1>4. failedOne' \in BOOLEAN /\ green' \in BOOLEAN BY <1>2
<1>5. recover' \in BOOLEAN BY DEF Look
<1>6. ObserverTyped' BY <1>1, <1>2, <1>4, <1>5 DEF ObserverTyped, CheckStates
<1>7. RetryBook' BY <1>1 DEF RetryBook
<1> QED BY <1>2, <1>3, <1>6, <1>7, RestsOrBegins

\* GitHub rests.
Still == UNCHANGED <<checks, flows, starts, recover, target, wanted, autos>>

LEMMA StillTypes ==
  ASSUME CheckIInv, Still
  PROVE  ChecksTyped' /\ FlowsTyped' /\ RetryBook'
<1>1. ChecksTyped' /\ FlowsTyped'
  BY ChecksRest, FlowsRest DEF Still, CheckIInv, CheckParts
<1>2. RetryBook' BY DEF Still, CheckIInv, CheckBooks, RetryBook
<1> QED BY <1>1, <1>2

\* The next page, of either listing.
LEMMA NextPageList ==
  ASSUME CheckIInv, Still, NEW all, IsFiniteSet(all),
         Cardinality(all) \in -1..MaxChecks + NWorkflows,
         DOMAIN got \subseteq all, NEW b \in PageOf(all), ~Repeated(b), ~Short(b),
         NEW f, DOMAIN f = DOMAIN got \cup b, NextPage(all, f),
         \/ cpc = "checks" /\ all = DOMAIN checks
         \/ cpc \in {"flows", "again"} /\ all = Listed
  PROVE  /\ ListTyped' /\ ObserverTyped' /\ UNCHANGED <<cpc, state, failedOne, green, begun>>
         /\ got' = f
<1> USE DEF CheckIInv, CheckParts
<1>1. /\ got' = f /\ total' = Cardinality(all) /\ pageNo' = pageNo + 1
      /\ UNCHANGED <<cpc, state, failedOne, green, begun>>
  BY DEF NextPage, seenVars
<1>2. UNCHANGED <<checks, flows, starts, recover, target, wanted, autos>> BY DEF Still
<1>3. ObserverTyped' BY <1>1, <1>2 DEF ObserverTyped
<1> DEFINE g == DOMAIN got
<1>4. PICK p \in Nat \ {0} : p = pageNo BY DEF ListTyped
<1>5. Cardinality(g) = (p - 1) * PageSize /\ g \in SUBSET all BY <1>4 DEF ListTyped
<1>6. b \cap g = {} BY DEF Repeated
<1> HIDE DEF g
<1>7. b \subseteq all /\ IsFiniteSet(g \cup b) /\ Cardinality(g \cup b) = p * PageSize
  BY <1>4, <1>5, <1>6, PageCounts
<1>8. DOMAIN got' = g \cup b BY <1>1 DEF g
<1>9. p + 1 \in Nat \ {0} /\ (p + 1) - 1 = p OBVIOUS
<1>10. pageNo' \in Nat \ {0} /\ pageNo' - 1 = p BY <1>1, <1>4, <1>9
<1>11. DOMAIN got' \subseteq all BY <1>7, <1>8 DEF g
<1>12. DOMAIN checks' = DOMAIN checks /\ Listed' = Listed BY <1>2 DEF Listed
<1>13. ListTyped' BY <1>1, <1>7, <1>8, <1>10, <1>11, <1>12 DEF ListTyped
<1> QED BY <1>1, <1>3, <1>13

LEMMA CheckPageKeeps ==
  ASSUME CheckIInv, CheckPage
  PROVE  CheckIInv'
<1> USE DEF CheckIInv, CheckParts, CheckBooks
<1>1. cpc = "checks" /\ Still /\ UNCHANGED <<ghVars, recover, target, wanted, autos>>
  BY DEF CheckPage, Still, ghVars
<1>2. PICK b \in PageOf(DOMAIN checks) :
        LET new == With(b, LAMBDA i : checks[i].job) IN
        \/ (Changed(DOMAIN checks) \/ Repeated(b)) /\ GiveUp
        \/ /\ ~Changed(DOMAIN checks) /\ ~Repeated(b)
           /\ \/ ~Short(b) /\ NextPage(DOMAIN checks, new)
              \/ /\ Short(b)
                 /\ cpc' = "flows" /\ total' = -1 /\ pageNo' = 1 /\ got' = NoPage
                 /\ state' = Evaluate(new)
                 /\ failedOne' = (\E n \in Names : StateOf(n, new) = "failed")
                 /\ green' = (Evaluate(Truth) = "succeeded")
                 /\ begun' = {<<w, flows[w].attempt>> : w \in Flows}
  BY DEF CheckPage
<1> DEFINE f == [i \in DOMAIN got \cup b |-> IF i \in b THEN checks[i].job ELSE got[i]]
<1>3. With(b, LAMBDA i : checks[i].job) = f BY DEF With
<1>4. DOMAIN f = DOMAIN got \cup b OBVIOUS
<1>5. DOMAIN got \subseteq DOMAIN checks BY <1>1 DEF ListTyped
<1>6. \A i \in DOMAIN f : f[i] = "success" => checks[i].job = "success" BY <1>1 DEF JobBook
<1> HIDE DEF f
<1>7. CASE GiveUp BY <1>1, <1>7, GiveUpKeeps
<1>8. CASE ~Repeated(b) /\ ~Short(b) /\ NextPage(DOMAIN checks, f)
  <2>1. IsFiniteSet(DOMAIN checks) /\ Cardinality(DOMAIN checks) \in -1..MaxChecks + NWorkflows
    BY DomainsFinite
  <2>2. /\ ListTyped' /\ ObserverTyped' /\ UNCHANGED <<cpc, state, failedOne, green, begun>>
        /\ got' = f
    BY <1>1, <1>4, <1>5, <1>8, <2>1, NextPageList
  <2>3. ChecksTyped' /\ FlowsTyped' /\ RetryBook' BY <1>1, StillTypes
  <2>4. JobBook' BY <1>1, <1>6, <2>2 DEF JobBook, Still
  <2>5. FlowBook' /\ GreenBook' /\ ExaminedBook' /\ ReplayBook'
    BY <1>1, <2>2 DEF FlowBook, GreenBook, ExaminedBook, ReplayBook
  <2>6. BegunBook' BY <1>1, <2>2 DEF BegunBook, Still
  <2> QED BY <2>2, <2>3, <2>4, <2>5, <2>6
<1>9. CASE /\ ~Repeated(b) /\ Short(b)
           /\ cpc' = "flows" /\ total' = -1 /\ pageNo' = 1 /\ got' = NoPage
           /\ state' = Evaluate(f)
           /\ failedOne' = (\E n \in Names : StateOf(n, f) = "failed")
           /\ green' = (Evaluate(Truth) = "succeeded")
           /\ begun' = {<<w, flows[w].attempt>> : w \in Flows}
  <2>1. IsFiniteSet(DOMAIN checks) BY DomainsFinite
  <2>2. DOMAIN f = DOMAIN checks
    <3> DEFINE g == DOMAIN got
    <3>1. /\ pageNo \in Nat \ {0} /\ Cardinality(g) = (pageNo - 1) * PageSize
          /\ g \in SUBSET DOMAIN checks
      BY <1>5 DEF ListTyped
    <3>2. b \cap g = {} BY <1>9 DEF Repeated
    <3> HIDE DEF g
    <3>3. g \cup b = DOMAIN checks BY <1>9, <2>1, <3>1, <3>2, PageCounts
    <3> QED BY <1>4, <3>3 DEF g
  <2>3. ChecksTyped' /\ FlowsTyped' /\ RetryBook' BY <1>1, StillTypes
  <2>4. failedOne' \in BOOLEAN /\ green' \in BOOLEAN BY <1>9
  <2>5. state' \in CheckStates BY <1>9, StatesTyped
  <2>6. ObserverTyped' BY <1>1, <1>9, <2>4, <2>5 DEF ObserverTyped, Still
  <2>7. ListTyped' BY <1>9, FreshList
  <2>8. FlowBook' /\ JobBook'
    <3>1. DOMAIN got' = {} BY <1>9, NoPageFacts
    <3> QED BY <1>9, <3>1 DEF FlowBook, JobBook
  <2>9. GreenBook' BY <1>6, <1>9, <2>2, GreenStays DEF GreenBook
  <2>10. BegunBook'
    <3>1. \A w \in Flows : flows[w].attempt \in 0..MaxFlowAttempts BY DEF FlowsTyped, FlowRun
    <3>2. begun' \subseteq Flows \X (0..MaxFlowAttempts) BY <1>9, <3>1
    <3>3. ASSUME NEW x \in begun' PROVE x[2] <= flows'[x[1]].attempt
      <4>1. PICK w \in Flows : x = <<w, flows[w].attempt>> BY <1>9, <3>3
      <4>2. x[1] = w /\ x[2] = flows[w].attempt /\ flows' = flows BY <1>1, <4>1 DEF Still
      <4>3. flows[w].attempt \in Nat BY FlowNumbers DEF FlowsTyped
      <4> QED BY <4>2, <4>3
    <3> QED BY <3>2, <3>3 DEF BegunBook
  <2>11. ExaminedBook' /\ ReplayBook' BY <1>9 DEF ExaminedBook, ReplayBook
  <2> QED BY <2>3, <2>6, <2>7, <2>8, <2>9, <2>10, <2>11
<1> QED BY <1>2, <1>3, <1>7, <1>8, <1>9

\* What a page of workflow runs shows is so, and what was read before was.
LEMMA FlowsWereRead ==
  ASSUME CheckIInv, cpc \in {"flows", "again"}, NEW b \in PageOf(Listed), ~Repeated(b),
         NEW f, f = [w \in DOMAIN got \cup b |-> IF w \in b THEN flows[w] ELSE got[w]]
  PROVE  /\ DOMAIN f = DOMAIN got \cup b
         /\ \A w \in DOMAIN f : w \in Flows /\ WasRead(f[w], w)
         /\ Short(b) => DOMAIN f = Listed
<1> USE DEF CheckIInv, CheckParts, CheckBooks
<1>1. DOMAIN f = DOMAIN got \cup b OBVIOUS
<1>2. DOMAIN got \in SUBSET Listed BY DEF ListTyped
<1>3. IsFiniteSet(Listed) BY DomainsFinite
<1>4. b \subseteq Listed /\ (Short(b) => DOMAIN got \cup b = Listed)
  <2> DEFINE g == DOMAIN got
  <2>1. pageNo \in Nat \ {0} /\ Cardinality(g) = (pageNo - 1) * PageSize /\ g \in SUBSET Listed
    BY <1>2 DEF ListTyped
  <2>2. b \cap g = {} BY DEF Repeated
  <2> HIDE DEF g
  <2>3. b \subseteq Listed /\ (Short(b) => g \cup b = Listed) BY <1>3, <2>1, <2>2, PageCounts
  <2> QED BY <2>3 DEF g
<1>5. ASSUME NEW w \in Flows PROVE WasRead(flows[w], w)
  <2>1. flows[w] \in FlowRun /\ flows[w].started <= starts BY DEF FlowsTyped
  <2>2. flows[w].attempt \in Nat BY <2>1, FlowNumbers
  <2>3. autos[w] > 0 => flows[w].attempt > 1
    <3>1. autos[w] \in Nat BY DEF ObserverTyped
    <3> QED BY <3>1 DEF RetryBook
  <2>4. \A x \in begun : x[1] = w => x[2] <= flows[w].attempt BY DEF BegunBook
  <2> QED BY <2>1, <2>2, <2>3, <2>4 DEF WasRead
<1>6. ASSUME NEW w \in DOMAIN f PROVE w \in Flows /\ WasRead(f[w], w)
  <2>1. w \in Flows BY <1>1, <1>2, <1>4 DEF Listed
  <2>2. CASE w \in b BY <1>5, <2>1, <2>2
  <2>3. CASE w \notin b
    <3>1. w \in DOMAIN got /\ f[w] = got[w] BY <1>1, <2>3
    <3> QED BY <2>1, <3>1 DEF FlowBook
  <2> QED BY <2>2, <2>3
<1> QED BY <1>1, <1>4, <1>6

LEMMA LatestIsRead ==
  ASSUME NEW f, DOMAIN f # {}, \A w \in DOMAIN f : WasRead(f[w], w), starts \in Nat
  PROVE  Latest(f) \in DOMAIN f
<1> DEFINE S == {f[w].started : w \in DOMAIN f}
<1>1. \A w \in DOMAIN f : f[w].started \in Nat /\ f[w].started <= starts BY FlowNumbers DEF WasRead
<1>2. S \in SUBSET Nat /\ S # {} /\ \A s \in S : s <= starts BY <1>1
<1> HIDE DEF S
<1>3. PICK m \in S : \A s \in S : s <= m BY <1>2, Greatest
<1>4. PICK w \in DOMAIN f : \A v \in DOMAIN f : f[v].started <= f[w].started BY <1>3 DEF S
<1> QED BY <1>4 DEF Latest

LEMMA FlowPageKeeps ==
  ASSUME CheckIInv, FlowPage
  PROVE  CheckIInv'
<1> USE DEF CheckIInv, CheckParts, CheckBooks
<1>1. cpc \in {"flows", "again"} /\ Still /\ UNCHANGED <<ghVars, recover, target, wanted, autos>>
  BY DEF FlowPage, Still, ghVars
<1>2. PICK b \in PageOf(Listed) :
        LET new == With(b, LAMBDA w : flows[w]) IN
        \/ (Changed(Listed) \/ Repeated(b)) /\ GiveUp
        \/ /\ ~Changed(Listed) /\ ~Repeated(b)
           /\ IF Short(b) THEN FlowsRead(new) ELSE NextPage(Listed, new)
  BY DEF FlowPage
<1>3. PICK f : f = [w \in DOMAIN got \cup b |-> IF w \in b THEN flows[w] ELSE got[w]] OBVIOUS
<1>4. With(b, LAMBDA w : flows[w]) = f BY <1>3 DEF With
<1>5. CASE GiveUp BY <1>1, <1>5, GiveUpKeeps
<1>6. CASE ~Repeated(b) /\ ~Short(b) /\ NextPage(Listed, f)
  <2>1. IsFiniteSet(Listed) /\ Cardinality(Listed) \in -1..MaxChecks + NWorkflows BY DomainsFinite
  <2>2. DOMAIN f = DOMAIN got \cup b /\ \A w \in DOMAIN f : w \in Flows /\ WasRead(f[w], w)
    BY <1>1, <1>3, <1>6, FlowsWereRead
  <2>3. DOMAIN got \subseteq Listed BY <1>1 DEF ListTyped
  <2>4. /\ ListTyped' /\ ObserverTyped' /\ UNCHANGED <<cpc, state, failedOne, green, begun>>
        /\ got' = f
    BY <1>1, <1>6, <2>1, <2>2, <2>3, NextPageList
  <2>5. ChecksTyped' /\ FlowsTyped' /\ RetryBook' BY <1>1, StillTypes
  <2>6. FlowBook' BY <1>1, <2>2, <2>4 DEF FlowBook, WasRead, Still
  <2>7. JobBook' BY <1>1, <2>4 DEF JobBook
  <2>8. GreenBook' /\ ExaminedBook' BY <1>1, <2>4 DEF GreenBook, ExaminedBook, Still
  <2>9. ReplayBook'
    BY <1>1, <2>4 DEF ReplayBook, Still, Replayable, AttemptJobs, NeverStarted
  <2>10. BegunBook' BY <1>1, <2>4 DEF BegunBook, Still
  <2> QED BY <2>4, <2>5, <2>6, <2>7, <2>8, <2>9, <2>10
<1>7. CASE ~Repeated(b) /\ Short(b) /\ FlowsRead(f)
  <2>1. DOMAIN f = Listed /\ \A w \in DOMAIN f : w \in Flows /\ WasRead(f[w], w)
    BY <1>1, <1>3, <1>7, FlowsWereRead
  <2>2. total' = -1 /\ pageNo' = 1 /\ got' = NoPage BY <1>7 DEF FlowsRead
  <2>3. ChecksTyped' /\ FlowsTyped' /\ RetryBook' BY <1>1, StillTypes
  <2>4. CASE ~recover /\ cpc' = "observed"
    <3>1. /\ state' = IF FlowsState(f) = "succeeded" THEN state ELSE FlowsState(f)
          /\ failedOne' = FALSE /\ green' = FALSE /\ begun' = {}
      BY <1>7, <2>4 DEF FlowsRead, GiveUp
    <3>2. failedOne' \in BOOLEAN /\ green' \in BOOLEAN BY <3>1
    <3>3. state' \in CheckStates BY <3>1, StatesTyped DEF ObserverTyped
    <3>4. ObserverTyped' BY <1>1, <2>4, <3>2, <3>3 DEF ObserverTyped, Still
    <3> QED BY <2>2, <2>3, <2>4, <3>1, <3>4, RestsOrBegins
  <2>5. CASE /\ AsAsked(f) /\ cpc' = IF cpc = "flows" THEN "jobs" ELSE "post"
             /\ UNCHANGED <<seenVars, green, begun>>
    <3>1. UNCHANGED <<state, failedOne, green, begun>> BY <2>5 DEF seenVars
    <3>2. ObserverTyped' BY <1>1, <2>5, <3>1 DEF ObserverTyped, Still
    <3>3. ListTyped' BY <2>2, FreshList
    <3>4. JobBook' /\ FlowBook' /\ GreenBook' BY <1>1, <2>5 DEF JobBook, FlowBook, GreenBook
    <3>5. BegunBook' BY <1>1, <3>1 DEF BegunBook, Still
    <3>6. ReplayBook'
      BY <1>1, <2>5 DEF ReplayBook, Still, Replayable, AttemptJobs, NeverStarted
    <3>7. /\ autos[target] = 0
          /\ \/ flows[target].attempt > 1
             \/ flows[target].attempt = 1 /\ flows[target].phase = "done"
      <4>1. /\ FlowsState(f) = "cancelled" /\ Latest(f) = target /\ f[target].attempt = 1
        BY <2>5 DEF AsAsked, ObserverTyped
      <4>2. DOMAIN f # {} /\ workflowState(f[target]) = "cancelled"
        <5>1. FlowsState(f) \notin {"missing", "pending"} BY <4>1
        <5> QED BY <4>1, <5>1, FlowsStateIs
      <4>3. f[target].phase = "done" BY <4>2 DEF workflowState
      <4>4. target \in DOMAIN f BY <2>1, <4>1, <4>2, LatestIsRead DEF FlowsTyped
      <4>5. WasRead(f[target], target) /\ target \in Flows BY <2>1, <4>4
      <4>6. autos[target] \in Nat /\ flows[target].attempt \in Nat
        BY <4>5, FlowNumbers DEF ObserverTyped, FlowsTyped
      <4> QED BY <4>1, <4>3, <4>5, <4>6 DEF WasRead
    <3>8. ExaminedBook' BY <1>1, <3>7 DEF ExaminedBook, Still
    <3> QED BY <2>3, <3>2, <3>3, <3>4, <3>5, <3>6, <3>8
  <2>6. CASE GiveUp BY <1>1, <2>6, GiveUpKeeps
  <2> QED BY <1>7, <2>4, <2>5, <2>6 DEF FlowsRead
<1> QED BY <1>2, <1>4, <1>5, <1>6, <1>7

LEMMA ProceedKeeps ==
  ASSUME CheckIInv, JobsRead \/ PullRead \/ RunRead
  PROVE  CheckIInv'
<1> USE DEF CheckIInv, CheckParts, CheckBooks
<1>1. /\ Still /\ UNCHANGED <<ghVars, recover, target, wanted, autos>>
      /\ cpc \in {"jobs", "pull", "run"}
  BY DEF JobsRead, PullRead, RunRead, Proceed, Still, ghVars
<1>2. CASE GiveUp BY <1>1, <1>2, GiveUpKeeps
<1>3. CASE /\ UNCHANGED <<listVars, seenVars, green, begun>> /\ cpc' \in {"pull", "run", "again"}
           /\ cpc = "jobs" => Replayable
  <2>1. UNCHANGED <<total, pageNo, got, state, failedOne, green, begun>>
    BY <1>3 DEF listVars, seenVars
  <2>2. UNCHANGED <<checks, flows, starts, recover, target, wanted, autos>> BY <1>1 DEF Still
  <2>3. ChecksTyped' /\ FlowsTyped' /\ RetryBook' BY <1>1, StillTypes
  <2>4. ObserverTyped' BY <1>3, <2>1, <2>2 DEF ObserverTyped
  <2>5. DOMAIN got = {} BY <1>1 DEF ListTyped
  <2>6. ListTyped' BY <1>3, <2>1, <2>5 DEF ListTyped
  <2>7. JobBook' /\ FlowBook' /\ GreenBook' BY <1>3, <2>1, <2>5 DEF JobBook, FlowBook, GreenBook
  <2>8. BegunBook' BY <2>1, <2>2 DEF BegunBook
  <2>9. ExaminedBook' BY <1>1, <2>2 DEF ExaminedBook
  <2>10. Replayable BY <1>1, <1>3 DEF ReplayBook
  <2>11. ReplayBook' BY <2>2, <2>10 DEF ReplayBook, Replayable, AttemptJobs, NeverStarted
  <2> QED BY <2>3, <2>4, <2>6, <2>7, <2>8, <2>9, <2>11
<1> QED BY <1>2, <1>3 DEF JobsRead, PullRead, RunRead, Proceed

LEMMA PostKeeps ==
  ASSUME CheckIInv, Post
  PROVE  CheckIInv'
<1> USE DEF CheckIInv, CheckParts, CheckBooks
<1>1. cpc = "post" /\ GiveUp /\ UNCHANGED <<recover, target, wanted>> BY DEF Post
<1>2. CASE UNCHANGED <<ghVars, autos>> BY <1>1, <1>2, GiveUpKeeps
<1>3. CASE Begin(target, Unsuccessful(target)) /\ autos' = [autos EXCEPT ![target] = @ + 1]
  <2>1. target \in Flows /\ Unsuccessful(target) \in SUBSET Names
    BY DEF ObserverTyped, Unsuccessful
  <2>2. FlowsTyped' /\ FlowsGo /\ checks' = checks
        /\ flows'[target].attempt = flows[target].attempt + 1
    BY <1>3, <2>1, BeginGoes
  <2>3. ChecksTyped' BY <2>2, ChecksRest
  <2>4. /\ cpc' = "idle" /\ total' = -1 /\ pageNo' = 1 /\ got' = NoPage
        /\ state' = "missing" /\ failedOne' = FALSE /\ green' = FALSE /\ begun' = {}
    BY <1>1 DEF GiveUp
  <2>5. failedOne' \in BOOLEAN /\ green' \in BOOLEAN BY <2>4
  <2>6. autos \in [Flows -> Nat] /\ autos[target] = 0 BY <1>1 DEF ObserverTyped, ExaminedBook
  <2>7. /\ autos' \in [Flows -> Nat] /\ autos'[target] = 1
        /\ \A w \in Flows : w # target => autos'[w] = autos[w]
    BY <1>3, <2>1, <2>6
  <2>8. ObserverTyped' BY <1>1, <2>4, <2>5, <2>7 DEF ObserverTyped, CheckStates
  <2>9. \A w \in Flows : flows[w].attempt \in Nat /\ flows'[w].attempt \in Nat
    <3>1. \A w \in Flows : flows[w] \in FlowRun /\ flows'[w] \in FlowRun
      BY <2>2 DEF FlowsTyped, FlowRun, Flows
    <3> QED BY <3>1, FlowNumbers
  <2>10. flows'[target].attempt > 1
    <3>1. flows[target].attempt >= 1 BY <1>1, <2>1, <2>9 DEF ExaminedBook
    <3> QED BY <2>1, <2>2, <2>9, <3>1
  <2>11. RetryBook' BY <2>2, <2>7, <2>9, <2>10 DEF RetryBook, FlowsGo
  <2> QED BY <2>2, <2>3, <2>4, <2>8, <2>11, RestsOrBegins
<1> QED BY <1>2, <1>3 DEF Post

-----------------------------------------------------------------------------
(* The invariant, and what it says of a step.                              *)

LEMMA CheckStarts ==
  ASSUME CheckInit
  PROVE  CheckIInv
<1> USE DEF CheckInit
<1>1. ChecksTyped BY CheckAssumption DEF ChecksTyped
<1>2. NoFlow \in FlowRun /\ NoFlow.attempt = 0 /\ NoFlow.phase = "none" /\ NoFlow.started = 0
  <2>1. 0 \in 0..MaxFlowAttempts BY CheckAssumption
  <2> QED BY <2>1 DEF NoFlow, FlowRun
<1>3. FlowsTyped BY <1>2 DEF FlowsTyped
<1>4. recover \in BOOLEAN /\ failedOne \in BOOLEAN /\ green \in BOOLEAN OBVIOUS
<1>5. target \in Flows BY CheckAssumption DEF Flows
<1>6. ObserverTyped BY <1>4, <1>5 DEF ObserverTyped, CheckStates
<1>7. DOMAIN got = {} /\ IsFiniteSet(DOMAIN got) /\ Cardinality(DOMAIN got) = 0 BY NoPageFacts
<1>8. 0 = (1 - 1) * PageSize /\ -1 \in -1..MaxChecks + NWorkflows BY CheckAssumption
<1>9. ListTyped BY <1>7, <1>8 DEF ListTyped
<1>10. RetryBook BY DEF RetryBook
<1>11. JobBook /\ FlowBook /\ BegunBook /\ GreenBook /\ ExaminedBook /\ ReplayBook
  BY DEF JobBook, FlowBook, BegunBook, GreenBook, ExaminedBook, ReplayBook
<1> QED BY <1>1, <1>3, <1>6, <1>9, <1>10, <1>11 DEF CheckIInv, CheckParts, CheckBooks

LEMMA CheckStep ==
  ASSUME CheckIInv, [CheckNext]_checkVars
  PROVE  CheckIInv'
<1>1. CASE UNCHANGED checkVars
  <2>1. UNCHANGED <<checks, flows, starts, observer, autos>> BY <1>1 DEF checkVars, ghVars, observer
  <2>2. ChecksTyped' /\ ChecksGo /\ FlowsTyped' /\ FlowsGo
    BY <2>1, ChecksRest, FlowsRest DEF CheckIInv, CheckParts
  <2> QED BY <2>1, <2>2, GitHubKeeps
<1>2. CASE GitHub BY <1>2, GitHubGoes, GitHubKeeps DEF CheckIInv
<1>3. CASE Look BY <1>3, LookKeeps
<1>4. CASE CheckPage BY <1>4, CheckPageKeeps
<1>5. CASE FlowPage BY <1>5, FlowPageKeeps
<1>6. CASE ReadFails BY <1>6, GiveUpKeeps DEF ReadFails
<1>7. CASE JobsRead \/ PullRead \/ RunRead BY <1>7, ProceedKeeps
<1>8. CASE Post BY <1>8, PostKeeps
<1> QED BY <1>1, <1>2, <1>3, <1>4, <1>5, <1>6, <1>7, <1>8 DEF CheckNext

LEMMA OneRetryHolds ==
  ASSUME CheckIInv
  PROVE  OneRetry
BY DEF CheckIInv, CheckBooks, RetryBook, OneRetry

\* A commit is accepted from a complete listing in which every run has ended.
LEMMA AcceptedRuns ==
  ASSUME CheckIInv, [CheckNext]_checkVars, AcceptsCommit
  PROVE  /\ state = "succeeded"
         /\ \E f : /\ \A w \in Listed : WasRead(f[w], w) /\ f[w].phase = "done"
<1> USE DEF CheckIInv, CheckParts, CheckBooks
<1>1. cpc = "flows" /\ cpc' = "observed" /\ state' = "succeeded" BY DEF AcceptsCommit
<1>2. FlowPage
  BY <1>1 DEF CheckNext, GitHub, FlowStarts, PersonReruns, JobsCreated, JobMoves, FlowEnds,
       FlowCancelled, ForeignCheck, observer, Look, CheckPage, GiveUp, NextPage, ReadFails,
       JobsRead, PullRead, RunRead, Proceed, Post, checkVars
<1>3. PICK b \in PageOf(Listed) :
        LET new == With(b, LAMBDA w : flows[w]) IN
        \/ (Changed(Listed) \/ Repeated(b)) /\ GiveUp
        \/ /\ ~Changed(Listed) /\ ~Repeated(b)
           /\ IF Short(b) THEN FlowsRead(new) ELSE NextPage(Listed, new)
  BY <1>2 DEF FlowPage
<1>4. PICK f : f = [w \in DOMAIN got \cup b |-> IF w \in b THEN flows[w] ELSE got[w]] OBVIOUS
<1>5. With(b, LAMBDA w : flows[w]) = f BY <1>4 DEF With
<1>6. ~GiveUp /\ ~NextPage(Listed, f) BY <1>1 DEF GiveUp, NextPage
<1>7. ~Repeated(b) /\ Short(b) /\ FlowsRead(f) BY <1>3, <1>5, <1>6
<1>8. DOMAIN f = Listed /\ \A w \in DOMAIN f : WasRead(f[w], w)
  BY <1>1, <1>4, <1>7, FlowsWereRead
<1>9. state' = IF FlowsState(f) = "succeeded" THEN state ELSE FlowsState(f)
  BY <1>1, <1>6, <1>7 DEF FlowsRead
<1>10. state = "succeeded" /\ FlowsState(f) = "succeeded" BY <1>1, <1>9
<1>11. ~Active(f)
  <2>1. FlowsState(f) \notin {"missing", "pending"} BY <1>10
  <2> QED BY <2>1, FlowsStateIs
<1>12. \A w \in Listed : f[w].phase = "done" BY <1>8, <1>11 DEF Active, workflowState
<1> QED BY <1>8, <1>10, <1>12

LEMMA AcceptsGreen ==
  ASSUME CheckIInv, [CheckNext]_checkVars, AcceptsCommit
  PROVE  /\ green
         /\ \A w \in Flows, a \in 1..MaxFlowAttempts :
              <<w, a>> \in begun => flows[w].attempt > a \/ flows[w].phase = "done"
<1> USE DEF CheckIInv, CheckParts, CheckBooks
<1>1. green BY AcceptedRuns DEF AcceptsCommit, GreenBook
<1>2. PICK f : \A w \in Listed : WasRead(f[w], w) /\ f[w].phase = "done" BY AcceptedRuns
<1>3. ASSUME NEW w \in Flows, NEW a \in 1..MaxFlowAttempts, <<w, a>> \in begun
      PROVE  flows[w].attempt > a \/ flows[w].phase = "done"
  <2>1. a <= flows[w].attempt BY <1>3 DEF BegunBook
  <2>2. flows[w].attempt \in Nat /\ a \in Nat /\ a >= 1
    BY FlowNumbers, CheckAssumption DEF FlowsTyped
  <2>3. w \in Listed BY <2>1, <2>2 DEF Listed, FlowsTyped
  <2>4. WasRead(f[w], w) /\ f[w].phase = "done" BY <1>2, <2>3
  <2>5. f[w].attempt \in Nat BY <2>4, FlowNumbers DEF WasRead
  <2>6. a <= f[w].attempt
    <3>1. <<w, a>>[1] = w /\ <<w, a>>[2] = a OBVIOUS
    <3> QED BY <1>3, <2>4, <3>1 DEF WasRead
  <2> QED BY <2>2, <2>4, <2>5, <2>6 DEF WasRead
<1> QED BY <1>1, <1>3

LEMMA RetriesOnlyExamined ==
  ASSUME CheckIInv, [CheckNext]_checkVars, autos' # autos
  PROVE  \A i \in AttemptJobs :
           /\ checks[i].job # "failure"
           /\ checks[i].name = LiveName => checks[i].job \in {"success", "cancelled"}
<1>1. Post
  BY DEF CheckNext, GitHub, FlowStarts, PersonReruns, JobsCreated, JobMoves, FlowEnds,
         FlowCancelled, ForeignCheck, Look, CheckPage, FlowPage, ReadFails, JobsRead, PullRead,
         RunRead, Proceed, checkVars
<1>2. Replayable BY <1>1 DEF Post, CheckIInv, CheckBooks, ReplayBook
<1> QED BY <1>2 DEF Replayable, NeverStarted

\* The acceptance of a commit (AcceptanceSound): in whatever order pages are read
\* while runs start, are cancelled and rerun, Observe accepts only a commit whose
\* required checks were green together and by attempts that have ended, and
\* RecoverCancelled has a run retried at most once, and replays neither a failed job
\* nor a live one that had started.
THEOREM AcceptanceIsSound == CheckSpec => AcceptanceSound
<1>1. CheckInit => CheckIInv BY CheckStarts
<1>2. CheckIInv /\ [CheckNext]_checkVars => CheckIInv' BY CheckStep
<1>3. CheckIInv => CheckTypeOK /\ OneRetry BY CheckByPart, OneRetryHolds DEF CheckIInv
<1>4. CheckIInv /\ [CheckNext]_checkVars => [AcceptsCommit => green]_checkVars BY AcceptsGreen
<1>5. CheckIInv /\ [CheckNext]_checkVars =>
        [AcceptsCommit =>
           \A w \in Flows, a \in 1..MaxFlowAttempts :
             <<w, a>> \in begun => flows[w].attempt > a \/ flows[w].phase = "done"]_checkVars
  BY AcceptsGreen
<1>6. CheckIInv /\ [CheckNext]_checkVars =>
        [autos' # autos /\ flows[target].attempt = wanted =>
           \A i \in AttemptJobs :
             /\ checks[i].job # "failure"
             /\ checks[i].name = LiveName => checks[i].job \in {"success", "cancelled"}]_checkVars
  BY RetriesOnlyExamined
<1> QED
  BY <1>1, <1>2, <1>3, <1>4, <1>5, <1>6, PTL
  DEF CheckSpec, AcceptanceSound, GreenTogether, NoInheritedGreen, LiveNotReplayed

=============================================================================
