------------------------- MODULE PurchaseRailProofs -------------------------
(***************************************************************************)
(* Theorems of the purchase of the basket.                                 *)
(*                                                                         *)
(* RebalanceController, for every set of stocks, founding basket, ceiling  *)
(* and timelock.  The bounds of the basket rest on there being one pending *)
(* change: what was checked when it was proposed still holds when it is    *)
(* applied, which is PendingNeverStuck.                                    *)
(*                                                                         *)
(* PurchaseRail, whatever the routers, the ceiling of the TTL and the      *)
(* amounts that come in: every wei is accounted for, a purchase is whole,  *)
(* a staged route is spent once and in time, and nothing is bought out of  *)
(* session.  These say what holds when a purchase succeeds, which rests on *)
(* what owners and keepers could do to routes, session and basket before.  *)
(***************************************************************************)
EXTENDS PurchaseRail, AllocationProofs

\* The inductive invariant.
BasketInv ==
  RebalanceTypeOK /\ BasketIsActiveSet /\ BasketWithinBounds /\ PendingNeverStuck

\* Setting a flag of a stock leaves a function of flags.
LEMMA StockFlagUpdate ==
  ASSUME NEW f \in [Stocks -> BOOLEAN], NEW x, NEW b \in BOOLEAN
  PROVE  [f EXCEPT ![x] = b] \in [Stocks -> BOOLEAN]
  BY Zenon

\* ... and changes that flag and no other.
LEMMA StockFlagRead ==
  ASSUME NEW f \in [Stocks -> BOOLEAN], NEW x \in Stocks, NEW b \in BOOLEAN, NEW y \in Stocks
  PROVE  [f EXCEPT ![x] = b][y] = IF y = x THEN b ELSE f[y]
  BY Zenon

\* What swap-with-last-and-pop leaves: every place but the last, with the last
\* element in the removed place.
LEMMA WithoutIndexPlaces ==
  ASSUME NEW s \in Seq(Stocks), NEW i \in DOMAIN s
  PROVE  /\ WithoutIndex(s, i) \in Seq(Stocks)
         /\ Len(WithoutIndex(s, i)) = Len(s) - 1
         /\ \A k \in 1 .. Len(s) - 1 :
              WithoutIndex(s, i)[k] = IF k = i THEN s[Len(s)] ELSE s[k]
<1> DEFINE r == [s EXCEPT ![i] = s[Len(s)]]
<1>1. r \in Seq(Stocks) /\ Len(r) = Len(s) /\ Len(s) \in Nat /\ Len(s) >= 1
  OBVIOUS
<1>2. \A k \in 1 .. Len(s) : r[k] = IF k = i THEN s[Len(s)] ELSE s[k]
  OBVIOUS
<1>3. SubSeq(r, 1, Len(s) - 1) \in Seq(Stocks)
  <2> HIDE DEF r
  <2> QED BY <1>1
<1>4. Len(SubSeq(r, 1, Len(s) - 1)) = Len(s) - 1
  <2> HIDE DEF r
  <2> QED BY <1>1
<1>5. \A k \in 1 .. Len(s) - 1 : SubSeq(r, 1, Len(s) - 1)[k] = r[k]
  <2> HIDE DEF r
  <2> QED BY <1>1
<1>6. QED
  BY <1>1, <1>2, <1>3, <1>4, <1>5 DEF WithoutIndex

\* It drops the removed stock and keeps the others, without duplicates.
LEMMA WithoutIndexHolds ==
  ASSUME NEW s \in Seq(Stocks), NEW i \in DOMAIN s,
         \A j, k \in DOMAIN s : s[j] = s[k] => j = k
  PROVE  \A r : r = WithoutIndex(s, i) =>
           /\ \A j, k \in DOMAIN r : r[j] = r[k] => j = k
           /\ \A t \in Stocks : (\E k \in DOMAIN r : r[k] = t)
                                  <=> (\E k \in DOMAIN s : s[k] = t) /\ t # s[i]
<1> SUFFICES ASSUME NEW r, r = WithoutIndex(s, i)
             PROVE  /\ \A j, k \in DOMAIN r : r[j] = r[k] => j = k
                    /\ \A t \in Stocks : (\E k \in DOMAIN r : r[k] = t)
                                           <=> (\E k \in DOMAIN s : s[k] = t) /\ t # s[i]
  OBVIOUS
<1>1. r \in Seq(Stocks) /\ Len(r) = Len(s) - 1
      /\ \A k \in 1 .. Len(s) - 1 : r[k] = IF k = i THEN s[Len(s)] ELSE s[k]
  BY WithoutIndexPlaces
<1>2. DOMAIN r = 1 .. Len(s) - 1 /\ DOMAIN s = 1 .. Len(s) /\ Len(s) \in Nat
  BY <1>1
<1>3. \A j, k \in DOMAIN r : r[j] = r[k] => j = k
  BY <1>1, <1>2
<1>4. ASSUME NEW t \in Stocks, NEW k \in DOMAIN r, r[k] = t
      PROVE  (\E j \in DOMAIN s : s[j] = t) /\ t # s[i]
  BY <1>1, <1>2, <1>4, SMTT(30)
<1>5. ASSUME NEW t \in Stocks, NEW k \in DOMAIN s, s[k] = t, t # s[i]
      PROVE  \E j \in DOMAIN r : r[j] = t
  <2>1. CASE k = Len(s)
    <3>1. i \in DOMAIN r /\ r[i] = t
      BY <2>1, <1>1, <1>2, <1>5
    <3>2. QED
      BY <3>1
  <2>2. CASE k # Len(s)
    <3>1. k \in DOMAIN r /\ r[k] = t
      BY <2>2, <1>1, <1>2, <1>5
    <3>2. QED
      BY <3>1
  <2>3. QED
    BY <2>1, <2>2
<1>6. QED
  BY <1>3, <1>4, <1>5

-----------------------------------------------------------------------------
LEMMA RebalanceInitInv == RebalanceInit => BasketInv
<1> SUFFICES ASSUME RebalanceInit PROVE BasketInv
  OBVIOUS
<1> USE DEF RebalanceInit
<1>1. isActive \in [Stocks -> BOOLEAN] /\ wasAdmitted \in [Stocks -> BOOLEAN]
  <2>1. \A t \in Stocks : Holds(t) \in BOOLEAN
    BY DEF Holds
  <2>2. QED
    BY <2>1, Zenon
<1>2. RebalanceTypeOK
  <2>1. basket \in Seq(Stocks)
    BY BasketAssumption DEF BasketAssumption
  <2>2. verified \in [Stocks -> BOOLEAN]
    BY Zenon
  <2>3. admittedAt \in [Stocks -> Nat]
    OBVIOUS
  <2>4. QED
    BY <1>1, <2>1, <2>2, <2>3 DEF RebalanceTypeOK
<1>3. BasketIsActiveSet
  <2>1. \A i, j \in DOMAIN basket : basket[i] = basket[j] => i = j
    BY BasketAssumption DEF BasketAssumption
  <2>2. \A t \in Stocks : isActive[t] <=> Holds(t)
    BY Zenon
  <2>3. \A t \in Stocks : isActive[t] => wasAdmitted[t]
    BY Zenon
  <2>4. QED
    BY <2>1, <2>2, <2>3 DEF BasketIsActiveSet
<1>4. BasketWithinBounds
  BY BasketAssumption DEF BasketAssumption, BasketWithinBounds, MinConstituents
<1>5. PendingNeverStuck
  BY DEF PendingNeverStuck, NoChange
<1>6. QED
  BY <1>2, <1>3, <1>4, <1>5 DEF BasketInv

\* Steps that leave the basket and what is pending alone.
LEMMA BasketFrame ==
  ASSUME BasketInv, UNCHANGED basketVars, clock' \in Nat, verified' \in [Stocks -> BOOLEAN]
  PROVE  BasketInv'
  BY DEF BasketInv, basketVars, RebalanceTypeOK, BasketIsActiveSet, BasketWithinBounds,
         PendingNeverStuck, Holds, MinConstituents

\* A proposal that could be applied as it is made.
LEMMA ProposalKeepsInv ==
  ASSUME BasketInv, pending' \in Additions \cup Removals, PendingNeverStuck',
         UNCHANGED <<clock, basket, isActive, wasAdmitted, admittedAt, verified>>
  PROVE  BasketInv'
  BY DEF BasketInv, RebalanceTypeOK, BasketIsActiveSet, BasketWithinBounds,
         Holds, MinConstituents

LEMMA AdditionKeepsInv ==
  ASSUME BasketInv, NEW t \in Stocks, ProposeAddition(t)
  PROVE  BasketInv'
<1>1. pending' \in Additions /\ pending'.kind = "add" /\ pending'.token = t
  BY DEF ProposeAddition, BasketInv, RebalanceTypeOK, Additions
<1>2. PendingNeverStuck'
  BY <1>1 DEF ProposeAddition, PendingNeverStuck
<1>3. QED
  BY <1>1, <1>2, ProposalKeepsInv DEF ProposeAddition

LEMMA RemovalKeepsInv ==
  ASSUME BasketInv, NEW i \in DOMAIN basket, ProposeRemoval(i)
  PROVE  BasketInv'
<1>1. i \in Nat \ {0} /\ basket[i] \in Stocks
  BY DEF BasketInv, RebalanceTypeOK
<1>2. pending' \in Removals /\ pending'.kind = "remove"
      /\ pending'.index = i /\ pending'.token = basket[i]
  BY <1>1 DEF ProposeRemoval, BasketInv, RebalanceTypeOK, Removals
<1>3. PendingNeverStuck'
  BY <1>2 DEF ProposeRemoval, PendingNeverStuck, MinConstituents
<1>4. QED
  BY <1>2, <1>3, ProposalKeepsInv DEF ProposeRemoval

LEMMA ActivationKeepsInv ==
  ASSUME BasketInv, ActivateChange
  PROVE  BasketInv'
<1> DEFINE t == pending.token
<1>0. /\ basket \in Seq(Stocks) /\ isActive \in [Stocks -> BOOLEAN]
      /\ wasAdmitted \in [Stocks -> BOOLEAN] /\ clock \in Nat
      /\ admittedAt \in [Stocks -> Nat] /\ verified \in [Stocks -> BOOLEAN]
  BY DEF BasketInv, RebalanceTypeOK
<1>1. pending \in Additions \cup Removals /\ t \in Stocks
  BY DEF BasketInv, RebalanceTypeOK, ActivateChange, Additions, Removals
<1>2. pending' = NoChange /\ clock' = clock /\ verified' = verified
  BY DEF ActivateChange
<1>3. PendingNeverStuck'
  BY <1>2 DEF PendingNeverStuck, NoChange
<1>4. /\ \A i, j \in DOMAIN basket : basket[i] = basket[j] => i = j
      /\ \A u \in Stocks : isActive[u] <=> \E k \in DOMAIN basket : basket[k] = u
      /\ \A u \in Stocks : isActive[u] => wasAdmitted[u]
  BY DEF BasketInv, BasketIsActiveSet, Holds
<1>5. CASE pending.kind = "add" /\ Admit(t)
  <2>1. ~isActive[t] /\ Len(basket) < MaxConstituents
    BY <1>5 DEF BasketInv, PendingNeverStuck, ActivateChange
  <2>2. isActive' \in [Stocks -> BOOLEAN] /\ wasAdmitted' \in [Stocks -> BOOLEAN]
    BY <1>5, <1>0, StockFlagUpdate, Zenon DEF Admit
  <2>3. \A u \in Stocks : /\ isActive'[u] = (IF u = t THEN TRUE ELSE isActive[u])
                          /\ wasAdmitted'[u] = (IF u = t THEN TRUE ELSE wasAdmitted[u])
    BY <1>5, <1>0, <1>1, StockFlagRead, Zenon DEF Admit
  <2>4. admittedAt' \in [Stocks -> Nat]
    BY <1>5, <1>0 DEF Admit
  <2>5. /\ basket' \in Seq(Stocks) /\ Len(basket') = Len(basket) + 1
        /\ basket'[Len(basket) + 1] = t
        /\ \A k \in 1 .. Len(basket) : basket'[k] = basket[k]
    BY <1>5, <1>0, <1>1 DEF Admit
  <2>6. RebalanceTypeOK'
    BY <2>2, <2>4, <2>5, <1>0, <1>2 DEF RebalanceTypeOK
  <2>7. \A i, j \in DOMAIN basket' : basket'[i] = basket'[j] => i = j
    <3>1. \A k \in 1 .. Len(basket) : basket[k] # t
      BY <2>1, <1>4, <1>0, <1>1
    <3>2. DOMAIN basket' = 1 .. Len(basket) + 1 /\ DOMAIN basket = 1 .. Len(basket)
          /\ Len(basket) \in Nat
      BY <2>5, <1>0
    <3>3. QED
      BY <3>1, <3>2, <2>5, <1>4
  <2>8. \A u \in Stocks : (\E k \in DOMAIN basket' : basket'[k] = u)
                            <=> u = t \/ (\E k \in DOMAIN basket : basket[k] = u)
    <3>1. DOMAIN basket' = (DOMAIN basket) \cup {Len(basket) + 1} /\ DOMAIN basket = 1 .. Len(basket)
      BY <2>5, <1>0
    <3>2. QED
      BY <3>1, <2>5
  <2>9. \A u \in Stocks : /\ isActive'[u] <=> \E k \in DOMAIN basket' : basket'[k] = u
                          /\ isActive'[u] => wasAdmitted'[u]
    BY <2>8, <2>3, <1>4, Zenon
  <2>10. BasketIsActiveSet'
    BY <2>7, <2>9 DEF BasketIsActiveSet, Holds
  <2>11. BasketWithinBounds'
    BY <2>1, <2>5, <1>0, BasketAssumption DEF BasketInv, BasketWithinBounds, MinConstituents,
       BasketAssumption
  <2>12. QED
    BY <2>6, <2>10, <2>11, <1>3 DEF BasketInv
<1>6. CASE pending.kind = "remove" /\ Remove(pending.index, t)
  <2> DEFINE i == pending.index
  <2>1. i \in DOMAIN basket /\ basket[i] = t /\ Len(basket) > MinConstituents
    BY <1>6 DEF BasketInv, PendingNeverStuck, ActivateChange
  <2>2. isActive' \in [Stocks -> BOOLEAN] /\ wasAdmitted' = wasAdmitted /\ admittedAt' = admittedAt
    BY <1>6, <1>0, StockFlagUpdate, Zenon DEF Remove
  <2>3. \A u \in Stocks : isActive'[u] = IF u = t THEN FALSE ELSE isActive[u]
    BY <1>6, <1>0, <1>1, StockFlagRead, Zenon DEF Remove
  <2>4. basket' = WithoutIndex(basket, i)
    BY <1>6 DEF Remove
  <2>5. basket' \in Seq(Stocks) /\ Len(basket') = Len(basket) - 1
    BY <2>1, <2>4, <1>0, WithoutIndexPlaces
  <2>6. RebalanceTypeOK'
    BY <2>2, <2>5, <1>0, <1>2 DEF RebalanceTypeOK
  <2>7. /\ \A j, k \in DOMAIN basket' : basket'[j] = basket'[k] => j = k
        /\ \A u \in Stocks : (\E k \in DOMAIN basket' : basket'[k] = u)
                               <=> (\E k \in DOMAIN basket : basket[k] = u) /\ u # t
    <3>1. \A j, k \in DOMAIN basket : basket[j] = basket[k] => j = k
      BY <1>4
    <3>2. \A r : r = WithoutIndex(basket, i) =>
            /\ \A j, k \in DOMAIN r : r[j] = r[k] => j = k
            /\ \A u \in Stocks : (\E k \in DOMAIN r : r[k] = u)
                                   <=> (\E k \in DOMAIN basket : basket[k] = u) /\ u # basket[i]
      <4> HIDE DEF i
      <4> QED BY ONLY <2>1, <1>0, <3>1, WithoutIndexHolds, Zenon
    <3>3. /\ \A j, k \in DOMAIN basket' : basket'[j] = basket'[k] => j = k
          /\ \A u \in Stocks : (\E k \in DOMAIN basket' : basket'[k] = u)
                                 <=> (\E k \in DOMAIN basket : basket[k] = u) /\ u # basket[i]
      <4> HIDE DEF i
      <4> QED BY ONLY <2>4, <3>2
    <3>4. basket[i] = t
      BY <2>1
    <3>5. QED
      BY ONLY <3>3, <3>4, Zenon
  <2>8. \A u \in Stocks : /\ isActive'[u] <=> \E k \in DOMAIN basket' : basket'[k] = u
                          /\ isActive'[u] => wasAdmitted'[u]
    BY <2>7, <2>2, <2>3, <1>4, Zenon
  <2>9. BasketIsActiveSet'
    BY <2>7, <2>8 DEF BasketIsActiveSet, Holds
  <2>10. BasketWithinBounds'
    BY <2>1, <2>5, <1>0, BasketAssumption, SMTT(30) DEF BasketInv, BasketWithinBounds, MinConstituents,
       BasketAssumption
  <2>11. QED
    BY <2>6, <2>9, <2>10, <1>3 DEF BasketInv
<1>7. QED
  BY <1>5, <1>6 DEF ActivateChange

LEMMA RebalanceNextInv == BasketInv /\ [RebalanceNext]_rebalanceVars => BasketInv'
<1> SUFFICES ASSUME BasketInv, [RebalanceNext]_rebalanceVars PROVE BasketInv'
  OBVIOUS
<1>0. clock \in Nat /\ verified \in [Stocks -> BOOLEAN]
  BY DEF BasketInv, RebalanceTypeOK
<1>1. ASSUME NEW t \in Stocks, ProposeAddition(t) PROVE BasketInv'
  BY <1>1, AdditionKeepsInv
<1>2. ASSUME NEW i \in DOMAIN basket, ProposeRemoval(i) PROVE BasketInv'
  BY <1>2, RemovalKeepsInv
<1>3. CASE ActivateChange
  BY <1>3, ActivationKeepsInv
<1>4. ASSUME NEW t \in Stocks, VerdictChanges(t) PROVE BasketInv'
  <2>1. verified' \in [Stocks -> BOOLEAN]
    BY <1>4, <1>0, Zenon DEF VerdictChanges
  <2>2. QED
    BY <1>4, <1>0, <2>1, BasketFrame DEF VerdictChanges
<1>5. CASE ClockTicks
  BY <1>5, <1>0, BasketFrame DEF ClockTicks
<1>6. CASE UNCHANGED rebalanceVars
  BY <1>6, <1>0, BasketFrame DEF rebalanceVars
<1>7. QED
  BY <1>1, <1>2, <1>3, <1>4, <1>5, <1>6 DEF RebalanceNext, Governance

LEMMA RebalanceInvariant == RebalanceSpec => []BasketInv
  BY RebalanceInitInv, RebalanceNextInv, PTL DEF RebalanceSpec

\* The bought array and the activity flags agree and hold no duplicates, for
\* any rotation of any length (RebalanceController.sol:135-160).
THEOREM BasketAgrees == RebalanceSpec => []BasketIsActiveSet
<1>1. BasketInv => BasketIsActiveSet
  BY DEF BasketInv
<1>2. QED
  BY RebalanceInvariant, <1>1, PTL

\* The floor and the ceiling hold when changes are applied, not only when they
\* are proposed (D033).
THEOREM BasketStaysWithinBounds == RebalanceSpec => []BasketWithinBounds
<1>1. BasketInv => BasketWithinBounds
  BY DEF BasketInv
<1>2. QED
  BY RebalanceInvariant, <1>1, PTL

\* No pending change is ever impossible to apply, so rotation never locks up.
THEOREM PendingIsApplicable == RebalanceSpec => []PendingNeverStuck
<1>1. BasketInv => PendingNeverStuck
  BY DEF BasketInv
<1>2. QED
  BY RebalanceInvariant, <1>1, PTL

\* Only a change that waited out the timelock alters the basket, by one stock.
THEOREM RotationIsTimelocked == RebalanceSpec => OnlyTimelockedRotation
<1> DEFINE Step == basket' # basket =>
       /\ pending # NoChange /\ clock - pending.submittedAt >= TimelockDelay
       /\ \A t \in Stocks : t # pending.token => (isActive'[t] <=> isActive[t])
       /\ isActive'[pending.token] # isActive[pending.token]
<1>1. BasketInv /\ [RebalanceNext]_rebalanceVars => [Step]_rebalanceVars
  <2> SUFFICES ASSUME BasketInv, RebalanceNext, basket' # basket PROVE Step
    OBVIOUS
  <2>1. ActivateChange
    BY DEF RebalanceNext, Governance, ProposeAddition, ProposeRemoval, VerdictChanges,
           ClockTicks, basketVars
  <2>2. /\ isActive \in [Stocks -> BOOLEAN] /\ clock \in Nat /\ TimelockDelay \in Nat
        /\ pending.submittedAt \in Nat /\ pending.token \in Stocks
        /\ pending.kind \in {"add", "remove"}
    BY <2>1, BasketAssumption DEF BasketInv, RebalanceTypeOK, ActivateChange, Additions,
       Removals, BasketAssumption
  <2>3. pending # NoChange /\ clock - pending.submittedAt >= TimelockDelay
    BY <2>1, <2>2 DEF ActivateChange, Ripe
  <2>4. CASE pending.kind = "add"
    <3>1. isActive' = [isActive EXCEPT ![pending.token] = TRUE] /\ ~isActive[pending.token]
      BY <2>1, <2>4 DEF ActivateChange, Admit, BasketInv, PendingNeverStuck
    <3>2. QED
      BY <3>1, <2>2, <2>3, StockFlagRead, Zenon
  <2>5. CASE pending.kind = "remove"
    <3>1. /\ isActive' = [isActive EXCEPT ![pending.token] = FALSE]
          /\ \E k \in DOMAIN basket : basket[k] = pending.token
      BY <2>1, <2>5 DEF ActivateChange, Remove
    <3>2. isActive[pending.token]
      BY <3>1, <2>2 DEF BasketInv, BasketIsActiveSet, Holds
    <3>3. QED
      BY <3>1, <3>2, <2>2, <2>3, StockFlagRead, Zenon
  <2>6. QED
    BY <2>2, <2>4, <2>5
<1>2. QED
  BY RebalanceInvariant, <1>1, PTL DEF RebalanceSpec, OnlyTimelockedRotation

-----------------------------------------------------------------------------
(* The weights. *)

\* Up to place k the weights are k times the quotient and, for the first ones,
\* a point more each.
LEMMA WeightsUpTo ==
  ASSUME NEW n \in Nat \ {0}, NEW q \in Nat, NEW r \in 0 .. n - 1, NEW f,
         f = [i \in 1 .. n |-> q + (IF i <= r THEN 1 ELSE 0)]
  PROVE  SumOf(f) = n * q + r
<1> DEFINE Top(k) == k * q + (IF k <= r THEN k ELSE r)
           P == {k \in Nat : k <= n => SumOn(f, 1 .. k) = Top(k)}
<1>1. 0 \in P
  <2>1. 1 .. 0 = {} /\ 0 * q = 0
    OBVIOUS
  <2>2. QED
    BY <2>1, SumOnEmpty
<1>2. ASSUME NEW k \in Nat, k \in P PROVE k + 1 \in P
  <2>1. SUFFICES ASSUME k + 1 <= n PROVE SumOn(f, 1 .. k + 1) = Top(k + 1)
    OBVIOUS
  <2>2. 1 .. k + 1 = (1 .. k) \cup {k + 1} /\ k + 1 \notin 1 .. k
    OBVIOUS
  <2>3. IsFiniteSet(1 .. k)
    BY FS_Interval
  <2>4. Integral(f, (1 .. k) \cup {k + 1}) /\ f[k + 1] = q + (IF k + 1 <= r THEN 1 ELSE 0)
    BY <2>1 DEF Integral
  <2>5. SumOn(f, (1 .. k) \cup {k + 1}) = SumOn(f, 1 .. k) + f[k + 1]
    BY <2>2, <2>3, <2>4, SumGrows, SMTT(30)
  <2>6. SumOn(f, 1 .. k) = Top(k)
    BY <1>2, <2>1
  <2>7. (k + 1) * q = k * q + q /\ k * q \in Nat
    BY ProductIsNat
  <2>8. Top(k + 1) = Top(k) + f[k + 1]
    <3>1. CASE k + 1 <= r
      BY <2>4, <2>7, <3>1
    <3>2. CASE ~(k + 1 <= r)
      <4>1. f[k + 1] = q
        BY <2>4, <3>2
      <4>2. (IF k <= r THEN k ELSE r) = r /\ (IF k + 1 <= r THEN k + 1 ELSE r) = r
        BY <3>2
      <4>3. QED
        BY <2>7, <4>1, <4>2
    <3>3. QED
      BY <3>1, <3>2
  <2>9. QED
    BY <2>2, <2>5, <2>6, <2>8
<1>3. Nat \subseteq P
  <2> HIDE DEF P
  <2>1. QED
    BY <1>1, <1>2, Inductive
<1>4. SumOn(f, 1 .. n) = n * q + r
  <2>1. SumOn(f, 1 .. n) = Top(n)
    BY <1>3
  <2>2. QED
    BY <2>1
<1>5. QED
  BY <1>4, SumOfOn

LEMMA WeightsAddUp ==
  ASSUME BasketInv
  PROVE  /\ DOMAIN basket = 1 .. Len(basket) /\ Len(basket) \in Nat
         /\ Weights \in [1 .. Len(basket) -> Nat]
         /\ SumOf(Weights) = TargetTotalBps
<1> DEFINE n == Len(basket)
           q == TargetTotalBps \div n
           r == TargetTotalBps % n
<1>1. n \in Nat \ {0} /\ DOMAIN basket = 1 .. n
  BY BasketAssumption
  DEF BasketAssumption, BasketInv, RebalanceTypeOK, BasketWithinBounds, MinConstituents
<1>2. q \in Nat /\ r \in 0 .. n - 1 /\ TargetTotalBps = n * q + r
  <2>1. TargetTotalBps \in Nat
    BY DEF TargetTotalBps
  <2>2. QED
    BY <1>1, <2>1, Division
<1>3. Weights = [i \in 1 .. n |-> q + (IF i <= r THEN 1 ELSE 0)]
  BY <1>1 DEF Weights
<1> HIDE DEF n, q, r
<1>4. SumOf(Weights) = n * q + r
  BY <1>1, <1>2, <1>3, WeightsUpTo
<1>5. Weights \in [1 .. n -> Nat]
  BY <1>2, <1>3
<1>6. QED
  BY <1>1, <1>2, <1>4, <1>5 DEF n

\* Weights of every basket the rotation reaches sum to 10,000 bps, and no two
\* differ by more than one (RebalanceController.sol:92-102).
THEOREM WeightsStayWhole == RebalanceSpec => []WeightsAreWhole
<1>1. BasketInv => WeightsAreWhole
  <2> SUFFICES ASSUME BasketInv PROVE WeightsAreWhole
    OBVIOUS
  <2>1. FoldFunction(+, 0, Weights) = TargetTotalBps
    BY WeightsAddUp DEF SumOf
  <2>2. ASSUME NEW i \in DOMAIN basket, NEW j \in DOMAIN basket
        PROVE  Weights[i] - Weights[j] \in -1 .. 1
    <3> DEFINE q == TargetTotalBps \div Len(basket)
    <3>1. Weights[i] \in Nat
      BY WeightsAddUp
    <3>2. /\ Weights[i] = q + (IF i <= TargetTotalBps % Len(basket) THEN 1 ELSE 0)
          /\ Weights[j] = q + (IF j <= TargetTotalBps % Len(basket) THEN 1 ELSE 0)
      BY DEF Weights
    <3>3. q \in Nat
      <4>1. Len(basket) \in Nat \ {0}
        BY WeightsAddUp
      <4>2. TargetTotalBps \in Nat
        BY DEF TargetTotalBps
      <4>3. QED
        BY <4>1, <4>2, Division
    <3> HIDE DEF q
    <3>4. QED
      BY <3>2, <3>3
  <2>3. QED
    BY <2>1, <2>2 DEF WeightsAreWhole
<1>2. QED
  BY RebalanceInvariant, <1>1, PTL

-----------------------------------------------------------------------------
(* The rail over the rotating basket. *)

\* The inductive invariant: the basket's and the types of the rail.
RailInv == BasketInv /\ PurchaseTypeOK

\* The deployed rail.
LEMMA RailInitInv == PurchaseInit => RailInv
<1> SUFFICES ASSUME PurchaseInit PROVE RailInv
  OBVIOUS
<1>1. BasketInv /\ RebalanceTypeOK
  BY RebalanceInitInv DEF PurchaseInit, BasketInv
<1>2. clock = 1 /\ 0 \in Thresholds /\ MaxTtl \in Nat \ {0}
  BY PurchaseAssumption DEF PurchaseInit, RebalanceInit, PurchaseAssumption
<1>3. 1 \in 1 .. MaxTtl /\ 0 \in 0 .. clock
  BY <1>2
<1>4. /\ staged \in [Stocks -> Routes \cup {NoRoute}] /\ bought \in [Stocks -> Nat]
      /\ routerAllowed \in [Routers -> BOOLEAN]
  BY DEF PurchaseInit
<1>5. QED
  BY <1>1, <1>2, <1>3, <1>4 DEF RailInv, PurchaseInit, PurchaseTypeOK

\* What the rail does to the basket is a step of the controller or none.
LEMMA RailStepsRebalance ==
  ASSUME [PurchaseNext]_purchaseVars
  PROVE  [RebalanceNext]_rebalanceVars
<1>1. CASE Collecting
  BY <1>1 DEF Collecting, DepositFees, ForceEth, WrapDust, Donate, SetMinSweepAmount,
     SetSweepsPaused, NotCollector, rebalanceVars
<1>2. CASE Operating
  BY <1>2 DEF Operating, SetSessionTtl, SetMarketOpen, SetRouterAllowed, StageRoute,
     SetAdapter, NotGuard, NotAdapter, rebalanceVars
<1>3. CASE Sweep \/ PurchaseBasket
  BY <1>3 DEF Sweep, PurchaseBasket, Purchase, rebalanceVars
<1>4. CASE Rotate
  BY <1>4 DEF Rotate, RebalanceNext, Governance
<1>5. CASE ClockTicks /\ UNCHANGED railVars
  BY <1>5 DEF RebalanceNext
<1>6. CASE UNCHANGED purchaseVars
  BY <1>6 DEF purchaseVars
<1>7. QED
  BY <1>1, <1>2, <1>3, <1>4, <1>5, <1>6 DEF PurchaseNext

\* The collector buys nothing and leaves routes and session alone.
LEMMA CollectingKeepsTypes ==
  ASSUME PurchaseTypeOK, RebalanceTypeOK', Collecting
  PROVE  PurchaseTypeOK' /\ UNCHANGED bought
<1>0. MaxInflow \in Nat /\ Thresholds \subseteq Nat
  BY PurchaseAssumption DEF PurchaseAssumption
<1>1. CASE \E amount \in 1 .. MaxInflow : DepositFees(amount)
  BY <1>0, <1>1 DEF DepositFees, Wrap, NotCollector, PurchaseTypeOK,
     rebalanceVars, guardVars, adapterVars
<1>2. CASE ForceEth
  BY <1>2 DEF ForceEth, NotCollector, PurchaseTypeOK, rebalanceVars, guardVars, adapterVars
<1>3. CASE WrapDust
  BY <1>3 DEF WrapDust, Wrap, NotCollector, PurchaseTypeOK,
     rebalanceVars, guardVars, adapterVars
<1>4. CASE Donate
  BY <1>4 DEF Donate, PurchaseTypeOK, rebalanceVars, guardVars, adapterVars
<1>5. CASE \E amount \in Thresholds : SetMinSweepAmount(amount)
  BY <1>5 DEF SetMinSweepAmount, NotCollector, PurchaseTypeOK,
     rebalanceVars, guardVars, adapterVars
<1>6. CASE \E paused \in BOOLEAN : SetSweepsPaused(paused)
  BY <1>6 DEF SetSweepsPaused, NotCollector, PurchaseTypeOK,
     rebalanceVars, guardVars, adapterVars
<1>7. QED
  BY <1>1, <1>2, <1>3, <1>4, <1>5, <1>6 DEF Collecting

\* Owners and keepers set session, routers and routes, within their bounds.
LEMMA OperatingKeepsTypes ==
  ASSUME PurchaseTypeOK, RebalanceTypeOK', Operating
  PROVE  PurchaseTypeOK' /\ UNCHANGED bought
<1>0. /\ MaxInflow \in Nat /\ MaxTtl \in Nat \ {0}
      /\ Quotes \subseteq Nat /\ Deadlines \subseteq Nat
      /\ clock \in Nat /\ sessionOpenedAt \in 0 .. clock
  BY PurchaseAssumption DEF PurchaseAssumption, PurchaseTypeOK, RebalanceTypeOK
<1>1. CASE \E ttl \in 0 .. MaxTtl + 1 : SetSessionTtl(ttl)
  BY <1>0, <1>1 DEF SetSessionTtl, NotGuard, PurchaseTypeOK,
     rebalanceVars, collectorVars, adapterVars
<1>2. CASE \E open \in BOOLEAN : SetMarketOpen(open)
  BY <1>0, <1>2 DEF SetMarketOpen, NotGuard, PurchaseTypeOK,
     rebalanceVars, collectorVars, adapterVars
<1>3. ASSUME NEW r \in Routers, NEW allowed \in BOOLEAN, SetRouterAllowed(r, allowed)
      PROVE  PurchaseTypeOK' /\ UNCHANGED bought
  <2>1. routerAllowed' \in [Routers -> BOOLEAN]
    BY <1>3, Zenon DEF SetRouterAllowed, PurchaseTypeOK
  <2>2. QED
    BY <1>3, <2>1 DEF SetRouterAllowed, NotAdapter, PurchaseTypeOK,
       rebalanceVars, collectorVars, guardVars
<1>4. ASSUME NEW t \in Stocks, NEW route \in QuotedRoutes, StageRoute(t, route)
      PROVE  PurchaseTypeOK' /\ UNCHANGED bought
  <2>1. route \in Routes
    BY <1>0 DEF Routes, QuotedRoutes
  <2>2. staged' \in [Stocks -> Routes \cup {NoRoute}]
    BY <1>4, <2>1, Zenon DEF StageRoute, PurchaseTypeOK
  <2>3. QED
    BY <1>4, <2>2 DEF StageRoute, NotAdapter, PurchaseTypeOK,
       rebalanceVars, collectorVars, guardVars
<1>5. ASSUME NEW adapter \in ShelvedAdapters, NEW weth \in 0 .. retired,
             SetAdapter(adapter, weth)
      PROVE  PurchaseTypeOK' /\ UNCHANGED bought
  <2>1. /\ adapter.staged \in [Stocks -> Routes \cup {NoRoute}]
        /\ adapter.routerAllowed \in [Routers -> BOOLEAN]
    BY PurchaseAssumption DEF PurchaseAssumption, Routes
  <2>2. weth \in Nat /\ retired + adapterWeth - weth \in Nat
    BY <1>5 DEF PurchaseTypeOK
  <2>3. /\ staged' \in [Stocks -> Routes \cup {NoRoute}]
        /\ routerAllowed' \in [Routers -> BOOLEAN]
        /\ adapterWeth' \in Nat /\ retired' \in Nat
    BY <1>5, <2>1, <2>2, Zenon DEF SetAdapter
  <2>4. QED
    BY <1>5, <2>3 DEF SetAdapter, NotAdapter, PurchaseTypeOK,
       rebalanceVars, collectorVars, guardVars
<1>6. QED
  BY <1>1, <1>2, <1>3, <1>4, <1>5 DEF Operating

\* What a purchase does to a stock of the basket, and to the others.
LEMMA PurchaseSpendsRoutes ==
  ASSUME PurchaseTypeOK, NEW amount, Purchase(amount), NEW t \in Stocks
  PROVE  /\ Holds(t) => /\ staged[t] \in Routes /\ staged[t] # NoRoute
                        /\ staged'[t] = NoRoute
                        /\ bought'[t] = bought[t] + staged[t].weth
                        /\ clock <= staged[t].deadline
                        /\ routerAllowed[staged[t].router]
         /\ ~Holds(t) => bought'[t] = bought[t] /\ staged'[t] = staged[t]
<1>1. CASE Holds(t)
  <2>1. PICK i \in DOMAIN basket : basket[i] = t
    BY <1>1 DEF Holds
  <2>2. CanSwap(t, BuyerSplit(amount, Weights, TargetTotalBps)[i])
    BY <2>1 DEF Purchase
  <2>3. staged[t] \in Routes /\ staged[t] # NoRoute
    BY <2>2 DEF CanSwap, PurchaseTypeOK
  <2>4. bought'[t] = bought[t] + staged[t].weth /\ staged'[t] = NoRoute
    BY <1>1 DEF Purchase
  <2>5. QED
    BY <1>1, <2>2, <2>3, <2>4 DEF CanSwap
<1>2. CASE ~Holds(t)
  BY <1>2 DEF Purchase, PurchaseTypeOK
<1>3. QED
  BY <1>1, <1>2

LEMMA PurchaseKeepsTypes ==
  ASSUME PurchaseTypeOK, RebalanceTypeOK', NEW amount, Purchase(amount),
         UNCHANGED <<strayEth, lifetimeEthReceived, minSweepAmount, sweepsPaused>>,
         collectorWeth' \in Nat
  PROVE  PurchaseTypeOK'
<1>1. \A t \in Stocks : staged'[t] \in Routes \cup {NoRoute} /\ bought'[t] \in Nat
  BY PurchaseSpendsRoutes DEF PurchaseTypeOK, Routes
<1>2. staged' = [t \in Stocks |-> staged'[t]] /\ bought' = [t \in Stocks |-> bought'[t]]
  BY DEF Purchase
<1>3. staged' \in [Stocks -> Routes \cup {NoRoute}] /\ bought' \in [Stocks -> Nat]
  BY <1>1, <1>2
<1>4. buyerWeth' \in Nat /\ adapterWeth' \in Nat
  BY DEF Purchase
<1>5. QED
  BY <1>3, <1>4 DEF Purchase, PurchaseTypeOK, guardVars, rebalanceVars

\* A purchase leaves nothing over: each route pulls at most its share, all
\* shares make the amount and so do all pulls, so every pull is its share.
LEMMA PurchasePullsShares ==
  ASSUME RailInv, NEW amount \in Nat, Purchase(amount)
  PROVE  /\ adapterWeth = 0 /\ adapterWeth' = 0 /\ buyerWeth' = 0
         /\ IsExactSplit(BuyerSplit(amount, Weights, TargetTotalBps), amount,
                         Weights, TargetTotalBps)
         /\ BuyerSplit(amount, Weights, TargetTotalBps)
              = [i \in DOMAIN basket |-> staged[basket[i]].weth]
<1> DEFINE I == DOMAIN basket
           spend == BuyerSplit(amount, Weights, TargetTotalBps)
           pulled == [i \in I |-> staged[basket[i]].weth]
<1>1. /\ I = 1 .. Len(basket) /\ Len(basket) \in Nat /\ IsFiniteSet(I)
      /\ Weights \in [I -> Nat] /\ SumOf(Weights) = TargetTotalBps /\ TargetTotalBps > 0
  BY WeightsAddUp, FS_Interval DEF RailInv, TargetTotalBps
<1>2. /\ spend \in [I -> Nat]
      /\ IsExactSplit(spend, amount, Weights, TargetTotalBps)
  BY <1>1, SplitsAreExact
<1>3. \A i \in I : CanSwap(basket[i], spend[i])
  BY DEF Purchase
<1>4. pulled \in [I -> Nat] /\ \A i \in I : pulled[i] <= spend[i]
  <2>1. \A i \in I : staged[basket[i]].weth \in Nat
    <3>1. basket \in Seq(Stocks) /\ staged \in [Stocks -> Routes \cup {NoRoute}]
      BY DEF RailInv, PurchaseTypeOK, RebalanceTypeOK
    <3>2. QED
      BY <1>1, <1>3, <3>1 DEF CanSwap, Routes
  <2>2. QED
    BY <1>3, <2>1 DEF CanSwap
<1>5. SumOf(pulled) = amount + adapterWeth /\ buyerWeth' = 0 /\ adapterWeth' = 0
  <2>1. SumOf(pulled) \in Nat
    BY <1>1, <1>4, SumIsNat, SumOfOn
  <2>2. adapterWeth \in Nat /\ amount + adapterWeth - SumOf(pulled) = 0
    BY DEF RailInv, PurchaseTypeOK, Purchase, Leftover
  <2>3. QED
    BY <2>1, <2>2 DEF Purchase
<1>6. SumOf(spend) = amount
  BY <1>2 DEF IsExactSplit
<1>7. adapterWeth \in Nat
  BY DEF RailInv, PurchaseTypeOK
<1> HIDE DEF spend, pulled, I
<1>8. /\ SumOn(spend, I) = SumOf(spend) /\ SumOn(pulled, I) = SumOf(pulled)
      /\ Integral(spend, I) /\ Integral(pulled, I)
  BY <1>2, <1>4, SumOfOn DEF Integral
<1>9. /\ SumOn(pulled, I) <= SumOn(spend, I)
      /\ SumOn(pulled, I) = SumOn(spend, I) => \A i \in I : pulled[i] = spend[i]
  BY <1>1, <1>4, <1>8, SumIsMonotone
<1>10. adapterWeth = 0 /\ \A i \in I : pulled[i] = spend[i]
  BY <1>5, <1>6, <1>7, <1>8, <1>9
<1>11. spend = pulled
  BY <1>2, <1>4, <1>10
<1>12. QED
  BY <1>2, <1>5, <1>10, <1>11 DEF spend, pulled, I

\* All of it goes to the stocks.
LEMMA PurchaseSpendsAll ==
  ASSUME RailInv, NEW amount \in Nat, Purchase(amount)
  PROVE  SumOf(bought') = SumOf(bought) + amount /\ SumOf(bought) \in Nat
<1> DEFINE I == DOMAIN basket
           pulled == [i \in I |-> staged[basket[i]].weth]
           paid == [t \in Stocks |-> IF Holds(t) THEN staged[t].weth ELSE 0]
<1>1. /\ IsFiniteSet(Stocks) /\ IsFiniteSet(I) /\ basket \in [I -> Stocks]
      /\ \A i, j \in I : basket[i] = basket[j] => i = j
  <2>1. basket \in Seq(Stocks) /\ \A i, j \in I : basket[i] = basket[j] => i = j
    BY DEF RailInv, BasketInv, RebalanceTypeOK, BasketIsActiveSet
  <2>2. IsFiniteSet(Stocks) /\ IsFiniteSet(I)
    BY <2>1, PurchaseAssumption, FS_Interval DEF PurchaseAssumption
  <2>3. QED
    BY <2>1, <2>2
<1>2. bought \in [Stocks -> Nat] /\ \A t \in Stocks : paid[t] \in Nat
  BY PurchaseSpendsRoutes DEF RailInv, PurchaseTypeOK, Routes
<1>3. bought' = [t \in Stocks |-> bought[t] + paid[t]]
  BY DEF Purchase
<1>4. SumOf(pulled) = amount
  BY PurchasePullsShares DEF IsExactSplit
<1>5. /\ \A t \in Stocks : (\A i \in I : basket[i] # t) => paid[t] = 0
      /\ \A i \in I : staged[basket[i]].weth = paid[basket[i]]
  BY <1>1 DEF Holds
<1>6. pulled = [i \in I |-> paid[basket[i]]]
  BY <1>5
<1> HIDE DEF paid, I
<1>7. Integral(paid, Stocks) /\ Integral(bought, Stocks)
  BY <1>2 DEF Integral
<1>8. SumOn([i \in I |-> paid[basket[i]]], I) = SumOn(paid, Stocks)
  BY <1>1, <1>5, <1>7, SumReindexed
<1>9. SumOn(paid, Stocks) = amount
  BY <1>4, <1>6, <1>8, SumOfOn
<1>10. \A c \in Int : (\A t \in Stocks : bought'[t] = bought[t] + c * paid[t])
                        => SumOn(bought', Stocks) = SumOn(bought, Stocks) + c * SumOn(paid, Stocks)
  BY <1>1, <1>7, SumIsLinear
<1>11. \A t \in Stocks : bought'[t] = bought[t] + 1 * paid[t]
  BY <1>2, <1>3
<1>12. SumOn(bought', Stocks) = SumOn(bought, Stocks) + 1 * SumOn(paid, Stocks)
  BY <1>10, <1>11
<1>13. SumOf(bought') = SumOn(bought', Stocks) /\ SumOf(bought) = SumOn(bought, Stocks)
  BY <1>2, <1>3, SumOfOn
<1>14. SumOf(bought) \in Nat
  BY <1>1, <1>2, <1>13, SumIsNat
<1>15. QED
  BY <1>9, <1>12, <1>13, <1>14

\* Both ways to buy are a purchase, and they leave the rest of the collector.
LEMMA BuyingIsPurchase ==
  ASSUME PurchaseTypeOK, Sweep \/ PurchaseBasket
  PROVE  /\ \E amount \in Nat : Purchase(amount)
         /\ UNCHANGED <<strayEth, lifetimeEthReceived, minSweepAmount, sweepsPaused>>
         /\ collectorWeth' \in Nat
  BY DEF Sweep, PurchaseBasket, collectorVars, PurchaseTypeOK

\* The rest of the world: rotation and time.
LEMMA ElseKeepsTypes ==
  ASSUME PurchaseTypeOK, RebalanceTypeOK', UNCHANGED railVars, clock' \in Nat, clock' >= clock
  PROVE  PurchaseTypeOK' /\ UNCHANGED bought
<1>1. clock \in Nat /\ sessionOpenedAt \in 0 .. clock
  BY DEF PurchaseTypeOK, RebalanceTypeOK
<1>2. sessionOpenedAt' \in 0 .. clock'
  BY <1>1 DEF railVars, guardVars
<1>3. QED
  BY <1>2 DEF PurchaseTypeOK, railVars, collectorVars, guardVars, adapterVars

\* A step keeps the invariant and buys only by a purchase.
LEMMA RailStep ==
  ASSUME RailInv, [PurchaseNext]_purchaseVars
  PROVE  RailInv' /\ (bought' # bought => \E amount \in Nat : Purchase(amount))
<1>1. BasketInv' /\ RebalanceTypeOK' /\ PurchaseTypeOK
  BY RailStepsRebalance, RebalanceNextInv DEF RailInv, BasketInv
<1>2. CASE Collecting
  BY <1>1, <1>2, CollectingKeepsTypes DEF RailInv
<1>3. CASE Operating
  BY <1>1, <1>3, OperatingKeepsTypes DEF RailInv
<1>4. CASE Sweep \/ PurchaseBasket
  BY <1>1, <1>4, BuyingIsPurchase, PurchaseKeepsTypes DEF RailInv
<1>5. clock \in Nat
  BY <1>1 DEF PurchaseTypeOK, RebalanceTypeOK
<1>6. CASE Rotate
  <2>1. clock' = clock /\ UNCHANGED railVars
    BY <1>6 DEF Rotate, ProposeAddition, ProposeRemoval, ActivateChange
  <2>2. QED
    BY <1>1, <1>5, <2>1, ElseKeepsTypes DEF RailInv
<1>7. CASE ClockTicks /\ UNCHANGED railVars
  BY <1>1, <1>5, <1>7, ElseKeepsTypes DEF RailInv, ClockTicks
<1>8. CASE UNCHANGED purchaseVars
  BY <1>1, <1>5, <1>8, ElseKeepsTypes DEF RailInv, purchaseVars, rebalanceVars
<1>9. QED
  BY <1>2, <1>3, <1>4, <1>6, <1>7, <1>8 DEF PurchaseNext

LEMMA RailInvariant == PurchaseSpec => []RailInv
<1>1. RailInv /\ [PurchaseNext]_purchaseVars => RailInv'
  BY RailStep
<1>2. QED
  BY RailInitInv, <1>1, PTL DEF PurchaseSpec

\* Every behaviour of the rail is, for the basket, one of the controller, so
\* its theorems hold while fees are swept and spent: no purchase meets a
\* basket out of bounds or one stuck half-way through a rotation.
THEOREM RailKeepsBasket == PurchaseSpec => RebalanceSpec
<1>1. PurchaseInit => RebalanceInit
  BY DEF PurchaseInit
<1>2. [PurchaseNext]_purchaseVars => [RebalanceNext]_rebalanceVars
  BY RailStepsRebalance
<1>3. QED
  BY <1>1, <1>2, PTL DEF PurchaseSpec, RebalanceSpec

\* The session never outlasts its ceiling, the amounts stay amounts and the
\* staged routes routes, whatever is swept, donated, replaced or rotated.
THEOREM RailTypeCorrect == PurchaseSpec => []PurchaseTypeOK
<1>1. RailInv => PurchaseTypeOK
  BY DEF RailInv
<1>2. QED
  BY RailInvariant, <1>1, PTL

\* A staged route is spent by one purchase, in full, in time and over a router
\* that is still allowed (RouteAdapter.sol:110-137).
THEOREM RoutesServeOnce == PurchaseSpec => RouteServesOnce
<1> DEFINE Step ==
      \A t \in Stocks : bought'[t] # bought[t] =>
        /\ staged[t] # NoRoute /\ staged'[t] = NoRoute
        /\ bought'[t] - bought[t] = staged[t].weth
        /\ clock <= staged[t].deadline /\ routerAllowed[staged[t].router]
<1>1. RailInv /\ [PurchaseNext]_purchaseVars => [Step]_purchaseVars
  <2> SUFFICES ASSUME RailInv, [PurchaseNext]_purchaseVars,
                      NEW t \in Stocks, bought'[t] # bought[t]
               PROVE  /\ staged[t] # NoRoute /\ staged'[t] = NoRoute
                      /\ bought'[t] - bought[t] = staged[t].weth
                      /\ clock <= staged[t].deadline /\ routerAllowed[staged[t].router]
    OBVIOUS
  <2>1. PICK amount : Purchase(amount)
    BY RailStep
  <2>2. bought[t] \in Nat /\ PurchaseTypeOK
    BY DEF RailInv, PurchaseTypeOK
  <2>3. /\ staged[t] \in Routes /\ staged[t] # NoRoute /\ staged'[t] = NoRoute
        /\ bought'[t] = bought[t] + staged[t].weth
        /\ clock <= staged[t].deadline /\ routerAllowed[staged[t].router]
    BY <2>1, <2>2, PurchaseSpendsRoutes
  <2>4. staged[t].weth \in Nat
    BY <2>3 DEF Routes
  <2>5. QED
    BY <2>2, <2>3, <2>4
<1>2. QED
  BY RailInvariant, <1>1, PTL DEF PurchaseSpec, RouteServesOnce

\* Nothing is bought later than MAX_SESSION_TTL after the market was opened,
\* whatever happened to the TTL since (OracleGuard.sol:42-58).
THEOREM BuysInSession == PurchaseSpec => BoughtInSession
<1> DEFINE Step ==
      bought' # bought => sessionOpenedAt # 0 /\ clock - sessionOpenedAt <= MaxTtl
<1>1. RailInv /\ [PurchaseNext]_purchaseVars => [Step]_purchaseVars
  <2> SUFFICES ASSUME RailInv, [PurchaseNext]_purchaseVars, bought' # bought
               PROVE  sessionOpenedAt # 0 /\ clock - sessionOpenedAt <= MaxTtl
    OBVIOUS
  <2>1. MarketOpen
    BY RailStep DEF Purchase
  <2>2. /\ clock \in Nat /\ sessionOpenedAt \in Nat /\ MaxTtl \in Nat
        /\ sessionTtl \in 1 .. MaxTtl
    BY PurchaseAssumption
       DEF PurchaseAssumption, RailInv, PurchaseTypeOK, RebalanceTypeOK
  <2>3. QED
    BY <2>1, <2>2 DEF MarketOpen
<1>2. QED
  BY RailInvariant, <1>1, PTL DEF PurchaseSpec, BoughtInSession

-----------------------------------------------------------------------------
(* The money of the rail. *)

LEMMA SpentIsNat ==
  ASSUME RailInv
  PROVE  SumOf(bought) \in Nat
<1>1. IsFiniteSet(Stocks) /\ bought \in [Stocks -> Nat]
  BY PurchaseAssumption DEF PurchaseAssumption, RailInv, PurchaseTypeOK
<1>2. QED
  BY <1>1, SumIsNat, SumOfOn

\* Money comes in counted, and what comes in uncounted is in donated.
LEMMA CollectingKeepsAccount ==
  ASSUME RailInv, WethAccounted, Collecting
  PROVE  WethAccounted' /\ ~(collectorWeth' < collectorWeth)
<1>0. /\ collectorWeth \in Nat /\ buyerWeth \in Nat /\ adapterWeth \in Nat /\ retired \in Nat
      /\ lifetimeEthReceived \in Nat /\ donated \in Nat /\ strayEth \in Nat
      /\ SumOf(bought) \in Nat /\ MaxInflow \in Nat
      /\ lifetimeEthReceived + donated
           = collectorWeth + buyerWeth + adapterWeth + retired + SumOf(bought)
  BY SpentIsNat, PurchaseAssumption
     DEF RailInv, PurchaseTypeOK, PurchaseAssumption, WethAccounted
<1>1. CASE \E amount \in 1 .. MaxInflow : DepositFees(amount)
  BY <1>0, <1>1 DEF DepositFees, Wrap, NotCollector, WethAccounted
<1>2. CASE WrapDust
  BY <1>0, <1>2 DEF WrapDust, Wrap, NotCollector, WethAccounted
<1>3. CASE Donate
  BY <1>0, <1>3 DEF Donate, WethAccounted
<1>4. CASE ForceEth
  BY <1>0, <1>4 DEF ForceEth, NotCollector, WethAccounted
<1>5. CASE \E amount \in Thresholds : SetMinSweepAmount(amount)
  BY <1>0, <1>5 DEF SetMinSweepAmount, NotCollector, WethAccounted
<1>6. CASE \E paused \in BOOLEAN : SetSweepsPaused(paused)
  BY <1>0, <1>6 DEF SetSweepsPaused, NotCollector, WethAccounted
<1>7. QED
  BY <1>1, <1>2, <1>3, <1>4, <1>5, <1>6 DEF Collecting

\* An adapter that is replaced takes its balance along, one that comes back
\* brings its balance with it.
LEMMA OperatingKeepsAccount ==
  ASSUME RailInv, WethAccounted, Operating
  PROVE  WethAccounted' /\ UNCHANGED collectorWeth
<1>0. /\ adapterWeth \in Nat /\ retired \in Nat /\ collectorWeth \in Nat /\ buyerWeth \in Nat
      /\ SumOf(bought) \in Nat
  BY SpentIsNat DEF RailInv, PurchaseTypeOK
<1>1. ASSUME NEW adapter \in ShelvedAdapters, NEW weth \in 0 .. retired,
             SetAdapter(adapter, weth)
      PROVE  WethAccounted' /\ UNCHANGED collectorWeth
  BY <1>0, <1>1 DEF SetAdapter, NotAdapter, collectorVars, WethAccounted
<1>2. CASE \E ttl \in 0 .. MaxTtl + 1 : SetSessionTtl(ttl)
  BY <1>2 DEF SetSessionTtl, NotGuard, collectorVars, WethAccounted
<1>3. CASE \E open \in BOOLEAN : SetMarketOpen(open)
  BY <1>3 DEF SetMarketOpen, NotGuard, collectorVars, WethAccounted
<1>4. CASE \E r \in Routers, allowed \in BOOLEAN : SetRouterAllowed(r, allowed)
  BY <1>4 DEF SetRouterAllowed, NotAdapter, collectorVars, WethAccounted
<1>5. CASE \E t \in Stocks, route \in QuotedRoutes : StageRoute(t, route)
  BY <1>5 DEF StageRoute, NotAdapter, collectorVars, WethAccounted
<1>6. QED
  BY <1>1, <1>2, <1>3, <1>4, <1>5 DEF Operating

\* A purchase turns all the WETH of buyer and, in a sweep, collector to stock.
LEMMA BuyingKeepsAccount ==
  ASSUME RailInv, WethAccounted, Sweep \/ PurchaseBasket
  PROVE  /\ WethAccounted'
         /\ collectorWeth' < collectorWeth =>
              /\ collectorWeth' = 0 /\ ~sweepsPaused
              /\ SumOf(bought') = SumOf(bought) + collectorWeth + buyerWeth
<1>0. /\ adapterWeth \in Nat /\ retired \in Nat /\ collectorWeth \in Nat /\ buyerWeth \in Nat
      /\ SumOf(bought) \in Nat
      /\ lifetimeEthReceived + donated
           = collectorWeth + buyerWeth + adapterWeth + retired + SumOf(bought)
  BY SpentIsNat DEF RailInv, PurchaseTypeOK, WethAccounted
<1>1. CASE Sweep
  <2> DEFINE amount == buyerWeth + collectorWeth
  <2>1. /\ Purchase(amount) /\ amount \in Nat /\ ~sweepsPaused /\ collectorWeth' = 0
        /\ UNCHANGED <<lifetimeEthReceived, donated, retired>>
    BY <1>0, <1>1 DEF Sweep, Purchase
  <2>2. /\ SumOf(bought') = SumOf(bought) + amount
        /\ adapterWeth = 0 /\ adapterWeth' = 0 /\ buyerWeth' = 0
    BY <2>1, PurchaseSpendsAll, PurchasePullsShares
  <2>3. QED
    BY <1>0, <2>1, <2>2 DEF WethAccounted
<1>2. CASE PurchaseBasket
  <2>1. /\ Purchase(buyerWeth)
        /\ UNCHANGED <<collectorWeth, lifetimeEthReceived, donated, retired>>
    BY <1>2 DEF PurchaseBasket, Purchase, collectorVars
  <2>2. /\ SumOf(bought') = SumOf(bought) + buyerWeth
        /\ adapterWeth = 0 /\ adapterWeth' = 0 /\ buyerWeth' = 0
    BY <1>0, <2>1, PurchaseSpendsAll, PurchasePullsShares
  <2>3. QED
    BY <1>0, <2>1, <2>2 DEF WethAccounted
<1>3. QED
  BY <1>1, <1>2

LEMMA MoneyStep ==
  ASSUME RailInv, WethAccounted, [PurchaseNext]_purchaseVars
  PROVE  /\ WethAccounted'
         /\ collectorWeth' < collectorWeth =>
              /\ collectorWeth' = 0 /\ ~sweepsPaused
              /\ SumOf(bought') = SumOf(bought) + collectorWeth + buyerWeth
<1>0. collectorWeth \in Nat
  BY DEF RailInv, PurchaseTypeOK
<1>1. CASE Collecting
  BY <1>1, CollectingKeepsAccount
<1>2. CASE Operating
  BY <1>0, <1>2, OperatingKeepsAccount
<1>3. CASE Sweep \/ PurchaseBasket
  BY <1>3, BuyingKeepsAccount
<1>4. CASE UNCHANGED railVars
  BY <1>0, <1>4 DEF railVars, collectorVars, WethAccounted
<1>5. QED
  BY <1>1, <1>2, <1>3, <1>4 DEF PurchaseNext, Rotate, purchaseVars

\* Every wei that ever came in waits in a contract or was spent on a stock,
\* through sweeps, purchases, donations, rotations and replaced adapters
\* (FeeCollector.sol:34).
THEOREM EveryWeiAccounted == PurchaseSpec => []WethAccounted
<1>1. PurchaseInit => WethAccounted
  <2> SUFFICES ASSUME PurchaseInit PROVE WethAccounted
    OBVIOUS
  <2>1. IsFiniteSet(Stocks) /\ DOMAIN bought = Stocks /\ \A t \in Stocks : bought[t] = 0
    BY PurchaseAssumption DEF PurchaseAssumption, PurchaseInit
  <2>2. SumOf(bought) = 0
    BY <2>1, SumOfZeros, SumOfOn
  <2>3. QED
    BY <2>2 DEF PurchaseInit, WethAccounted
<1>2. RailInv /\ WethAccounted /\ [PurchaseNext]_purchaseVars => WethAccounted'
  BY MoneyStep
<1>3. QED
  BY RailInvariant, <1>1, <1>2, PTL DEF PurchaseSpec

\* Collected fees leave only to be spent on the basket, all of them and what
\* the buyer held in one step (FeeCollector.sol:20-24).
THEOREM FeesBuyStock == PurchaseSpec => FeesLeaveAsStock
<1> DEFINE Step ==
      collectorWeth' < collectorWeth =>
        /\ collectorWeth' = 0 /\ ~sweepsPaused
        /\ SumOf(bought') = SumOf(bought) + collectorWeth + buyerWeth
<1>1. RailInv /\ WethAccounted /\ [PurchaseNext]_purchaseVars => [Step]_purchaseVars
  BY MoneyStep
<1>2. QED
  BY RailInvariant, EveryWeiAccounted, <1>1, PTL DEF PurchaseSpec, FeesLeaveAsStock

\* A purchase buys the whole basket of that moment and nothing else, in shares
\* within a wei of the weights (BasketBuyer.sol:149-152).
THEOREM PurchasesAreWhole == PurchaseSpec => PurchaseIsWhole
<1> DEFINE spent == [i \in DOMAIN basket |-> bought'[basket[i]] - bought[basket[i]]]
           Step ==
             bought' # bought =>
               /\ buyerWeth' = 0
               /\ \A t \in Stocks : bought'[t] # bought[t] <=> Holds(t)
               /\ IsExactSplit(spent, SumOf(spent), Weights, TargetTotalBps)
<1>1. RailInv /\ [PurchaseNext]_purchaseVars => [Step]_purchaseVars
  <2> SUFFICES ASSUME RailInv, [PurchaseNext]_purchaseVars, bought' # bought
               PROVE  /\ buyerWeth' = 0
                      /\ \A t \in Stocks : bought'[t] # bought[t] <=> Holds(t)
                      /\ IsExactSplit(spent, SumOf(spent), Weights, TargetTotalBps)
    OBVIOUS
  <2>1. PICK amount \in Nat : Purchase(amount)
    BY RailStep
  <2>2. PurchaseTypeOK /\ basket \in [DOMAIN basket -> Stocks] /\ bought \in [Stocks -> Nat]
    BY SMTT(30) DEF RailInv, PurchaseTypeOK, RebalanceTypeOK
  <2>3. \A i \in DOMAIN basket : staged[basket[i]].weth \in Nat \ {0}
    <3>1. SUFFICES ASSUME NEW i \in DOMAIN basket PROVE staged[basket[i]].weth \in Nat \ {0}
      OBVIOUS
    <3>2. staged[basket[i]].weth > 0
      BY <2>1 DEF Purchase, CanSwap
    <3>3. staged[basket[i]] \in Routes
      BY <2>1, <2>2, PurchaseSpendsRoutes DEF Holds
    <3>4. QED
      BY <3>2, <3>3 DEF Routes
  <2>4. \A t \in Stocks : bought'[t] # bought[t] <=> Holds(t)
    BY <2>1, <2>2, <2>3, PurchaseSpendsRoutes DEF Holds
  <2>5. \A i \in DOMAIN basket : bought'[basket[i]] - bought[basket[i]] = staged[basket[i]].weth
    BY <2>1, <2>2, <2>3, PurchaseSpendsRoutes DEF Holds
  <2>6. spent = BuyerSplit(amount, Weights, TargetTotalBps)
    BY <2>1, <2>5, PurchasePullsShares
  <2>7. IsExactSplit(spent, amount, Weights, TargetTotalBps) /\ buyerWeth' = 0
    BY <2>1, <2>6, PurchasePullsShares
  <2>8. SumOf(spent) = amount
    BY <2>7 DEF IsExactSplit
  <2>9. QED
    BY <2>4, <2>7, <2>8
<1>2. QED
  BY RailInvariant, <1>1, PTL DEF PurchaseSpec, PurchaseIsWhole
=============================================================================
