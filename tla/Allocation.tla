----------------------------- MODULE Allocation -----------------------------
(***************************************************************************)
(* The two largest-remainder splits of the system: the loop by which       *)
(* BasketBuyer.purchaseBasket divides WETH over the basket, and the sort   *)
(* by which the indexer's allocate divides a deposit over wallets.  Both   *)
(* must spend every unit, give nobody more than a unit above or below the  *)
(* exact share, and come out the same on every run.                        *)
(*                                                                         *)
(* A split takes an amount and a sequence of weights; for allocate these   *)
(* are the balances of the eligible wallets in ascending address order.    *)
(***************************************************************************)
EXTENDS Integers, Sequences, FiniteSets, Functions

SumOf(f) == FoldFunction(+, 0, f)

Floors(amount, weights, whole) ==
  [i \in DOMAIN weights |-> (amount * weights[i]) \div whole]

Remainders(amount, weights, whole) ==
  [i \in DOMAIN weights |-> (amount * weights[i]) % whole]

\* Mutant: the scan with >=, which ends at the last of equals.
LastLargest(residue) ==
  CHOOSE i \in DOMAIN residue :
    \A j \in DOMAIN residue : residue[j] < residue[i] \/ (residue[j] = residue[i] /\ i >= j)

\* The scan for the next unit: the first index of the largest residue.
FirstLargest(residue) ==
  CHOOSE i \in DOMAIN residue :
    \A j \in DOMAIN residue : residue[j] < residue[i] \/ (residue[j] = residue[i] /\ i <= j)

\* Mutant: the first constituent gets everything left over.
BuyerSplitDustToFirst(amount, weights, whole) ==
  LET floors == Floors(amount, weights, whole)
  IN  [floors EXCEPT ![1] = @ + amount - SumOf(floors)]

\* One unit to the largest residue, which is then struck out.
HandOut(before) ==
  LET best == FirstLargest(before.residue)
  IN  [spend |-> [before.spend EXCEPT ![best] = @ + 1],
       residue |-> [before.residue EXCEPT ![best] = 0]]

\* purchaseBasket: the floors, then the units owed one by one.
BuyerSplit(amount, weights, whole) ==
  LET floors == Floors(amount, weights, whole)
      owed == amount - SumOf(floors)
      handout[k \in 0 .. owed] ==
        IF k = 0 THEN [spend |-> floors, residue |-> Remainders(amount, weights, whole)]
                 ELSE HandOut(handout[k - 1])
  IN  handout[owed].spend

\* Mutant: ties go to the higher address.
PrecedesBackwards(remainder, i, j) ==
  remainder[i] > remainder[j] \/ (remainder[i] = remainder[j] /\ i > j)

\* allocate: rows sorted by descending remainder, then by position; the first
\* ones get the units left over.
Precedes(remainder, i, j) ==
  remainder[i] > remainder[j] \/ (remainder[i] = remainder[j] /\ i < j)

IndexerSplit(amount, weights) ==
  LET whole == SumOf(weights)
      floors == Floors(amount, weights, whole)
      remainder == Remainders(amount, weights, whole)
      leftover == amount - SumOf(floors)
      rank(i) == Cardinality({j \in DOMAIN weights : Precedes(remainder, j, i)})
  IN  [i \in DOMAIN weights |-> floors[i] + (IF rank(i) < leftover THEN 1 ELSE 0)]

-----------------------------------------------------------------------------
\* Every unit is handed out and no share is a whole unit off the exact one.
IsExactSplit(split, amount, weights, whole) ==
  /\ SumOf(split) = amount
  /\ \A i \in DOMAIN weights :
       LET error == split[i] * whole - amount * weights[i]
       IN  -whole < error /\ error < whole

\* Who weighs more never gets less, and of equals the earlier one is not worse.
IsOrderly(split, weights) ==
  \A i, j \in DOMAIN weights :
    /\ weights[i] > weights[j] => split[i] >= split[j]
    /\ weights[i] = weights[j] /\ i < j => split[i] >= split[j]
=============================================================================
