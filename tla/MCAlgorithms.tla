---------------------------- MODULE MCAlgorithms ----------------------------
(***************************************************************************)
(* The pure algorithms on every small input: the splits, the Merkle proofs *)
(* and the price gates.  Inputs grow one piece at a time from nothing.     *)
(***************************************************************************)
EXTENDS Allocation, Merkle, Quotes

CONSTANTS Places, MaxWeight, MaxAmount, \* bounds of the splits
          Leaves,                       \* leaves to build trees of
          Outputs                       \* outputs a route may promise

ASSUME AlgorithmAssumption == {Places, MaxWeight, MaxAmount} \subseteq Nat

VARIABLES amount, weights, tree, weth, legs

algorithmVars == <<amount, weights, tree, weth, legs>>

\* A price of 100 in the decimals of the model, and feeds that carry it: as it
\* is, with more decimals, stale, of an unfinished round, paused, not positive.
Now == 5
Fresh == [answer |-> 10, decimals |-> 0, updatedAt |-> 3, stalenessBound |-> 2,
          answeredInRound |-> 1, roundId |-> 1, paused |-> FALSE]
Feeds == {Fresh, [Fresh EXCEPT !.answer = 1527, !.decimals = 2],
          [Fresh EXCEPT !.updatedAt = 2], [Fresh EXCEPT !.roundId = 2],
          [Fresh EXCEPT !.paused = TRUE], [Fresh EXCEPT !.answer = -10]}
WethFeeds == {[Fresh EXCEPT !.answer = 30], [Fresh EXCEPT !.answer = 0]}

AlgorithmInit ==
  /\ amount = 0 /\ weights = [i \in 1 .. Places |-> 0]
  /\ tree = <<>>
  /\ weth = [Fresh EXCEPT !.answer = 30] /\ legs = <<>>

MoreWeight(i) ==
  /\ weights[i] < MaxWeight /\ tree = <<>> /\ legs = <<>>
  /\ weights' = [weights EXCEPT ![i] = @ + 1]
  /\ UNCHANGED <<amount, tree, weth, legs>>

MoreAmount ==
  /\ amount < MaxAmount /\ tree = <<>> /\ legs = <<>>
  /\ amount' = amount + 1
  /\ UNCHANGED <<weights, tree, weth, legs>>

MoreLeaves ==
  /\ amount = 0 /\ SumOf(weights) = 0 /\ legs = <<>>
  /\ Leaves \ Range(tree) # {}
  /\ tree' = Append(tree, CHOOSE leaf \in Leaves : leaf \notin Range(tree))
  /\ UNCHANGED <<amount, weights, weth, legs>>

MoreLegs ==
  /\ amount = 0 /\ SumOf(weights) = 0 /\ tree = <<>> /\ Len(legs) < 2
  /\ \E feed \in Feeds, output \in Outputs :
       LET leg == [fromAmount |-> 50 - 13 * Len(legs), feed |-> feed, toAmount |-> output]
       IN  leg \in Leg /\ legs' = Append(legs, leg)
  /\ IF legs = <<>> THEN weth' \in WethFeeds ELSE UNCHANGED weth
  /\ UNCHANGED <<amount, weights, tree>>

AlgorithmNext == MoreAmount \/ (\E i \in 1 .. Places : MoreWeight(i)) \/ MoreLeaves \/ MoreLegs

AlgorithmSpec == AlgorithmInit /\ [][AlgorithmNext]_algorithmVars

Whole == SumOf(weights)

\* The buyer's loop spends all WETH, each leg within a wei of its weight, the
\* heavier or earlier constituent first (BasketBuyer.sol:101-125, ADR 0008).
BuyerSplitsExactly ==
  Whole > 0 =>
    LET split == BuyerSplit(amount, weights, Whole)
    IN  IsExactSplit(split, amount, weights, Whole) /\ IsOrderly(split, weights)

\* allocate leaves no residual and ties go to the lower address (D029): the
\* "residual not absorbed" error cannot happen.
IndexerSplitsExactly ==
  Whole > 0 =>
    LET split == IndexerSplit(amount, weights)
    IN  IsExactSplit(split, amount, weights, Whole) /\ IsOrderly(split, weights)

\* The loop that strikes out residues and the sort hand out the same units.
SplitsAgree ==
  Whole > 0 => BuyerSplit(amount, weights, Whole) = IndexerSplit(amount, weights)

\* The distributor accepts the proof of a leaf for that leaf and for no other
\* leaf of the tree, whatever the number of leaves (merkle.ts:3-13).
ProofsVerify ==
  \A i, j \in DOMAIN tree :
    Verify(ProofFor(tree, i), RootOf(tree), tree[j]) <=> i = j

\* Prices of a dollar or more, so that no dollars rounded off would buy a unit,
\* and fine enough that rounding them is less than a basis point.
Precise(price) ==
  /\ price >= TenTo(WadDecimals)
  /\ price * MaxSlippageBps * MaxSlippageBps >= Bps * (Bps - MaxSlippageBps)

\* "This gate just avoids wasting gas on cycles that cannot pass" (quotes.ts:11):
\* when the gate is stricter than the buyer's slippage cap, a cycle it lets
\* through whose routes deliver what they promise meets every minimum output.
\* At an equal cap it need not: the deviation is rounded down.
GatedQuoteMeetsMinimum ==
  MaxDeviationBps < MaxSlippageBps /\ legs # <<>> /\ CycleViable(legs, weth, Now) =>
    \A i \in DOMAIN legs :
      LET price == PriceWad(legs[i].feed, Now)
      IN  Precise(price) =>
            legs[i].toAmount >= MinTokenOut(legs[i].fromAmount, PriceWad(weth, Now), price)
=============================================================================
