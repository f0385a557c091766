------------------------------ MODULE Quotes ------------------------------
(***************************************************************************)
(* The price checks a purchase passes: quotes.ts off chain, which lets a   *)
(* cycle proceed when every leg has a route close to the oracle price, and *)
(* OracleGuard over ChainlinkOracle with the minimum output of             *)
(* BasketBuyer on chain.                                                   *)
(*                                                                         *)
(* A feed is its last round and its configuration; a leg is the WETH to    *)
(* spend, the token's feed and the output of the route found for it.       *)
(***************************************************************************)
EXTENDS Integers

\* 10 ^ n, as a product.
TenTo(n) == LET power[k \in 0 .. n] == IF k = 0 THEN 1 ELSE 10 * power[k - 1] IN power[n]

CONSTANTS
  WadDecimals,   \* decimals of a normalised price (18)
  Bps,           \* basis points in the whole (10,000)
  MaxDeviationBps, MaxSlippageBps

ASSUME QuotesAssumption ==
  /\ {WadDecimals, MaxDeviationBps, MaxSlippageBps} \subseteq Nat
  /\ Bps \in Nat \ {0} /\ MaxSlippageBps < Bps

Feed == [answer : Int, decimals : Nat, updatedAt : Nat, stalenessBound : Nat,
         answeredInRound : Nat, roundId : Nat, paused : BOOLEAN]

\* LifiClient.quote without a route: an error, or a reply without a transaction.
NoRoute == 0

\* What is collected for a constituent.
Leg == [fromAmount : Nat, feed : Feed, toAmount : Nat]

\* isLive
IsLive(feed, now) ==
  /\ feed.stalenessBound > 0 /\ feed.answer > 0
  /\ feed.updatedAt > 0 /\ now <= feed.updatedAt + feed.stalenessBound
  /\ feed.answeredInRound >= feed.roundId
  /\ ~feed.paused

PriceOf(feed) ==
  IF feed.decimals <= WadDecimals THEN feed.answer * TenTo(WadDecimals - feed.decimals)
                                  ELSE feed.answer \div TenTo(feed.decimals - WadDecimals)

\* getPriceWad, with 0 where it reverts: OracleReader.priceWad.  Prices are
\* taken within a session; that check (_requireSession) is MarketOpen of
\* PurchaseRail.
PriceWad(feed, now) == IF IsLive(feed, now) THEN PriceOf(feed) ELSE 0

DeviationBps(leg, wethUsd, price) ==
  LET wad == TenTo(WadDecimals)
      usdIn == (leg.fromAmount * wethUsd) \div wad
      exec == (usdIn * wad) \div leg.toAmount
      diff == IF exec > price THEN exec - price ELSE price - exec
  IN  (diff * Bps) \div price

Passes(leg, wethUsd, now) ==
  LET price == PriceWad(leg.feed, now)
  IN  /\ price > 0 /\ leg.toAmount # NoRoute
      /\ DeviationBps(leg, wethUsd, price) <= MaxDeviationBps

\* Mutant: a cycle proceeds with the legs that passed.
ViableInPart(legs, wethFeed, now) ==
  LET wethUsd == PriceWad(wethFeed, now)
  IN  wethUsd > 0 /\ \E i \in DOMAIN legs : Passes(legs[i], wethUsd, now)

\* collectQuotes
CycleViable(legs, wethFeed, now) ==
  LET wethUsd == PriceWad(wethFeed, now)
  IN  wethUsd > 0 /\ \A i \in DOMAIN legs : Passes(legs[i], wethUsd, now)

\* minTokenOut of purchaseBasket
MinTokenOut(spend, wethPrice, price) ==
  (spend * wethPrice * (Bps - MaxSlippageBps)) \div (price * Bps)
=============================================================================
