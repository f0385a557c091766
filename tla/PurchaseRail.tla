---------------------------- MODULE PurchaseRail ----------------------------
(***************************************************************************)
(* From fees to stocks: FeeCollector.sol, OracleGuard.sol, RouteAdapter.sol*)
(* and BasketBuyer.sol over the rotating basket of RebalanceController.    *)
(* A sweep hands all collected WETH to the buyer, which splits it over the *)
(* basket of that moment and spends each share on the route the keeper     *)
(* staged for the stock; the transaction takes effect whole or not at all. *)
(*                                                                         *)
(* A route is what matters of its calldata: the WETH it pulls.  What it    *)
(* buys, the prices and the slippage floor are external: a route that      *)
(* fails or underdelivers reverts the purchase, which changes nothing.     *)
(* The set-once wiring of the deployment is in place from the start; roles *)
(* are not modelled: an owner's or a keeper's call may come at any time.   *)
(***************************************************************************)
EXTENDS RebalanceController, Allocation

CONSTANTS
  Routers,          \* routers the owner may allow
  NoRoute,          \* an empty staging slot
  MaxTtl,           \* MAX_SESSION_TTL
  Quotes, Deadlines,  \* bound: amounts and deadlines of the routes staged
  ShelvedAdapters,  \* bound: what adapters may hold when they are installed
  Thresholds,       \* bound: values of minSweepAmount
  MaxInflow,        \* bound: wei that ever come in
  MaxStray          \* bound: wei that come in past depositFees

ASSUME PurchaseAssumption ==
  /\ IsFiniteSet(Stocks)
  /\ NoRoute \notin [router : Routers, weth : Nat, deadline : Nat]
  /\ MaxTtl \in Nat \ {0}
  /\ Quotes \subseteq Nat /\ Deadlines \subseteq Nat
  /\ ShelvedAdapters \subseteq
       [staged : [Stocks -> [router : Routers, weth : Nat, deadline : Nat] \cup {NoRoute}],
        routerAllowed : [Routers -> BOOLEAN]]
  /\ 0 \in Thresholds /\ Thresholds \subseteq Nat
  /\ MaxInflow \in Nat /\ MaxStray \in Nat

VARIABLES
  strayEth,             \* native balance of the collector, not wrapped yet
  collectorWeth,        \* WETH.balanceOf(FeeCollector)
  buyerWeth,            \* WETH.balanceOf(BasketBuyer)
  adapterWeth,          \* WETH.balanceOf(RouteAdapter)
  lifetimeEthReceived, minSweepAmount, sweepsPaused,  \* FeeCollector
  sessionTtl, sessionOpenedAt,                        \* OracleGuard
  routerAllowed, staged,                              \* RouteAdapter
  donated,              \* history: WETH that arrived by a plain transfer
  retired,              \* WETH in adapters that are not installed
  bought                \* history: WETH spent on each stock

guardVars == <<sessionTtl, sessionOpenedAt>>
adapterVars == <<routerAllowed, staged>>
collectorVars == <<strayEth, collectorWeth, lifetimeEthReceived, minSweepAmount, sweepsPaused>>
railVars == <<collectorVars, buyerWeth, adapterWeth, guardVars, adapterVars, donated, retired, bought>>
purchaseVars == <<rebalanceVars, railVars>>

Routes == [router : Routers, weth : Nat, deadline : Nat]
QuotedRoutes == [router : Routers, weth : Quotes, deadline : Deadlines]

PurchaseInit ==
  /\ RebalanceInit
  /\ strayEth = 0 /\ collectorWeth = 0 /\ buyerWeth = 0 /\ adapterWeth = 0
  /\ lifetimeEthReceived = 0 /\ minSweepAmount = 0 /\ sweepsPaused = FALSE
  /\ sessionTtl = 1 /\ sessionOpenedAt = 0
  /\ routerAllowed = [r \in Routers |-> FALSE]
  /\ staged = [t \in Stocks |-> NoRoute]
  /\ donated = 0 /\ retired = 0 /\ bought = [t \in Stocks |-> 0]

-----------------------------------------------------------------------------
\* FeeCollector

RoomFor(amount) == \* bound
  lifetimeEthReceived + strayEth + donated + amount <= MaxInflow

RoomForStray == RoomFor(1) /\ strayEth + donated < MaxStray \* bound

Wrap(amount) ==
  /\ amount > 0
  /\ lifetimeEthReceived' = lifetimeEthReceived + amount
  /\ collectorWeth' = collectorWeth + amount
  /\ UNCHANGED <<minSweepAmount, sweepsPaused>>

NotCollector == <<rebalanceVars, buyerWeth, adapterWeth, guardVars, adapterVars, donated, retired, bought>>

\* receive() and depositFees(): only the value sent is wrapped.
DepositFees(amount) ==
  /\ RoomFor(amount)
  /\ Wrap(amount)
  /\ UNCHANGED <<strayEth, NotCollector>>

\* Native ETH that arrives without the receive hook.
ForceEth ==
  /\ RoomForStray
  /\ strayEth' = strayEth + 1
  /\ UNCHANGED <<collectorWeth, lifetimeEthReceived, minSweepAmount, sweepsPaused, NotCollector>>

WrapDust ==
  /\ Wrap(strayEth)
  /\ strayEth' = 0
  /\ UNCHANGED NotCollector

SetMinSweepAmount(amount) ==
  /\ minSweepAmount' = amount
  /\ UNCHANGED <<strayEth, collectorWeth, lifetimeEthReceived, sweepsPaused, NotCollector>>

SetSweepsPaused(paused) ==
  /\ sweepsPaused' = paused
  /\ UNCHANGED <<strayEth, collectorWeth, lifetimeEthReceived, minSweepAmount, NotCollector>>

\* Plain WETH transfers, to any of the three contracts.
Donate ==
  /\ RoomForStray
  /\ donated' = donated + 1
  /\ \/ collectorWeth' = collectorWeth + 1 /\ UNCHANGED <<buyerWeth, adapterWeth>>
     \/ buyerWeth' = buyerWeth + 1 /\ UNCHANGED <<collectorWeth, adapterWeth>>
     \/ adapterWeth' = adapterWeth + 1 /\ UNCHANGED <<collectorWeth, buyerWeth>>
  /\ UNCHANGED <<rebalanceVars, strayEth, lifetimeEthReceived, minSweepAmount, sweepsPaused,
                 guardVars, adapterVars, retired, bought>>

-----------------------------------------------------------------------------
\* OracleGuard

MarketOpen == sessionOpenedAt # 0 /\ clock <= sessionOpenedAt + sessionTtl

NotGuard == <<rebalanceVars, collectorVars, buyerWeth, adapterWeth, adapterVars, donated, retired, bought>>

\* Mutant: no ceiling.
SetAnyTtl(ttl) ==
  /\ ttl # 0
  /\ sessionTtl' = ttl
  /\ UNCHANGED <<sessionOpenedAt, NotGuard>>

SetSessionTtl(ttl) ==
  /\ ttl # 0 /\ ttl <= MaxTtl
  /\ sessionTtl' = ttl
  /\ UNCHANGED <<sessionOpenedAt, NotGuard>>

SetMarketOpen(open) ==
  /\ sessionOpenedAt' = IF open THEN clock ELSE 0
  /\ UNCHANGED <<sessionTtl, NotGuard>>

-----------------------------------------------------------------------------
\* RouteAdapter

NotAdapter == <<rebalanceVars, collectorVars, buyerWeth, guardVars, donated, bought>>

SetRouterAllowed(r, allowed) ==
  /\ routerAllowed' = [routerAllowed EXCEPT ![r] = allowed]
  /\ UNCHANGED <<staged, adapterWeth, retired, NotAdapter>>

\* The calldata is quoted for some amount; nothing compares it with a share,
\* nor the deadline with the time.
StageRoute(t, route) ==
  /\ routerAllowed[route.router]
  /\ staged' = [staged EXCEPT ![t] = route]
  /\ UNCHANGED <<routerAllowed, adapterWeth, retired, NotAdapter>>

\* BasketBuyer.setAdapter with any adapter: a new one, or one that was in use
\* or prepared before, with the routes, routers and WETH it still holds.
SetAdapter(adapter, weth) ==
  /\ weth <= retired
  /\ staged' = adapter.staged /\ routerAllowed' = adapter.routerAllowed
  /\ adapterWeth' = weth
  /\ retired' = retired + adapterWeth - weth
  /\ UNCHANGED NotAdapter

-----------------------------------------------------------------------------
\* BasketBuyer

\* Mutant: the deadline is not checked.
CanSwapLate(t, share) ==
  /\ staged[t] # NoRoute
  /\ routerAllowed[staged[t].router]
  /\ staged[t].weth <= share
  /\ staged[t].weth > 0

\* One swap: the route exists, is not late, its router is still allowed, and
\* it pulls no more than the allowance.  An empty leg reverts in the vault.
CanSwap(t, share) ==
  /\ staged[t] # NoRoute
  /\ clock <= staged[t].deadline
  /\ routerAllowed[staged[t].router]
  /\ staged[t].weth <= share
  /\ staged[t].weth > 0

\* Mutant: what the adapter held before is forgotten.
LeftoverOfShares(amount) ==
  amount - SumOf([i \in DOMAIN basket |-> staged[basket[i]].weth])

\* The adapter returns what the routes left, with whatever else it held.
Leftover(amount) ==
  amount + adapterWeth - SumOf([i \in DOMAIN basket |-> staged[basket[i]].weth])

\* Mutant: the buyer keeps what the routes leave.
PurchaseKeepingDust(amount) ==
  LET spend == BuyerSplit(amount, Weights, TargetTotalBps)
  IN  /\ amount # 0
      /\ MarketOpen
      /\ \A i \in DOMAIN basket : CanSwap(basket[i], spend[i])
      /\ bought' = [t \in Stocks |-> bought[t] + (IF Holds(t) THEN staged[t].weth ELSE 0)]
      /\ staged' = [t \in Stocks |-> IF Holds(t) THEN NoRoute ELSE staged[t]]
      /\ buyerWeth' = Leftover(amount)
      /\ adapterWeth' = 0
      /\ UNCHANGED <<routerAllowed, guardVars, retired, donated, rebalanceVars>>

\* purchaseBasket on a balance of amount.
Purchase(amount) ==
  LET spend == BuyerSplit(amount, Weights, TargetTotalBps)
  IN  /\ amount # 0
      /\ MarketOpen
      /\ \A i \in DOMAIN basket : CanSwap(basket[i], spend[i])
      /\ Leftover(amount) = 0
      /\ bought' = [t \in Stocks |-> bought[t] + (IF Holds(t) THEN staged[t].weth ELSE 0)]
      /\ staged' = [t \in Stocks |-> IF Holds(t) THEN NoRoute ELSE staged[t]]
      /\ buyerWeth' = Leftover(amount)
      /\ adapterWeth' = 0
      /\ UNCHANGED <<routerAllowed, guardVars, retired, donated, rebalanceVars>>

\* Anyone may call it.
PurchaseBasket == Purchase(buyerWeth) /\ UNCHANGED collectorVars

\* Mutant: a purchase that fails does not undo the transfer.
SweepAnyway ==
  /\ ~sweepsPaused
  /\ collectorWeth >= minSweepAmount
  /\ collectorWeth' = 0
  /\ \/ Purchase(buyerWeth + collectorWeth)
     \/ /\ buyerWeth' = buyerWeth + collectorWeth
        /\ UNCHANGED <<rebalanceVars, adapterWeth, guardVars, adapterVars, donated, retired, bought>>
  /\ UNCHANGED <<strayEth, lifetimeEthReceived, minSweepAmount, sweepsPaused>>

Sweep ==
  /\ ~sweepsPaused
  /\ collectorWeth >= minSweepAmount
  /\ Purchase(buyerWeth + collectorWeth)
  /\ collectorWeth' = 0
  /\ UNCHANGED <<strayEth, lifetimeEthReceived, minSweepAmount, sweepsPaused>>

Rotate ==
  /\ \/ \E t \in Stocks : ProposeAddition(t)
     \/ \E i \in DOMAIN basket : ProposeRemoval(i)
     \/ ActivateChange
  /\ UNCHANGED railVars

Collecting ==
  \/ \E amount \in 1 .. MaxInflow : DepositFees(amount)
  \/ ForceEth \/ WrapDust \/ Donate
  \/ \E amount \in Thresholds : SetMinSweepAmount(amount)
  \/ \E paused \in BOOLEAN : SetSweepsPaused(paused)

Operating ==
  \/ \E ttl \in 0 .. MaxTtl + 1 : SetSessionTtl(ttl)
  \/ \E open \in BOOLEAN : SetMarketOpen(open)
  \/ \E r \in Routers, allowed \in BOOLEAN : SetRouterAllowed(r, allowed)
  \/ \E t \in Stocks, route \in QuotedRoutes : StageRoute(t, route)
  \/ \E adapter \in ShelvedAdapters, weth \in 0 .. retired : SetAdapter(adapter, weth)

PurchaseNext ==
  \/ Collecting \/ Operating
  \/ Sweep \/ PurchaseBasket
  \/ Rotate
  \/ ClockTicks /\ UNCHANGED railVars

PurchaseSpec == PurchaseInit /\ [][PurchaseNext]_purchaseVars

-----------------------------------------------------------------------------
\* Types of the rail's state.
PurchaseTypeOK ==
  /\ RebalanceTypeOK
  /\ strayEth \in Nat /\ collectorWeth \in Nat /\ buyerWeth \in Nat /\ adapterWeth \in Nat
  /\ lifetimeEthReceived \in Nat /\ minSweepAmount \in Thresholds /\ sweepsPaused \in BOOLEAN
  /\ sessionTtl \in 1 .. MaxTtl /\ sessionOpenedAt \in 0 .. clock
  /\ routerAllowed \in [Routers -> BOOLEAN]
  /\ staged \in [Stocks -> Routes \cup {NoRoute}]
  /\ donated \in Nat /\ retired \in Nat /\ bought \in [Stocks -> Nat]

\* Every wei that was ever wrapped or transferred in waits in a contract or
\* was spent on a stock: lifetimeEthReceived, the public counter, is neither
\* ahead of the money nor behind it (FeeCollector.sol:34).
WethAccounted ==
  lifetimeEthReceived + donated
    = collectorWeth + buyerWeth + adapterWeth + retired + SumOf(bought)

\* A purchase buys every stock of the basket of that moment and no other, in
\* shares a wei or less off the weights, and leaves the buyer nothing
\* (BasketBuyer.sol:149-152), whatever was staged, donated or rotated before.
PurchaseIsWhole ==
  [][bought' # bought =>
       LET spent == [i \in DOMAIN basket |-> bought'[basket[i]] - bought[basket[i]]]
       IN  /\ buyerWeth' = 0
           /\ \A t \in Stocks : bought'[t] # bought[t] <=> Holds(t)
           /\ IsExactSplit(spent, SumOf(spent), Weights, TargetTotalBps)]_purchaseVars

\* Collected fees leave only by being spent on the basket, all of them in one
\* step (FeeCollector.sol:20-24): a sweep that cannot buy moves nothing.
FeesLeaveAsStock ==
  [][collectorWeth' < collectorWeth =>
       /\ collectorWeth' = 0 /\ ~sweepsPaused
       /\ SumOf(bought') = SumOf(bought) + collectorWeth + buyerWeth]_purchaseVars

\* A staged route is spent by one purchase and no other, in full, no later than
\* its deadline and over a router that is still allowed: it "can never be
\* replayed across cycles" (RouteAdapter.sol:117).
RouteServesOnce ==
  [][\A t \in Stocks : bought'[t] # bought[t] =>
       /\ staged[t] # NoRoute /\ staged'[t] = NoRoute
       /\ bought'[t] - bought[t] = staged[t].weth
       /\ clock <= staged[t].deadline /\ routerAllowed[staged[t].router]]_purchaseVars

\* Nothing is bought later than MAX_SESSION_TTL after someone opened the
\* market, whatever happened to the TTL since (OracleGuard.sol:10-13).
BoughtInSession ==
  [][bought' # bought =>
       sessionOpenedAt # 0 /\ clock - sessionOpenedAt <= MaxTtl]_purchaseVars
=============================================================================
