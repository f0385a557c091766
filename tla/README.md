# PENNY protocol: specifications, model checks and proofs

This directory holds the TLA+ development that goes with the PENNY protocol
repository: a rail that turns fees into tokenised stocks and gives those stocks
to the holders of the PENNY token. Source paths below are relative to the
repository root (`src/`); `RD`, `RV`, `ER`, `RC`, `BB`, `RA`, `FC`, `OG` stand
for the contracts named in the first table.

## 1. The system

| part | source | state it keeps | operations |
|---|---|---|---|
| Fee collector (FC) | `packages/contracts/src/fees/FeeCollector.sol` | WETH balance, lifetime counter, threshold, pause | deposit, wrapDust, sweep, setters |
| Basket buyer (BB) | `.../basket/BasketBuyer.sol` | adapter, vault, slippage bound | purchaseBasket, setAdapter, setters |
| Route adapter (RA) | `.../basket/RouteAdapter.sol` | allowed routers, allowed keepers, staged routes | stageRoute, swapExactWethForToken, setters |
| Oracle guard (OG) | `.../basket/OracleGuard.sol`, `ChainlinkOracle.sol` | session opening, TTL, feeds | setMarketOpen, setSessionTtl, price views |
| Rebalance controller (RC) | `.../governance/RebalanceController.sol` | basket array, flags, one pending change | proposeAddition, proposeRemoval, activateChange, weights |
| Reward vault (RV) | `.../rewards/RewardVault.sol` | balances, lifetime deposits, wiring | receiveRewardAsset, redeem, recoverAccidental |
| Eligibility registry (ER) | `.../rewards/EligibilityRegistry.sol` | signer, revocations, live-balance mode, auto-delivery and nonces | isEligible, setAutoDelivery(BySig), setters |
| Reward distributor (RD) | `.../rewards/RewardDistributor.sol` | epochs (roots), claimed amounts, committed totals, positions | publishEpoch, cancelEpoch, claim, claimFor, claimForMany, claimUpTo |
| Indexer | `services/indexer/src` | blocks and transfers | ingestRange (with rollback), snapshot, allocate, buildEpoch, reconcile, Merkle trees and proofs |
| Keeper | `services/keeper/src/{keeper,steps,pipeline}.ts` | CycleContext of the running cycle | eight jobs in order: purchase, funding, ingest, snapshot, tree-build, validate, propose, activate |
| Step ledgers | `services/keeper/src/{ledger,state,pg-store}.ts` | one record per cycle and job: in a file, in memory, or in Postgres | put, get, history, nextCycleId, replay |
| Quotes | `services/keeper/src/quotes.ts` | none | collectQuotes: may this purchase proceed at these prices |
| Monitor, attestation service, SDK, web app | `services/keeper/src/monitor.ts`, `services/attestation`, `packages`, `apps/web` | none of the protocol | tallies, I/O, presentation |

How they interact. Fees arrive as ETH at FC, which holds WETH. `sweep` moves all
of it to BB and calls `purchaseBasket`, which asks RC for basket and weights, OG
for an open session and prices, lets RA execute one staged route per stock and
hands the stocks to RV. RV records deposits; the keeper reads the deposit events
above its watermark, the indexer takes a snapshot of holders and allocates, and
the keeper publishes the root of the cumulative leaves at RD. After the challenge
delay wallets claim (or are delivered to), RD asks ER whether they may, and draws
the difference to what they already claimed out of RV. What connects keeper and
contracts is only the chain: the keeper reads it at different moments and its
transactions land later, while its own memory survives in the ledger only.

What is hard here:

* four ways to claim the same entitlement, in any order over any subset of
  published roots, with cancellations racing activation (RD);
* two books that must agree without a common check: leaves are written off chain
  and the contract only sees totals (RD, indexer);
* checks made when something is proposed and relied on when it is applied (RC,
  routes staged for a purchase in RA);
* the keeper's cycle, whose steps are separated by blocks, reorganisations, foreign
  transactions, failures and process deaths, and whose promise is exactly-once (D030);
* an ingest that reads one window in several calls while the chain moves under it, into
  a store that a restart empties;
* ledger writes that are not awaited: statements of different calls interleave, and a
  write may fail unseen;
* rounding (largest remainder, twice, by two algorithms; weights in bps; prices rounded
  down twice off chain and once on chain);
* time: timelock, challenge delay, sessions, route deadlines.

What makes each part correct is listed with its module in section 3, and the
hazards, each at its line, with the properties that watch them, in `PROJECT.json`.

## 2. Modules

```
RewardVault   EligibilityRegistry       Allocation    RebalanceController
      \          /                             \        /
     RewardDistributor                        PurchaseRail
            |
        RewardRail --refines--> PayoutLedger      Keeper --refines--> EpochLog

Indexer      Merkle      Quotes      PgStepStore      StepLedger
```

| module | models |
|---|---|
| `RewardVault` | RV alone, any account calling anything |
| `EligibilityRegistry` | ER alone, with wallets that sign off chain and anyone who submits |
| `RewardDistributor` | RD over the two, with arbitrary manifests |
| `RewardRail` | the same with the manifests the indexer and keeper really write |
| `Allocation` | the two largest-remainder splits, as operators |
| `Merkle` | roots, proofs and their verification, as operators |
| `Quotes` | feeds, prices, the deviation gate off chain and the minimum output on chain, as operators |
| `RebalanceController` | RC |
| `PurchaseRail` | FC, BB, RA and OG over RC, using the split of `Allocation` |
| `Indexer` | ingest and snapshot over a chain that grows and reorganises |
| `PayoutLedger` | abstract: money pending, owed and paid, as the reward rail promises it |
| `EpochLog` | abstract: the exactly-once log of epochs the keeper promises |
| `Keeper` | the epoch cycle over the chain and the file ledger |
| `PgStepStore` | the Postgres ledger, statement by statement |
| `StepLedger` | ids and records of the file and memory ledgers across restarts |
| `StandaloneProofs` | theorems of `RewardVault` and `EligibilityRegistry`, alone and inside `RewardDistributor`, of `PgStepStore` and `StepLedger` |
| `PurchaseRailProofs` | theorems of `RebalanceController` and `PurchaseRail` |
| `RewardDistributorProofs`, `RewardRailProofs`, `KeeperProofs`, `IndexerProofs` | theorems of the module in the name |
| `AllocationProofs` | induction on numbers and finite sets, sums, and the theorem of the two splits |
| `AlgorithmProofs` | theorems of `Merkle` and `Quotes`, and the invariants of `MCAlgorithms` |
| `MC*` | sets, model values and symmetry for TLC; `MCAlgorithms` enumerates the inputs of the operators, `MCStandalone` puts the parts that work by themselves side by side |

Operators named in a comment as *Mutant* stand immediately before the definition
they vary: each is that definition with a plausible bug in it, and exists so that
every checked property is known to fail when the code would be wrong. They take
part in no specification.

### Correspondence with the code

* **RewardVault.** One action per function; the sender is a parameter where the
  code looks at it. `received` is the balance difference `receiveRewardAsset`
  measures, chosen freely, so a fee-on-transfer token is among the inputs.
  `RedeemEach` is all the `redeem` calls of one claim, one per token: within one
  transaction nothing can come between them. `holdings` and `redeemed` are
  history: what arrived at the claimants.
* **EligibilityRegistry.** An EIP-191 signature is the message it signs; forging
  is excluded, replaying is not. `CrossThreshold` is the wallet trading PENNY.
* **RewardDistributor.** Epoch `e` is index `e - 1` of the contract, so that
  `lastClaimed = 0` is "nothing yet". A root is its manifest (collision
  resistance assumed), a Merkle proof is membership among the holders. Every
  transaction is one step. `claimForMany` is the exception, because its entries fail
  or succeed one by one through an external self-call: `batch` holds the entries
  left, and every other action waits for it, as the EVM would. `DeliverOne`
  skips an entry exactly when `deliverOne` would revert. `claimUpTo` is one
  step over the span of epochs; `InOrder` says that none of its inner claims reverts.
* **RewardRail.** `BuildAndPublish` is `buildEpoch` and its publication:
  assets are those with deposits above the watermark, `ApplyCumulative` drops the
  keys of other assets as `cumulative.ts:20` does, and the split of a deposit is
  any split (`AllocateIsASplit` proves that the real one is among them). `due` is history: what a wallet
  was ever allocated.
* **RebalanceController.** `pending` keeps the index of a removal, which is
  checked when the change is applied (`stale removal`). Role checks are left out,
  which only adds behaviours. `verified` is the verifier's answer and may flip.
* **PurchaseRail.** A transaction that reverts is a disabled action.
  `Purchase(amount)` is `purchaseBasket` on a balance of `amount`; `Sweep` hands
  it the balances of collector and buyer together, because the transfer comes
  first. A staged route is the amount of WETH its calldata pulls. All WETH in an
  adapter comes back with the first leg, so stray WETH counts into `Leftover`.
  `SetAdapter` installs any adapter: a new one, or one that still has staged routes, allowed
  routers and WETH from before. `retired` is the WETH in adapters that are not installed, and
  the one taken into service may hold any of it.
* **Keeper.** `pc` is the job to run next and `ctx` is `CycleContext`. Each job
  reads the chain in its own step, and `NewBlock`, `Reorganise` and `Mine` fall between
  them. `publishIfNeeded` is three steps (probe, send, await). `mempool` is in order
  of account nonces, so transactions of one keeper account are mined in order;
  a rejected one reverts. `intent` and `activation` are the last records
  `history` returns, `onDisk` is what a replay of the file would find; `StartCycle` is
  `reconcileCursor`. The faults are a job that throws, after which the same process runs the
  next cycle (`JobFails`), a death of the process (`Crash`), a record that goes unseen (`PutUnseen`: `seal` swallows the error of a put, or the clock orders the
  record before an older one), a torn last line (`onDisk.torn`) that takes the next
  record with it, and a deposit whose block is replaced (`Reorganise`). Four constants
  say which of them a run lets happen; `LosesPublish` is about the first two and says whether
  they may strike while a publish is sent and not mined.
* **Indexer.** A block hash is its height and the number of the fork that mined it. An
  ingest is four steps (window, `getBlocks`, `getTransfers`, commit): the calls are
  awaited one by one, the commit is local. `Commit` is `ingestRange` once it has read
  everything: disagreeing heights and all above go, then blocks and rows are upserted. A
  restart empties `MemoryStore`, the only store the keeper is wired with. `unread` is
  history: heights whose block changed since they were last ingested. `snap.complete`
  says whether any block up to the snapshot was missed.
* **Merkle.** The hash of a sorted pair is the set of the two, which is commutative
  and injective; everything else (levels, odd last nodes, places halved level by level)
  is as in `merkle.ts`. Its loops, like those of the splits, are recursive functions on the
  number of rounds, so that they can be proved about.
* **Quotes.** A feed is its last round and its configuration. 0 stands for "no
  price" and "no route", as in the code.
* **PgStepStore.** A call is BEGIN, its statement, COMMIT, and ROLLBACK when one of
  the last two throws. `client` chooses between a pooled connection per call and one
  injected client for all, whose session is then shared by every call in flight. A
  statement of a transaction that failed earlier fails, and its COMMIT rolls back.
* **StepLedger.** `records` are what a replay rebuilds (file) or what a restart
  forgets (memory); `DeleteStep` leaves a tombstone; after a
  restart an id without records is free again, whether they were deleted or never put.

## 3. Runs

Passing runs, with their bounds (all `.cfg` values are bounds unless a constant of
the contract is named):

| run | config | bounds | properties and what they show |
|---|---|---|---|
| standalone | `MCStandalone.cfg` | see below | six parts, of which a behaviour chooses one |
| distributor | `MCRewardDistributor.cfg` | 2 wallets, 1 token, 2 epochs, 1 unit, delay 1 | `PaidIsClaimed`, `ClaimedRestsOnActiveRoot`, `TotalsOrderedAndFunded`, `ActiveRootsAreFinal`, `ProgressIsKept`, and `TypeOK`, with arbitrary manifests |
| reward_rail | `MCRewardRail.cfg` | 2 wallets, 2 tokens, 3 epochs, 2 units of each token or 3 of one, time to 2 | `Solvent`: the leaves of all live roots never promise more than the vault has, all claimed at once in any order. Refinement `ImplementsPayout`: money comes in, all that is pending of a token is divided and owed, wallets really receive parts of what they are owed, and nothing else moves. `StableListNeverStrands`, `StableListKeepsTotals`: as long as one token list is used throughout, skipping, cancelling, leaving and returning lose nothing |
| indexer | `MCIndexer.cfg` | treasury and a holder, supply 2, depth 2, window 2, height 4, 2 reorganisations | `StoreMirrorsChain`: at every height ingested since its block last changed, block and row are the chain's, so nothing of an abandoned fork is left. `SnapshotsAreFinal`: a snapshot that missed no block stays that of the chain |
| keeper | `MCKeeper.cfg` | 2 wallets, 3 deposits, 4 blocks, 2 faults | `LumpedOnce`, `WatermarkDivides`, `FrontierExplained`, `KeeperTypeOK`; refinement `ImplementsLog`; liveness `EveryDepositIsShared`, with reorganisations ahead of the funding read, failed jobs and deaths except while a publish is pending, and `root-activate` records that go unseen (`root-propose` records are seen) |
| purchase | `MCPurchaseRail.cfg` | 2 stocks, 1 founding, ceiling 2, 1 router, 3 wei in all, 1 of them past the front door, routes of 1 or 2 wei with deadlines 2 and 4, a new adapter and a used one on the shelf, TTL 1 or 2, sweep threshold 0, time to 4 | `WethAccounted`, `PurchaseIsWhole`, `FeesLeaveAsStock`, `RouteServesOnce`, `BoughtInSession`, `PurchaseTypeOK` |

The parts of `standalone`:

| part | bounds | properties |
|---|---|---|
| vault | 2 wallets, a stock and WETH, 3 callers, 3 units per token | `CustodyCoversRecord`: the deposit record is backed by balance or payments (needs the measured-amount check and the recovery guard together). `RewardAssetsLeaveByRedeem`: WETH, PENNY and anything ever deposited leave by redemption only |
| registry | 2 wallets of which one signs and switches, 1 signer, nonces to 3, time to 1 | `ConsumedIsSpent`, `OneMessagePerNonce`: a signature works once, and messages for one nonce exclude each other, whoever submits them when |
| rotation | 4 stocks, 1 founding, ceiling 3, timelock 2, time to 11 (five full rotations) | `BasketIsActiveSet`, `BasketWithinBounds`, `PendingNeverStuck`, `OnlyTimelockedRotation` |
| step store | 2 puts and 2 allocations in flight, with and without an injected client | `ReportedIsDurable`: a put that returned is committed, unless it shares a client on which a statement failed. `CycleIdsUnique` |
| ledger | file and memory, 2 jobs, 4 cycles | `IdsAreFresh`: no cycle runs under an id that has a record of another cycle, although an id is written nowhere until its first record |
| algorithms: splits | 4 places, weights to 5, amounts to 9 | `BuyerSplitsExactly`, `IndexerSplitsExactly`, `SplitsAgree` on every input |
| algorithms: trees and quotes | up to 7 leaves; 2 legs, prices of three digits, 43 outputs, 20 "basis points" in the whole, gate at 1 and slippage bound at 2 of them | `ProofsVerify`: the proof of a leaf verifies for that leaf and for no other leaf of the tree. `GatedQuoteMeetsMinimum`: with a gate stricter than the slippage bound, a cycle it lets through meets every minimum output on chain, at prices of a dollar or more (`Precise`) |

Why the bounds suffice. The hazards of the distributor need two roots (an order
between them), one cancellation, two wallets (a batch with a failing entry, one
absent holder) and one unit of a token; the rail needs three epochs for a token, or a
wallet, that leaves and comes back and a second token for lists that differ. Every epoch
over a list needs a new unit of each of its tokens, so a wallet that is present, absent and
present again under one list takes three units of one token (`MaxDeposit`); several tokens
get two units each (`MaxTogether`). The
removal-by-swap of the basket needs three places and a fourth stock to come in
its stead. Three wei over two stocks give every rounding case of a 50/50 basket (an
exact split, a split with a wei left over, an empty leg). A session opened at second 1 with
a TTL of 1 has run out at second 3, where raising the TTL to 2 revives it; second 4 is past
any TTL, and a route with deadline 2 expires on the way. A sweep threshold only ever blocks a sweep. The keeper needs deposits in
different windows and one that moves, a block during the cycle, and two faults (one
that leaves an epoch unrecorded, one in the repair). The indexer needs a chain longer
than the window, a window no shorter than a reorganisation, and two reorganisations (one
between two calls of an ingest, one after it). Two calls of each kind are enough for
statements of Postgres to interleave in every way that a third would repeat.
Seven leaves are the first tree with odd levels at two heights. Deadlock is
checked in `keeper`, `purchase` and the violating runs over `Keeper`; elsewhere the
system may really stop when nothing is left within the bounds.

The six runs that are expected to find a violation state what a document or comment
promises and the code does not do:

* `removed_token_stranded`: "roots never expire" (`RewardDistributor.sol:15-16`)
  and removed-token rewards "remain claimable forever" (`DECISIONS.md:96-97`), but
  a claim reverts as a whole when one token's leaf is behind. Publish {A, B}, then
  {B}; a wallet that claims the second root first has lost A from the first one. Leaves
  are also not "genesis-total per token ADDRESS" (`RewardDistributor.sol:285-287`):
  `applyCumulative` keeps only the assets of the current epoch.
* `publish_in_flight`: "a deposit lumped into a published epoch can never be lumped
  again" (`DECISIONS.md:34`). The process dies, or the publish throws (an RPC error, a receipt
  that does not come in time), while the transaction is sent but not mined; the next cycle
  builds a second root over the same deposits: the drift check compares epoch indices, not
  roots (`steps.ts:341`).
* `deposit_reorged`: the same promise. `runFunding` reads up to the unconfirmed tip;
  a deposit whose block is replaced after the read is mined again above the watermark
  and lumped by the next cycle too.
* `torn_tail`: "torn tail can never occur with fsync writes; skip defensively"
  (`ledger.ts:63`). Replay skips an unparsable line, but the next append continues it, so
  that record is lost at the restart after.
* `no_backfill`: "The sum of all non-zero balances at any block equals the circulating
  supply" (`snapshot.ts:13-14`). Only the window below the tip is ever ingested: a first
  ingest, once the chain has outgrown the window, misses the mint. A restart empties the store
  and makes the next ingest a first one.
* `opt_in_withdrawn`: "Nonce prevents replay of a stale enable after the wallet
  disables (and vice versa)" (`EligibilityRegistry.sol:68-69`), but a direct `setAutoDelivery`
  leaves the nonce alone. A signed message overridden by a direct call the other way can still
  be submitted and takes effect: a disable after a direct enable, as in the trace, or an enable
  after a direct disable.

`deposit_reorged`, `torn_tail` and `publish_in_flight` each turn on one constant that `keeper`
has off; `keeper` shows that without the three, and with the faults it has on (jobs that fail
and deaths while nothing is pending, activation records that go unseen), nothing else breaks
the promise. An intent that goes unseen is off in every run; see below.

Smaller things the modelling showed, for which no run exists because no sentence
of the repository is contradicted, or only its wording:

* On an injected Postgres client a statement that fails takes the open transaction of
  every call in flight with it: a put whose COMMIT then returns is not
  durable. Pooled connections do not have this. `ReportedIsDurable` and `CycleIdsUnique` leave
  the case out (`Isolated`): they speak of pooled connections, whatever fails, and of a shared
  client as long as no statement on it fails. Without `Isolated` TLC refutes the first of them.
* `quotes.ts` rounds the deviation down twice, so with the gate and the slippage bound at
  the same number a leg may pass the gate and revert on chain.
* A `root-propose` record that goes unseen, followed by a death after the publish, leaves
  an epoch the ledger cannot explain; the drift check then stops every later cycle for an
  operator. It can also mislead recovery, when an older intent has the same root: a cycle
  records its intent and dies before it publishes; a reorganisation moves the deposit to a
  later block; the next cycle builds the same leaves, its own `root-propose` goes unseen, it
  publishes and its `root-activate` goes unseen too. `reconcileCursor` knows an intent by
  its root alone (`steps.ts:230-232`) and adopts the older one, whose watermark lies below the
  deposit, so the next window lumps the deposit again. With `UnseenRecords` of both jobs,
  `MaxFaults = 3` and one deposit TLC finds this as a violation of `LumpedOnce`; two
  faults do not suffice.
* `ledger.ts:16-17` says that a cycle id is on disk before it is used; `nextCycleId`
  writes nothing. `IdsAreFresh` holds all the same, because a restart reuses only ids
  without records.
* Two records of one millisecond are ordered by ascending cycle id in
  `ledger.ts` and descending in `pg-store.ts:83`.
* `config.ts:21` describes the rescan window as behind the confirmed cursor; `pipeline.ts`
  starts it at the tip.
* `forkAt`, `lowestStored` and `validateSupplySum` are called by nothing.

### Fairness

Only `FairKeeperSpec` assumes any. Weak fairness of `Work` (the jobs that do not
depend on outside conditions) says that the operator runs `runCycle` again after
every cycle, completed, failed or cut off by a crash: a run resumes from the ledger,
"never duplicate" (`docs/operations-runbook.md:23`), and each of its jobs ends in the code by
returning or throwing. Weak fairness of `Mine` says that the chain executes transactions. `SF(BasketPurchase)` says that a purchase job, tried
again and again, succeeds again and again: it stays enabled in the model, and
`PurchaseFails` competes with it, standing for closed sessions and missing
routes. `SF(Snapshot)` with a non-empty set says that somebody is eligible again
and again. Faults are bounded, deposits are not required to happen. Without
either strong assumption the code makes no progress by design: it publishes nothing
in a cycle whose purchase failed or that has no holders.

## 4. Proofs

TLAPS proves 50 theorems (listed in `PROJECT.json`) for all values of the constants, under
the named assumptions of the modules (`VaultAssumption`, `RegistryAssumption`,
`DistributorAssumption`, `RailAssumption`, `BasketAssumption`, `PurchaseAssumption`,
`KeeperAssumption`, `IndexerAssumption`, `PgAssumption`, `LedgerAssumption`,
`QuotesAssumption`, `AlgorithmAssumption`; TLC evaluates each of them on the runs). Where sums
are proved about, the sets summed over are finite: wallets and stocks are addresses.
With them every safety and action property of a passing run is a theorem.

* **`AllocationProofs`**: the groundwork for everything that adds up or recurs. The library's
  induction theorems take an operator and cannot be instantiated here; `Inductive` and
  `FiniteInductive` take the set of the numbers, or subsets, a formula holds of instead, and
  rest on the well-foundedness of `<`. A sum is a fold, which is a recursive function on the
  subsets of a finite set: `IterExists` shows that it exists, `SumTakesAny` that the order of
  the terms does not matter, and from there sums are monotone, linear, and the same under a
  change of index. `SplitsAreExact` is the theorem of both splits, for any amount, number of
  places and weights: after `k` rounds of the loop some `k` places have one unit each, all with
  positive residue, none of them behind a place that has none (`AfterUnits`); the residues
  left are worth as many whole units as are owed, so the next round finds a positive one; and
  the set of favoured places is the one the sort ranks first.
* **`AlgorithmProofs`**: `ProofsAreSound` for trees of any number of leaves. `Reached` is the
  invariant of the climb: the proof so far leads the leaf, and nothing else, to its node, which
  rests on the hash of a pair being injective in either element; a level of more than one
  node is longer than the next, so as many rounds as leaves end at the root. `GatedCycleMeetsMinimum`
  is arithmetic about four roundings (dollars, execution price, deviation, minimum
  output). The bound on the price in `Precise` came out of the proof: below a dollar the dollars
  rounded off may be worth a token unit, and a dust trade may fail. The three theorems of the
  splits over `AlgorithmSpec` follow from `SplitsAreExact`: the inputs TLC enumerates are
  inputs it speaks of, whatever the bounds.

* **`RewardDistributorProofs`**: `TypeCorrect`, `PaymentsAreBooked`,
  `PaymentsRestOnActiveRoots`, `TotalsAreFunded` for `Spec`. The inductive invariant
  `IInv` is the conjunction of the four. Type correctness says more than it seems:
  that a balance or a redeemed amount is a natural number is that no claim path
  overdraws the vault. The order of totals is inductive although a root is only
  compared with the last one, because `committedTotals` dominates the totals of
  every root so far. That a root with a payment cannot be cancelled rests on time:
  it is active, and `cancelEpoch` needs `now < activatesAt`. The catch-up
  (`claimUpTo`) pays the last epoch of the span that lists a token; its existence is
  proved by well-founded induction on a finite set of integers. The action properties
  `RootsAreFinal` and `ProgressIsNeverLost` need `PositionsPublished` besides (no wallet's
  position is past the published epochs), without which the catch-up could not be shown
  to move forward within them.
* **`RewardRailProofs`**: `PaymentsStayWithinAllocation`, `StableListsKeepTotals`,
  `StableListsNeverStrand`, `VaultIsSolvent` and `RailImplementsPayout` for `RailSpec`. Every step of the rail is a step of the distributor
  or leaves it alone, so `IInv` carries over. `AuthorInv` relates the author's books to the
  leaves: neither the map nor a leaf exceeds what was allocated, the newest root holds
  the map, and under one token list leaves only grow from root to root and what a wallet has
  claimed is one whole row of one root. The last two are what make any order of claims safe.
  `Solvent` needs the three equations of `MoneyInv` besides: custody covers the record, what was
  allocated over all wallets and what is not lumped yet make the deposits, what was paid over all
  wallets makes the redemptions. A wallet can draw at most what it was allocated less what it
  was paid (`OutstandingIsDue`); summed over the wallets that is no more than the vault holds.
  `RailImplementsPayout` maps pending to the deposits above the watermark and paid to what
  wallets hold: a deposit is received, a build divides (its split adds up to what was pending),
  every claim path pays its wallet and leaves it within what it is owed, because what it booked
  is a leaf and a leaf is never above the allocation; all else is a stutter.
  `RailIsDistributor` states the same of whole behaviours: `RailSpec` implies `Spec`, so what
  is proved of the contracts for any manifest holds with the indexer's.
  `AllocateIsASplit` closes what `RewardRail` leaves open: the shares that the indexer's sort
  gives, put back on the wallets, are one of the splits over which a build ranges.
* **`StandaloneProofs`**: `RecordIsBacked` and `RewardAssetsStay` for `VaultSpec`, from
  `VaultTypeOK /\ CustodyCoversRecord`: the recovery guard keeps a recorded unit in the
  vault, the measured deposit makes the record no more than what arrived.
  `SignaturesAreSpent` and `NoncesAreExclusive` for `RegistrySpec`: a consumed message has a
  nonce below the current one, and a nonce only grows.
  All four hold where the parts are called, too. `DistributorKeepsRegistry`: every behaviour of
  `Spec` is one of `RegistrySpec`, since claims read the gate and never move it, hence
  `DeliveriesRestOnOneOptIn`. The vault takes more: a claim of several tokens is several
  `redeem` calls in one transaction, not one step of `VaultSpec`, so `RecordIsBackedInside` and
  `RewardAssetsStayInside` carry `VaultInv` through every step of the distributor, with
  `RedeemEachKeepsInv` for what a payment takes (that a payment is never negative is the
  distributor's check that no leaf is behind what was claimed).
  `ReportedPutsAreDurable` and `CycleIdsAreUnique` for any number of calls,
  from what each open transaction has written and who waits in it (on a shared client the
  exception is a statement that failed); `CycleIdsAreFresh`: the allocator is never behind the
  ids of the map.
* **`PurchaseRailProofs`**, on the basket: `BasketAgrees`, `BasketStaysWithinBounds`,
  `PendingIsApplicable`, `RotationIsTimelocked`, `WeightsStayWhole` for `RebalanceSpec`. `BasketInv` is type
  correctness with the first three: none is inductive alone, since floor and ceiling are
  checked only when a change is proposed and only the single pending slot keeps them true.
  The lemmas about `WithoutIndex` say what removal by swap keeps. `WeightsAreWhole` has
  no run of its own: the purchase run checks it through `PurchaseIsWhole`. `PaidWithinAllocation`
  has none either: `ImplementsPayout` says it step by step.
* **`PurchaseRailProofs`**, on the rail: `RailTypeCorrect`, `RoutesServeOnce`, `BuysInSession`,
  `EveryWeiAccounted`, `FeesBuyStock`, `PurchasesAreWhole` for `PurchaseSpec`.
  Every step of the rail is a step of the controller or leaves it alone (`RailStepsRebalance`),
  so `BasketInv` carries over, and with `RailKeepsBasket` (`PurchaseSpec` implies
  `RebalanceSpec`) every theorem about the basket; the rest of the invariant is the type of the rail, in which
  `sessionTtl \in 1 .. MaxTtl` is what the session argument needs. The last three rest on
  `PurchasePullsShares`: no route may pull more than its share, the shares make up the amount
  (`SplitsAreExact` with the weights of `WeightsAddUp`), and a purchase that leaves
  nothing over pulls at least the amount; so every route pulled exactly its share, and the
  adapter had held nothing. That is why stray WETH in an adapter stops purchases until it is
  replaced, and why it never distorts one.
* **`KeeperProofs`**: `KeeperTypeCorrect`, `DepositsAreLumpedOnce`, `WatermarkAlwaysDivides`,
  `FrontierIsExplained`, and `KeeperImplementsLog`: every step of `KeeperSpec` is a step of
  `EpochLog` under the refinement mapping, or a stutter. `KeeperInv` says what the recorded
  cursor divides, that at most one epoch is on chain beyond it and that it is the intent's, and
  what the running cycle has read and built so far. All are proved under
  `Contained`, a hypothesis of each theorem: neither a death nor a failing job loses sight of a
  publish that is pending, no line is torn, no deposit moves that the cycle has read, and the record of
  `root-propose` is seen. The first three are what the runs `publish_in_flight`, `torn_tail` and
  `deposit_reorged` let happen and refute; without the fourth `FrontierIsExplained` is false, and with an unseen
  activation and a reorganisation besides so are `LumpedOnce`, `WatermarkDivides` and
  `ImplementsLog` (see the remarks in section 3). Deaths and failing jobs anywhere else, unseen activation records and
  reorganisations ahead of the read remain in.
* **`IndexerProofs`**: `StoreIsTheChain` and `SnapshotsStayFinal` for any holders, window,
  depth and bounds. `IndexerInv` rests on fork numbers that never come back: a stored block
  that is on the chain was read from it and has not changed since, so its row is the chain's;
  heights above the window of the ingest in progress are unread; a snapshot lies below whatever
  may still reorganise.

Left to TLC. Liveness (`EveryDepositIsShared`): it needs fairness and ENABLED, which the
prover does not do. `BalancesSumToSupply` and the other properties of the runs expected to
fail are false and have no proof.

## 5. Not modelled

* ABI encoding, canonical JSON, the content hash and EIP-191: idealised as above. A
  hash is taken to be injective.
* The call into a Chainlink aggregator, `setFeed`, and `setMaxSlippageBps` as an action: in
  `PurchaseRail` an underdelivering route is a revert; `Quotes` has the arithmetic. Overflow
  of 256-bit products is left out (Solidity reverts on it).
* Roles and set-once wiring after deployment, except in the vault where the
  wiring is an action: an owner's call may come at any time.
* Monitor and metrics: in-memory tallies nothing reads back. Claim relay: it is armed by no
  configuration, and would run in the cycle that published, before the challenge delay. The
  fee monitor only logs.
* Attestation service and HTTP clients: wired to nothing, or I/O. An
  attestation may be issued by a signer at any time.
* The web application (a static page over a sample manifest), the SDK, ABIs, and configuration
  packages: no state.
* Postgres `get` and `delete`; a lost connection is a statement that fails. The `journals` row
  is there from the start: without it `rows[0]?.cycle ?? 0` (`pg-store.ts:164`) hands out the id
  `c0` every time. A COMMIT that is carried out although its reply is lost is left out.
* A batch of the chain source with a hole or two forks in it: `isContiguous` rejects it.
* Helpers no code calls.

## 6. What could come next

1. `setMaxSlippageBps` and feed configuration as actions of `PurchaseRail`, with `Quotes` as the
   guard of a leg, so that a price move between quote and purchase is a behaviour.
2. `Indexer` and `Keeper` in one module: a snapshot read by the cycle whose blocks come from
   the ingest before it, with the restart of both at once.
3. Runs expected to fail become regression runs once code or comment changes: each needs one
   constant turned off, or its property moved to a passing run.

## 7. Running

`tlc -config X.cfg M` for a row of section 3 (`M` is the module named in
`PROJECT.json`), `tlapm M.tla` for a proof module. The slowest run takes a few
minutes on two workers.
