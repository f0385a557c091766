----------------------------- MODULE RewardRail -----------------------------
(***************************************************************************)
(* The distributor with the author of its manifests: the indexer's         *)
(* buildEpoch as the keeper drives it.  Each epoch distributes exactly the *)
(* deposits no earlier epoch distributed, over the wallets that are        *)
(* eligible at the snapshot, on top of the cumulative map kept from the    *)
(* epoch before.                                                           *)
(*                                                                         *)
(* unlumped[t] is the deposits above the funding watermark, entitled the   *)
(* cursor's cumulative map, whose keys for an asset disappear when an      *)
(* epoch does not list it.  due is a history variable: what each wallet    *)
(* was ever allocated.  How deposits are split among wallets is left open; *)
(* Allocation checks the split itself.                                     *)
(***************************************************************************)
EXTENDS RewardDistributor, Functions

CONSTANT MaxTogether  \* bound: units of each token when more than one is deposited

\* Wallets are addresses.
ASSUME RailAssumption == IsFiniteSet(Wallets) /\ MaxTogether \in Nat

VARIABLES unlumped, entitled, due

authorVars == <<unlumped, entitled, due>>
railVars == <<vars, authorVars>>

Total(f) == FoldFunction(+, 0, f)

ZeroRows == [w \in Wallets |-> [t \in Tokens |-> 0]]

RailInit ==
  /\ DistributorInit
  /\ unlumped = [t \in Tokens |-> 0]
  /\ entitled = ZeroRows /\ due = ZeroRows

\* bound: the depth of epochs over one token and over several, apart.
WithinBounds(deposits) ==
  \/ \A t \in Tokens : deposits[t] <= MaxTogether
  \/ Cardinality({t \in Tokens : deposits[t] > 0}) <= 1

RailDeposit(t, amount) ==
  /\ Deposit(t, amount)
  /\ WithinBounds(lifetimeDeposits') \* bound
  /\ unlumped' = [unlumped EXCEPT ![t] = @ + amount]
  /\ UNCHANGED <<entitled, due>>

\* treeBuild: an asset is in the epoch when it has funding to distribute.
FundedAssets == {t \in Tokens : unlumped[t] > 0}

\* allocate: every split of the funding over the eligible wallets.
Splits(holders, t) ==
  {f \in [Wallets -> 0 .. unlumped[t]] :
     /\ \A w \in Wallets \ holders : f[w] = 0
     /\ Total(f) = unlumped[t]}

\* Mutant: the prior amounts are read from the leaves of the newest root, so a
\* wallet that was absent from it starts again from zero.
ApplyToLastLeaves(assets, delta) ==
  LET prior == IF epochs = <<>> THEN ZeroRows ELSE epochs[Len(epochs)].cumulative
  IN  [w \in Wallets |-> [t \in Tokens |->
         IF t \in assets THEN prior[w][t] + delta[t][w] ELSE 0]]

\* applyCumulative: prior plus delta for the assets of this epoch, and no
\* entry for any other asset.
ApplyCumulative(assets, delta) ==
  [w \in Wallets |-> [t \in Tokens |->
     IF t \in assets THEN entitled[w][t] + delta[t][w] ELSE 0]]

\* Mutants: a leaf holds this epoch's share; it holds the total of the asset.
ManifestOfShares(assets, holders, next) ==
  [tokens |-> assets, holders |-> holders,
   totals |-> [t \in Tokens |-> Total([w \in Wallets |-> next[w][t]])],
   cumulative |-> [w \in Wallets |-> [t \in Tokens |->
                     IF w \in holders /\ t \in assets THEN next[w][t] - entitled[w][t] ELSE 0]]]

ManifestOfTotals(assets, holders, next) ==
  LET totals == [t \in Tokens |-> Total([w \in Wallets |-> next[w][t]])]
  IN  [tokens |-> assets, holders |-> holders, totals |-> totals,
       cumulative |-> [w \in Wallets |-> [t \in Tokens |->
                         IF w \in holders THEN totals[t] ELSE 0]]]

\* The manifest of a cumulative map: leaves for the eligible wallets only,
\* totals over every wallet of the map.
ManifestOf(assets, holders, next) ==
  [tokens |-> assets, holders |-> holders,
   totals |-> [t \in Tokens |-> Total([w \in Wallets |-> next[w][t]])],
   cumulative |-> [w \in Wallets |-> [t \in Tokens |->
                     IF w \in holders THEN next[w][t] ELSE 0]]]

IsMonotone(t, next) == \A w \in Wallets : next[w][t] >= entitled[w][t]

\* reconcile, the gate before a root is proposed: this epoch's payments are in
\* the vault, and no entitlement to one of its assets falls.
Reconciles(assets, next) ==
  \A t \in assets :
    unlumped[t] <= vaultBalance[t] /\ IsMonotone(t, next)

BuildAndPublish(holders, delta) ==
  LET next == ApplyCumulative(FundedAssets, delta)
      m == ManifestOf(FundedAssets, holders, next)
  IN  /\ Reconciles(FundedAssets, next)
      /\ m \in Manifest
      /\ PublishEpoch(m)
      /\ entitled' = next
      /\ due' = [w \in Wallets |-> [t \in Tokens |->
                   IF t \in FundedAssets THEN due[w][t] + delta[t][w] ELSE due[w][t]]]
      /\ unlumped' = [t \in Tokens |-> 0]

AllSplits(holders) ==
  {d \in [Tokens -> UNION {Splits(holders, t) : t \in Tokens}] :
     \A t \in Tokens : d[t] \in Splits(holders, t)}

RailNext ==
  \/ \E holders \in SUBSET Wallets : \E d \in AllSplits(holders) : BuildAndPublish(holders, d)
  \/ \E t \in Tokens, amount \in Amounts \ {0} : RailDeposit(t, amount)
  \/ Others /\ UNCHANGED authorVars

RailSpec == RailInit /\ [][RailNext]_railVars

-----------------------------------------------------------------------------
Live(e) == ~epochs[e].cancelled

Offers(w, t) ==
  {e \in DOMAIN epochs : Live(e) /\ w \in epochs[e].holders /\ t \in epochs[e].tokens}

\* The most the leaves of roots that are active, or will be, let w still draw.
Outstanding(w, t) ==
  LET best == {epochs[e].cumulative[w][t] : e \in Offers(w, t)} \cup {claimed[w][t]}
  IN  (CHOOSE b \in best : \A c \in best : c <= b) - claimed[w][t]

\* The vault can pay every wallet everything any root will ever let it claim,
\* all at once, in every order, and still holds every deposit that no epoch
\* has distributed: through cancellations, absent wallets and token lists that
\* come and go.  The contract only checks totals, not leaves, and reconcile
\* only the payments of its own epoch; so that gate never blocks an epoch.
Solvent ==
  \A t \in Tokens :
    Total([w \in Wallets |-> Outstanding(w, t)]) + unlumped[t] <= vaultBalance[t]

\* No wallet is ever paid more than the deposits allocated to it.
PaidWithinAllocation ==
  \A w \in Wallets, t \in Tokens : claimed[w][t] <= due[w][t]

\* The claim of epoch e would not revert for w by the order of its values.
InClaimOrder(w, e) ==
  \A t \in epochs[e].tokens : epochs[e].cumulative[w][t] >= claimed[w][t]

\* Whatever an active leaf offers above what was paid can still be claimed
\* through some root: "roots never expire", removed-token rewards "remain
\* claimable forever" (D033).
NeverStranded ==
  \A w \in Wallets, t \in Tokens : \A e \in Offers(w, t) :
    epochs[e].cumulative[w][t] > claimed[w][t] =>
      \E f \in Offers(w, t) : /\ epochs[f].cumulative[w][t] >= epochs[e].cumulative[w][t]
                              /\ InClaimOrder(w, f)

SameListAlways == \A e, f \in DOMAIN epochs : epochs[e].tokens = epochs[f].tokens

\* As long as every epoch lists the same tokens, claims may come in any order,
\* skip epochs or be cancelled under, and nothing becomes unclaimable.
StableListNeverStrands == SameListAlways => NeverStranded

\* "The cumulative leaf values are genesis-total per token ADDRESS, so deltas
\* stay exact even when the epoch token lists change over time": a leaf of the
\* newest root carries everything ever allocated to its wallet.
LeavesAreGenesisTotals ==
  epochs # <<>> =>
    LET newest == epochs[Len(epochs)]
    IN  \A w \in newest.holders, t \in newest.tokens : newest.cumulative[w][t] = due[w][t]

\* With one token list throughout, that does hold: what a wallet was allocated
\* in cancelled roots, or before it left and came back, is in its next leaf.
StableListKeepsTotals == SameListAlways => LeavesAreGenesisTotals

\* The rail implements the payout ledger: deposits above the watermark are what
\* is pending, and what wallets really received is what was paid.  No step of
\* root, cancellation, claim, batch or catch-up moves money otherwise.
Payout == INSTANCE PayoutLedger WITH pending <- unlumped, paid <- holdings
ImplementsPayout == Payout!LedgerSpec
=============================================================================
