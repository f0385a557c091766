------------------------- MODULE RewardDistributor -------------------------
(***************************************************************************)
(* RewardDistributor.sol composed with the vault it pays from and the      *)
(* registry it asks: the life of a reward root (proposed, active after the *)
(* challenge delay, cancelled before it) and the claims made against it.   *)
(*                                                                         *)
(* A root commits to a manifest: the leaf of every holder is its           *)
(* cumulative entitlement per reward token, so a valid proof for w exists  *)
(* exactly for w's leaf.  Epoch e here is epoch index e - 1 of the         *)
(* contract, and lastClaimed[w] is the contract's next-unclaimed index.    *)
(* Nothing is assumed of a manifest but its shape: the contract cannot see *)
(* the leaves, and RewardRail adds the author that writes them.            *)
(*                                                                         *)
(* A transaction is one step, except claimForMany, whose entries succeed   *)
(* or are skipped one by one: `batch` holds the entries still to run, and  *)
(* no other step happens while there are any.                              *)
(***************************************************************************)
EXTENDS RewardVault, EligibilityRegistry, Sequences

CONSTANTS
  Buyer, Distributor,  \* the wired accounts of the vault
  ChallengeDelay,      \* seconds between proposal and activation
  MaxRewardTokens,     \* MAX_REWARD_TOKENS
  MaxEpochs            \* bound: epochs published

ASSUME DistributorAssumption ==
  /\ Wallets = HolderWallets
  /\ Scopes = 1 .. MaxEpochs
  /\ {Buyer, Distributor} \subseteq Accounts
  /\ ChallengeDelay \in Nat /\ MaxRewardTokens \in Nat /\ MaxEpochs \in Nat
  /\ IsFiniteSet(Tokens)

VARIABLES epochs, claimed, committedTotals, lastClaimed, batch

distributorVars == <<epochs, claimed, committedTotals, lastClaimed, batch>>
vars == <<vaultVars, registryVars, distributorVars>>

Manifest ==
  [tokens : SUBSET Tokens, totals : [Tokens -> Amounts],
   holders : SUBSET Wallets, cumulative : [Wallets -> [Tokens -> Amounts]]]

Idle == batch.rest = {}

\* DeployRail.s.sol wires the vault before anything flows.
DistributorInit ==
  /\ RegistryInit
  /\ rewardSource = Buyer /\ distributor = Distributor
  /\ lifetimeDeposits = [t \in Tokens |-> 0]
  /\ vaultBalance = [t \in Tokens |-> 0]
  /\ holdings = [w \in Wallets |-> [t \in Tokens |-> 0]]
  /\ redeemed = [t \in Tokens |-> 0]
  /\ epochs = <<>>
  /\ claimed = [w \in Wallets |-> [t \in Tokens |-> 0]]
  /\ committedTotals = [t \in Tokens |-> 0]
  /\ lastClaimed = [w \in Wallets |-> 0]
  /\ batch = [epoch |-> 0, rest |-> {}]

-----------------------------------------------------------------------------
\* The life of a root

IsEpochActive(e) ==
  /\ e \in DOMAIN epochs
  /\ ~epochs[e].cancelled
  /\ now >= epochs[e].activatesAt

\* No holder, no leaf, no root; a token list is sorted without duplicates, so
\* it is a set.  Only holders and listed tokens have values.
WellFormed(m) ==
  /\ m.holders # {} /\ m.tokens # {}
  /\ Cardinality(m.tokens) <= MaxRewardTokens
  /\ \A t \in Tokens \ m.tokens : m.totals[t] = 0
  /\ \A w \in Wallets, t \in Tokens :
       m.cumulative[w][t] > 0 => w \in m.holders /\ t \in m.tokens

\* Mutant: a root may total less than the one before it.
CoveredByDepositsOnly(m) == \A t \in m.tokens : m.totals[t] <= lifetimeDeposits[t]

Covered(m) ==
  \A t \in m.tokens : /\ m.totals[t] >= committedTotals[t]
                      /\ m.totals[t] <= lifetimeDeposits[t]

EpochOf(m) ==
  [tokens |-> m.tokens, totals |-> m.totals, holders |-> m.holders,
   cumulative |-> m.cumulative,
   activatesAt |-> now + ChallengeDelay, cancelled |-> FALSE]

PublishEpoch(m) ==
  /\ Idle
  /\ Len(epochs) < MaxEpochs \* bound
  /\ WellFormed(m)
  /\ Covered(m)
  /\ epochs' = Append(epochs, EpochOf(m))
  /\ committedTotals' = [t \in Tokens |->
       IF t \in m.tokens THEN m.totals[t] ELSE committedTotals[t]]
  /\ UNCHANGED <<vaultVars, registryVars, claimed, lastClaimed, batch>>

\* Mutant: a root can be cancelled after its activation.
CancelAnytime(e) ==
  /\ Idle
  /\ ~epochs[e].cancelled
  /\ epochs' = [epochs EXCEPT ![e].cancelled = TRUE]
  /\ UNCHANGED <<vaultVars, registryVars, claimed, committedTotals, lastClaimed, batch>>

CancelEpoch(e) ==
  /\ Idle
  /\ ~epochs[e].cancelled
  /\ now < epochs[e].activatesAt
  /\ epochs' = [epochs EXCEPT ![e].cancelled = TRUE]
  /\ UNCHANGED <<vaultVars, registryVars, claimed, committedTotals, lastClaimed, batch>>

-----------------------------------------------------------------------------
\* Claims

\* Mutant: the challenge delay is not awaited.
EntitledAtOnce(w, e) ==
  /\ ~epochs[e].cancelled
  /\ w \in epochs[e].holders
  /\ \E a \in Attestation : IsEligible(w, e, a)

\* _claim up to the payment: w holds a leaf of an active epoch and an
\* attestation for it.
Entitled(w, e) ==
  /\ IsEpochActive(e)
  /\ w \in epochs[e].holders
  /\ \E a \in Attestation : IsEligible(w, e, a)

\* The claimed row of w after the claim of epoch e, and what it pays.
RowAfter(w, e) ==
  [t \in Tokens |-> IF t \in epochs[e].tokens THEN epochs[e].cumulative[w][t]
                                              ELSE claimed[w][t]]

\* Mutants: the payment is not booked; the whole leaf is paid, not the delta.
PayWithoutBooking(w, row) ==
  /\ \A t \in Tokens : row[t] >= claimed[w][t]
  /\ RedeemEach(Distributor, w, [t \in Tokens |-> row[t] - claimed[w][t]])
  /\ UNCHANGED claimed

PayWholeRow(w, row) ==
  /\ \A t \in Tokens : row[t] >= claimed[w][t]
  /\ RedeemEach(Distributor, w, row)
  /\ claimed' = [claimed EXCEPT ![w] = row]

\* _payDeltas: all or nothing; no leaf value may be behind what was claimed.
PayRow(w, row) ==
  /\ \A t \in Tokens : row[t] >= claimed[w][t]
  /\ RedeemEach(Distributor, w, [t \in Tokens |-> row[t] - claimed[w][t]])
  /\ claimed' = [claimed EXCEPT ![w] = row]

\* Mutant: the position follows the last claim, not the furthest.
AdvanceToLast(w, e) == lastClaimed' = [lastClaimed EXCEPT ![w] = e]

Advance(w, e) ==
  lastClaimed' = [lastClaimed EXCEPT ![w] = IF e > @ THEN e ELSE @]

Settle(w, e) == Entitled(w, e) /\ PayRow(w, RowAfter(w, e)) /\ Advance(w, e)

Claim(w, e) ==
  /\ Idle
  /\ Settle(w, e)
  /\ UNCHANGED <<registryVars, epochs, committedTotals, batch>>

ClaimFor(w, e) == autoDelivery[w] /\ Claim(w, e)

\* claimForMany: deliveries of one epoch to a set of wallets, in any order
\* (a batch for an epoch that does not exist skips every entry, and so does
\* an entry of a wallet that never opted in: Next leaves both out).
ClaimForMany(e, deliveries) ==
  /\ Idle
  /\ deliveries # {}
  /\ batch' = [epoch |-> e, rest |-> deliveries]
  /\ UNCHANGED <<vaultVars, registryVars, epochs, claimed, committedTotals, lastClaimed>>

\* deliverOne would revert: the leaf is behind, or the vault is short.
Payable(w, e) ==
  \A t \in epochs[e].tokens :
    /\ epochs[e].cumulative[w][t] >= claimed[w][t]
    /\ epochs[e].cumulative[w][t] - claimed[w][t] <= vaultBalance[t]

DeliverOne(w) ==
  /\ w \in batch.rest
  /\ batch' = [batch EXCEPT !.rest = @ \ {w}]
  /\ UNCHANGED <<registryVars, epochs, committedTotals>>
  /\ \/ autoDelivery[w] /\ Settle(w, batch.epoch)
     \/ /\ ~(autoDelivery[w] /\ Entitled(w, batch.epoch) /\ Payable(w, batch.epoch))
        /\ UNCHANGED <<vaultVars, claimed, lastClaimed>>

\* claimUpTo: epochs lastClaimed[w] + 1 .. e in one transaction, cancelled
\* ones skipped, each claimed on top of the ones before it.
Span(w, e) == {f \in lastClaimed[w] + 1 .. e : ~epochs[f].cancelled}

Listing(span, t) == {f \in span : t \in epochs[f].tokens}

InOrder(w, span) ==
  \A t \in Tokens : \A f, g \in Listing(span, t) :
    /\ epochs[f].cumulative[w][t] >= claimed[w][t]
    /\ f < g => epochs[f].cumulative[w][t] <= epochs[g].cumulative[w][t]

RowAfterSpan(w, span) ==
  [t \in Tokens |->
     IF Listing(span, t) = {} THEN claimed[w][t]
     ELSE LET last == CHOOSE f \in Listing(span, t) : \A g \in Listing(span, t) : g <= f
          IN  epochs[last].cumulative[w][t]]

ClaimUpTo(w, e) ==
  /\ Idle
  /\ e > lastClaimed[w]
  /\ \A f \in Span(w, e) : Entitled(w, f)
  /\ InOrder(w, Span(w, e))
  /\ PayRow(w, RowAfterSpan(w, Span(w, e)))
  /\ lastClaimed' = [lastClaimed EXCEPT ![w] = e]
  /\ UNCHANGED <<registryVars, epochs, committedTotals, batch>>

-----------------------------------------------------------------------------
\* Steps of the vault and the registry, between transactions of the distributor

Deposit(t, amount) ==
  /\ Idle
  /\ ReceiveRewardAsset(Buyer, t, amount, amount)
  /\ UNCHANGED <<registryVars, distributorVars>>

Recover(t, amount) ==
  /\ Idle
  /\ RecoverAccidental(t, amount) \/ AccidentalTransfer(t, amount)
  /\ UNCHANGED <<registryVars, distributorVars>>

RegistryStep ==
  /\ Idle
  /\ RegistryChange
  /\ UNCHANGED <<vaultVars, distributorVars>>

ClaimStep ==
  \/ \E w \in Wallets, e \in DOMAIN epochs :
       Claim(w, e) \/ ClaimFor(w, e) \/ ClaimUpTo(w, e)
  \/ \E e \in DOMAIN epochs, d \in SUBSET SwitchWallets : ClaimForMany(e, d)
  \/ \E w \in Wallets : DeliverOne(w)

Others ==
  \/ \E e \in DOMAIN epochs : CancelEpoch(e)
  \/ ClaimStep
  \/ \E t \in Tokens, amount \in Amounts \ {0} : Recover(t, amount)
  \/ RegistryStep

Next ==
  \/ \E m \in Manifest : PublishEpoch(m)
  \/ \E t \in Tokens, amount \in Amounts \ {0} : Deposit(t, amount)
  \/ Others

Spec == DistributorInit /\ [][Next]_vars

-----------------------------------------------------------------------------
EpochRecord ==
  [tokens : SUBSET Tokens, totals : [Tokens -> Amounts],
   holders : SUBSET Wallets, cumulative : [Wallets -> [Tokens -> Amounts]],
   activatesAt : Nat, cancelled : BOOLEAN]

\* Types of the composed state (RewardDistributor.sol state variables).
TypeOK ==
  /\ VaultTypeOK /\ RegistryTypeOK
  /\ epochs \in Seq(EpochRecord)
  /\ claimed \in [Wallets -> [Tokens -> Nat]]
  /\ committedTotals \in [Tokens -> Nat]
  /\ lastClaimed \in [Wallets -> Nat]
  /\ batch \in [epoch : Nat, rest : SUBSET Wallets]

\* Every unit a wallet received was booked as claimed and every unit booked
\* was received, across claims, deliveries, batches with failing entries and
\* catch-ups: no path pays twice or books without paying.
PaidIsClaimed == holdings = claimed

\* What a wallet was paid in a token is exactly its leaf in some root that is
\* active: nothing is ever paid from a cancelled, pending or absent leaf, and
\* no root a payment rests on is ever taken away (D032).
ClaimedRestsOnActiveRoot ==
  \A w \in Wallets, t \in Tokens :
    claimed[w][t] > 0 =>
      \E e \in DOMAIN epochs :
        /\ IsEpochActive(e)
        /\ w \in epochs[e].holders /\ t \in epochs[e].tokens
        /\ epochs[e].cumulative[w][t] = claimed[w][t]

\* Committed totals follow the order of publication, cancelled roots included,
\* and the deposits of the vault cover the last of them (D026, D032).
TotalsOrderedAndFunded ==
  /\ \A t \in Tokens : committedTotals[t] <= lifetimeDeposits[t]
  /\ \A e \in DOMAIN epochs : \A t \in epochs[e].tokens :
       epochs[e].totals[t] <= committedTotals[t]
  /\ \A e, f \in DOMAIN epochs : \A t \in epochs[e].tokens \cap epochs[f].tokens :
       e <= f => epochs[e].totals[t] <= epochs[f].totals[t]

\* An active root stays active with the leaves it was published with, and a
\* cancelled one never comes back.
ActiveRootsAreFinal ==
  [][\A e \in DOMAIN epochs :
       /\ IsEpochActive(e) => IsEpochActive(e)'
       /\ epochs[e].cancelled => epochs'[e].cancelled
       /\ epochs'[e].cumulative = epochs[e].cumulative]_vars

\* The catch-up position of a wallet is "monotone, never rewound", stays
\* within the published epochs, and nothing paid is ever clawed back.
ProgressIsKept ==
  [][\A w \in Wallets :
       /\ lastClaimed'[w] >= lastClaimed[w] /\ lastClaimed'[w] <= Len(epochs')
       /\ \A t \in Tokens : holdings'[w][t] >= holdings[w][t]]_vars
=============================================================================
