-------------------------- MODULE StandaloneProofs --------------------------
(***************************************************************************)
(* Theorems of the parts that work by themselves.                          *)
(*                                                                         *)
(* RewardVault, for all accounts, wallets and tokens and every amount: the *)
(* record is backed, and reward assets leave by redeem.                    *)
(* EligibilityRegistry, for any wallets, signers and bounds: a signed      *)
(* auto-delivery message works once, and messages for one nonce exclude    *)
(* each other.  Both also inside RewardDistributor, which calls them.      *)
(* The step stores, for any number of calls: StepLedger never hands out    *)
(* the id of a record that another cycle left, and PgStepStore never loses *)
(* a put it reported nor hands out a cycle twice.                          *)
(***************************************************************************)
EXTENDS RewardDistributorProofs, PgStepStore, StepLedger, WellFoundedInduction, TLAPS

\* The inductive invariant: balances are numbers that cover the record.
VaultInv == VaultTypeOK /\ CustodyCoversRecord

\* Amounts are numbers.
LEMMA AmountIsNat == Amounts \subseteq Nat
  BY VaultAssumption DEF VaultAssumption, Amounts

\* The constructor leaves an empty vault.
LEMMA VaultInitInv == VaultInit => VaultInv
  BY DEF VaultInit, VaultInv, VaultTypeOK, CustodyCoversRecord

\* Wiring moves no token.
LEMMA WiringKeepsInv ==
  ASSUME VaultInv, NEW a \in Accounts, SetRewardSource(a) \/ SetDistributor(a)
  PROVE  VaultInv' /\ UNCHANGED <<lifetimeDeposits, vaultBalance, redeemed>>
  BY DEF VaultInv, VaultTypeOK, CustodyCoversRecord, SetRewardSource, SetDistributor

\* A recorded deposit arrives in full: the record and the balance grow alike.
LEMMA ReceiveKeepsInv ==
  ASSUME VaultInv, NEW a \in Accounts, NEW t \in Tokens, NEW amount \in Amounts,
         NEW received \in Amounts, ReceiveRewardAsset(a, t, amount, received)
  PROVE  VaultInv' /\ UNCHANGED redeemed /\ \A u \in Tokens : vaultBalance'[u] >= vaultBalance[u]
  BY AmountIsNat
  DEF VaultInv, VaultTypeOK, CustodyCoversRecord, ReceiveRewardAsset, Records

\* Redemptions of one claim take from the balances what they add to the payments.
LEMMA RedeemEachKeepsInv ==
  ASSUME VaultInv, NEW a, NEW w \in Wallets, NEW taken \in [Tokens -> Nat],
         RedeemEach(a, w, taken)
  PROVE  /\ VaultInv'
         /\ \A u \in Tokens : vaultBalance[u] - vaultBalance'[u] = redeemed'[u] - redeemed[u]
<1>1. \A u \in Tokens : taken[u] \in Nat /\ taken[u] <= vaultBalance[u]
  BY DEF RedeemEach
<1>2. \A u \in Tokens : /\ vaultBalance'[u] = vaultBalance[u] - taken[u]
                        /\ redeemed'[u] = redeemed[u] + taken[u]
  BY DEF RedeemEach
<1>3. vaultBalance' \in [Tokens -> Nat] /\ redeemed' \in [Tokens -> Nat]
  BY <1>1 DEF VaultInv, VaultTypeOK, RedeemEach
<1>4. holdings' \in [Wallets -> [Tokens -> Nat]]
  <2>1. [u \in Tokens |-> holdings[w][u] + taken[u]] \in [Tokens -> Nat]
    BY <1>1 DEF VaultInv, VaultTypeOK
  <2>2. QED
    BY <2>1 DEF VaultInv, VaultTypeOK, RedeemEach
<1>5. UNCHANGED <<rewardSource, distributor, lifetimeDeposits>>
  BY DEF RedeemEach
<1>6. VaultTypeOK'
  BY <1>3, <1>4, <1>5 DEF VaultInv, VaultTypeOK
<1>7. \A u \in Tokens : vaultBalance[u] \in Nat /\ redeemed[u] \in Nat
  BY DEF VaultInv, VaultTypeOK
<1>8. CustodyCoversRecord'
  BY <1>1, <1>2, <1>5, <1>7 DEF VaultInv, CustodyCoversRecord
<1>9. QED
  BY <1>1, <1>2, <1>6, <1>7, <1>8 DEF VaultInv

\* One redemption.
LEMMA RedeemKeepsInv ==
  ASSUME VaultInv, NEW a \in Accounts, NEW t \in Tokens, NEW w \in Wallets,
         NEW amount \in Amounts, Redeem(a, t, w, amount)
  PROVE  /\ VaultInv'
         /\ \A u \in Tokens : vaultBalance[u] - vaultBalance'[u] = redeemed'[u] - redeemed[u]
<1>1. [u \in Tokens |-> IF u = t THEN amount ELSE 0] \in [Tokens -> Nat]
  BY AmountIsNat
<1>2. QED
  BY <1>1, RedeemEachKeepsInv DEF Redeem

\* Recovery touches only tokens without a record, and stray transfers add.
LEMMA RecoveryKeepsInv ==
  ASSUME VaultInv, NEW t \in Tokens, NEW amount \in Amounts \ {0},
         RecoverAccidental(t, amount) \/ AccidentalTransfer(t, amount)
  PROVE  /\ VaultInv' /\ UNCHANGED redeemed
         /\ \A u \in Tokens : (u \in ProtectedTokens \/ lifetimeDeposits[u] > 0) =>
              vaultBalance'[u] >= vaultBalance[u]
<1>1. amount \in Nat /\ redeemed[t] \in Nat /\ vaultBalance[t] \in Nat
  BY AmountIsNat DEF VaultInv, VaultTypeOK
<1>2. CASE RecoverAccidental(t, amount)
  BY <1>1, <1>2 DEF VaultInv, VaultTypeOK, CustodyCoversRecord, RecoverAccidental, Recoverable
<1>3. CASE AccidentalTransfer(t, amount)
  BY <1>1, <1>3 DEF VaultInv, VaultTypeOK, CustodyCoversRecord, AccidentalTransfer
<1>4. QED
  BY <1>2, <1>3

\* What one step does: it keeps the invariant, and a reward asset leaves
\* only as far as payments grow.
LEMMA VaultStep ==
  ASSUME VaultInv, [VaultNext]_vaultVars
  PROVE  /\ VaultInv'
         /\ \A t \in Tokens : (t \in ProtectedTokens \/ lifetimeDeposits[t] > 0) =>
              vaultBalance[t] - vaultBalance'[t] <= redeemed'[t] - redeemed[t]
<1>1. \A t \in Tokens : vaultBalance[t] \in Nat /\ redeemed[t] \in Nat
  BY DEF VaultInv, VaultTypeOK
<1>2. ASSUME NEW a \in Accounts, SetRewardSource(a) \/ SetDistributor(a)
      PROVE  VaultInv' /\ UNCHANGED <<lifetimeDeposits, vaultBalance, redeemed>>
  BY <1>2, WiringKeepsInv
<1>3. ASSUME NEW a \in Accounts, NEW t \in Tokens, NEW amount \in Amounts,
             NEW received \in Amounts, ReceiveRewardAsset(a, t, amount, received)
      PROVE  VaultInv' /\ UNCHANGED redeemed
               /\ \A u \in Tokens : vaultBalance'[u] >= vaultBalance[u]
  BY <1>3, ReceiveKeepsInv
<1>4. ASSUME NEW a \in Accounts, NEW t \in Tokens, NEW w \in Wallets, NEW amount \in Amounts,
             Redeem(a, t, w, amount)
      PROVE  VaultInv' /\ \A u \in Tokens :
               vaultBalance[u] - vaultBalance'[u] = redeemed'[u] - redeemed[u]
  BY <1>4, RedeemKeepsInv
<1>5. ASSUME NEW t \in Tokens, NEW amount \in Amounts \ {0},
             RecoverAccidental(t, amount) \/ AccidentalTransfer(t, amount)
      PROVE  /\ VaultInv' /\ UNCHANGED redeemed
             /\ \A u \in Tokens : (u \in ProtectedTokens \/ lifetimeDeposits[u] > 0) =>
                  vaultBalance'[u] >= vaultBalance[u]
  BY <1>5, RecoveryKeepsInv
<1>6. CASE UNCHANGED vaultVars
  <2>1. VaultInv'
    BY <1>6 DEF VaultInv, VaultTypeOK, CustodyCoversRecord, vaultVars
  <2>2. UNCHANGED <<vaultBalance, redeemed>>
    BY <1>6 DEF vaultVars
  <2>3. QED
    BY <1>1, <2>1, <2>2
<1>7. VaultInv' => \A t \in Tokens : vaultBalance'[t] \in Nat /\ redeemed'[t] \in Nat
  BY DEF VaultInv, VaultTypeOK
<1>8. QED
  BY <1>1, <1>2, <1>3, <1>4, <1>5, <1>6, <1>7 DEF VaultNext

\* Both facts, as an invariant.
LEMMA VaultInvariant == VaultSpec => []VaultInv
<1>1. VaultInv /\ [VaultNext]_vaultVars => VaultInv'
  BY VaultStep
<1>2. QED
  BY VaultInitInv, <1>1, PTL DEF VaultSpec

\* Every recorded unit is in the vault or was paid to a claimant, whatever
\* fee a token keeps and whatever the owner recovers.
THEOREM RecordIsBacked == VaultSpec => []CustodyCoversRecord
<1>1. VaultInv => CustodyCoversRecord
  BY DEF VaultInv
<1>2. QED
  BY VaultInvariant, <1>1, PTL

\* WETH, PENNY and every token that ever was a reward asset leave the vault
\* only through redeem.
THEOREM RewardAssetsStay == VaultSpec => RewardAssetsLeaveByRedeem
<1>1. VaultInv /\ [VaultNext]_vaultVars =>
        [\A t \in Tokens : (t \in ProtectedTokens \/ lifetimeDeposits[t] > 0) =>
           vaultBalance[t] - vaultBalance'[t] <= redeemed'[t] - redeemed[t]]_vaultVars
  BY VaultStep
<1>2. QED
  BY VaultInvariant, <1>1, PTL DEF VaultSpec, RewardAssetsLeaveByRedeem

-----------------------------------------------------------------------------
(* The registry. *)

\* The inductive invariant: of the consumed messages each is behind its
\* wallet's nonce, so the next one consumed has a nonce of its own.
OptInInv == RegistryTypeOK /\ ConsumedIsSpent /\ OneMessagePerNonce

\* The deployed registry.
LEMMA RegistryInitInv == RegistryInit => OptInInv
<1> SUFFICES ASSUME RegistryInit PROVE OptInInv
  OBVIOUS
<1>1. RegistryTypeOK
  <2>1. /\ revoked \in [HolderWallets -> BOOLEAN] /\ autoDelivery \in [HolderWallets -> BOOLEAN]
        /\ aboveThreshold \in [HolderWallets -> BOOLEAN]
    BY Zenon DEF RegistryInit
  <2>2. /\ now \in Nat /\ autoDeliveryNonce \in [HolderWallets -> Nat]
        /\ requireLiveBalance \in BOOLEAN /\ attestationSigner \in Signers \cup {NoSigner}
    BY DEF RegistryInit
  <2>3. signedOptIns \subseteq OptIn /\ consumed \subseteq OptIn /\ withdrawn \subseteq OptIn
    BY DEF RegistryInit
  <2>4. QED
    BY <2>1, <2>2, <2>3 DEF RegistryTypeOK
<1>2. consumed = {}
  BY DEF RegistryInit
<1>3. QED
  BY <1>1, <1>2 DEF OptInInv, ConsumedIsSpent, OneMessagePerNonce

\* Setting a flag of a wallet leaves a function of flags.
LEMMA WalletFlagUpdate ==
  ASSUME NEW f \in [HolderWallets -> BOOLEAN], NEW w, NEW b \in BOOLEAN
  PROVE  [f EXCEPT ![w] = b] \in [HolderWallets -> BOOLEAN]
  BY Zenon

\* Steps that leave the opt-in state alone.
LEMMA GateKeepsInv ==
  ASSUME OptInInv, UNCHANGED optInVars, RegistryTypeOK'
  PROVE  OptInInv'
  BY DEF OptInInv, optInVars, ConsumedIsSpent, OneMessagePerNonce

\* A wallet's direct call and its signing consume nothing and leave nonces.
LEMMA WalletKeepsInv ==
  ASSUME OptInInv, NEW w \in SwitchWallets, NEW b \in BOOLEAN,
         SetAutoDelivery(w, b) \/ SignOptIn(w, b)
  PROVE  OptInInv'
<1>1. CASE SetAutoDelivery(w, b)
  <2>1. autoDelivery' \in [HolderWallets -> BOOLEAN]
    BY <1>1, WalletFlagUpdate DEF OptInInv, RegistryTypeOK, SetAutoDelivery
  <2>2. withdrawn' \subseteq OptIn
    BY <1>1 DEF OptInInv, RegistryTypeOK, SetAutoDelivery
  <2>3. RegistryTypeOK'
    BY <1>1, <2>1, <2>2 DEF OptInInv, RegistryTypeOK, SetAutoDelivery, gateVars
  <2>4. QED
    BY <1>1, <2>3 DEF OptInInv, ConsumedIsSpent, OneMessagePerNonce, SetAutoDelivery
<1>2. CASE SignOptIn(w, b)
  <2>1. [wallet |-> w, enabled |-> b, nonce |-> autoDeliveryNonce[w]] \in OptIn
    BY RegistryAssumption DEF RegistryAssumption, OptInInv, RegistryTypeOK, OptIn
  <2>2. RegistryTypeOK'
    BY <1>2, <2>1 DEF OptInInv, RegistryTypeOK, SignOptIn, gateVars
  <2>3. QED
    BY <1>2, <2>2 DEF OptInInv, ConsumedIsSpent, OneMessagePerNonce, SignOptIn
<1>3. QED
  BY <1>1, <1>2

\* Submitting a message moves its nonce past it: no consumed message has it.
LEMMA SubmissionKeepsInv ==
  ASSUME OptInInv, NEW m \in signedOptIns, SetAutoDeliveryBySig(m)
  PROVE  OptInInv'
<1>1. /\ m \in OptIn /\ m.wallet \in HolderWallets /\ m.enabled \in BOOLEAN /\ m.nonce \in Nat
      /\ m.nonce = autoDeliveryNonce[m.wallet] /\ consumed' = consumed \cup {m}
      /\ autoDeliveryNonce' = [autoDeliveryNonce EXCEPT ![m.wallet] = m.nonce + 1]
  BY DEF OptInInv, RegistryTypeOK, OptIn, SetAutoDeliveryBySig
<1>2. \A n \in consumed : n.wallet \in HolderWallets /\ n.nonce \in Nat
                            /\ n.nonce < autoDeliveryNonce[n.wallet]
  BY DEF OptInInv, RegistryTypeOK, OptIn, ConsumedIsSpent
<1>3. \A w \in HolderWallets : autoDeliveryNonce[w] \in Nat
        /\ autoDeliveryNonce'[w] = IF w = m.wallet THEN m.nonce + 1 ELSE autoDeliveryNonce[w]
  BY <1>1 DEF OptInInv, RegistryTypeOK
<1>4. RegistryTypeOK'
  <2>1. autoDelivery' \in [HolderWallets -> BOOLEAN]
    BY <1>1, WalletFlagUpdate DEF OptInInv, RegistryTypeOK, SetAutoDeliveryBySig
  <2>2. autoDeliveryNonce' \in [HolderWallets -> Nat] /\ consumed' \subseteq OptIn
    BY <1>1 DEF OptInInv, RegistryTypeOK
  <2>3. QED
    BY <2>1, <2>2 DEF OptInInv, RegistryTypeOK, SetAutoDeliveryBySig, gateVars
<1>5. ConsumedIsSpent'
  BY <1>1, <1>2, <1>3 DEF ConsumedIsSpent
<1>6. OneMessagePerNonce'
  <2>1. \A n \in consumed : ~(n.wallet = m.wallet /\ n.nonce = m.nonce)
    BY <1>1, <1>2
  <2>2. QED
    BY <1>1, <2>1 DEF OptInInv, OneMessagePerNonce
<1>7. QED
  BY <1>4, <1>5, <1>6 DEF OptInInv

\* The owner's settings, the balance and the clock.
LEMMA GateStep ==
  ASSUME OptInInv,
         \/ \E s \in Signers : SetAttestationSigner(s)
         \/ \E b \in LiveModes : SetRequireLiveBalance(b)
         \/ \E w \in SwitchWallets, b \in BOOLEAN : SetRevoked(w, b)
         \/ \E w \in SwitchWallets : CrossThreshold(w)
         \/ Tick
  PROVE  OptInInv'
<1> USE DEF OptInInv, RegistryTypeOK, gateVars, optInVars
<1>1. UNCHANGED optInVars
  BY DEF SetAttestationSigner, SetRequireLiveBalance, SetRevoked, CrossThreshold, Tick
<1>2. RegistryTypeOK'
  <2>1. ASSUME NEW s \in Signers, SetAttestationSigner(s) PROVE RegistryTypeOK'
    BY <2>1 DEF SetAttestationSigner
  <2>2. ASSUME NEW b \in LiveModes, SetRequireLiveBalance(b) PROVE RegistryTypeOK'
    BY <2>2, RegistryAssumption DEF SetRequireLiveBalance, RegistryAssumption
  <2>3. ASSUME NEW w \in SwitchWallets, NEW b \in BOOLEAN, SetRevoked(w, b) PROVE RegistryTypeOK'
    <3>1. revoked' \in [HolderWallets -> BOOLEAN]
      BY <2>3, WalletFlagUpdate DEF SetRevoked
    <3>2. QED
      BY <2>3, <3>1 DEF SetRevoked
  <2>4. ASSUME NEW w \in SwitchWallets, CrossThreshold(w) PROVE RegistryTypeOK'
    <3>1. aboveThreshold' \in [HolderWallets -> BOOLEAN]
      BY <2>4, WalletFlagUpdate DEF CrossThreshold
    <3>2. QED
      BY <2>4, <3>1 DEF CrossThreshold
  <2>5. ASSUME Tick PROVE RegistryTypeOK'
    BY <2>5 DEF Tick
  <2>6. QED
    BY <2>1, <2>2, <2>3, <2>4, <2>5
<1>3. QED
  BY <1>1, <1>2, GateKeepsInv

\* Every step of the registry.
LEMMA RegistryNextInv == OptInInv /\ [RegistryChange]_registryVars => OptInInv'
<1> SUFFICES ASSUME OptInInv, [RegistryChange]_registryVars PROVE OptInInv'
  OBVIOUS
<1>1. ASSUME NEW m \in signedOptIns, SetAutoDeliveryBySig(m) PROVE OptInInv'
  BY <1>1, SubmissionKeepsInv
<1>2. ASSUME NEW w \in SwitchWallets, NEW b \in BOOLEAN, SetAutoDelivery(w, b) \/ SignOptIn(w, b)
      PROVE  OptInInv'
  BY <1>2, WalletKeepsInv
<1>3. CASE UNCHANGED registryVars
  <2>1. RegistryTypeOK'
    BY <1>3 DEF OptInInv, RegistryTypeOK, registryVars
  <2>2. QED
    BY <1>3, <2>1, GateKeepsInv DEF registryVars, optInVars
<1>4. QED
  BY <1>1, <1>2, <1>3, GateStep DEF RegistryChange

\* The invariant holds throughout.
LEMMA OptInInvariant == RegistrySpec => []OptInInv
  BY RegistryInitInv, RegistryNextInv, PTL DEF RegistrySpec

\* A consumed signature can never be submitted again.
THEOREM SignaturesAreSpent == RegistrySpec => []ConsumedIsSpent
<1>1. OptInInv => ConsumedIsSpent
  BY DEF OptInInv
<1>2. QED
  BY OptInInvariant, <1>1, PTL

\* Two messages for one nonce never both take effect.
THEOREM NoncesAreExclusive == RegistrySpec => []OneMessagePerNonce
<1>1. OptInInv => OneMessagePerNonce
  BY DEF OptInInv
<1>2. QED
  BY OptInInvariant, <1>1, PTL

-----------------------------------------------------------------------------
(* Both inside the distributor: what is proved of the parts holds where they *)
(* are called, in every behaviour of the composition.                       *)

\* Every step of the distributor is a step of the registry or leaves it alone.
LEMMA DistributorStepsRegistry == [Next]_vars => [RegistryChange]_registryVars
<1> SUFFICES ASSUME [Next]_vars PROVE [RegistryChange]_registryVars
  OBVIOUS
<1>1. CASE \E m \in Manifest : PublishEpoch(m)
  BY <1>1 DEF PublishEpoch
<1>2. CASE \E t \in Tokens, amount \in Amounts \ {0} : Deposit(t, amount) \/ Recover(t, amount)
  BY <1>2 DEF Deposit, Recover
<1>3. CASE \E e \in DOMAIN epochs : CancelEpoch(e)
  BY <1>3 DEF CancelEpoch
<1>4. CASE ClaimStep
  BY <1>4 DEF ClaimStep, Claim, ClaimFor, ClaimUpTo, ClaimForMany, DeliverOne
<1>5. CASE RegistryStep
  BY <1>5 DEF RegistryStep
<1>6. CASE UNCHANGED vars
  BY <1>6 DEF vars
<1>7. QED
  BY <1>1, <1>2, <1>3, <1>4, <1>5, <1>6 DEF Next, Others

\* Every behaviour of the distributor is, for the registry, one of its own:
\* claims and deliveries read the gate and never move it.
THEOREM DistributorKeepsRegistry == Spec => RegistrySpec
<1>1. DistributorInit => RegistryInit
  BY DEF DistributorInit
<1>2. QED
  BY <1>1, DistributorStepsRegistry, PTL DEF Spec, RegistrySpec

\* So an opt-in that was consumed is spent and excludes the others of its
\* nonce, while deliveries that rest on it are made.
THEOREM DeliveriesRestOnOneOptIn == Spec => [](ConsumedIsSpent /\ OneMessagePerNonce)
  BY DistributorKeepsRegistry, SignaturesAreSpent, NoncesAreExclusive, PTL

\* What a step may take from the vault.
AssetsStay ==
  \A t \in Tokens : (t \in ProtectedTokens \/ lifetimeDeposits[t] > 0) =>
    vaultBalance[t] - vaultBalance'[t] <= redeemed'[t] - redeemed[t]

\* A payment is redemptions to one wallet.
LEMMA PayRowKeepsVault ==
  ASSUME TypeOK, VaultInv, NEW w \in Wallets, NEW row \in [Tokens -> Nat], PayRow(w, row)
  PROVE  VaultInv' /\ AssetsStay
<1> DEFINE taken == [t \in Tokens |-> row[t] - claimed[w][t]]
<1>1. taken \in [Tokens -> Nat]
  BY DEF PayRow, TypeOK
<1>2. RedeemEach(Distributor, w, taken)
  BY DEF PayRow
<1> HIDE DEF taken
<1>3. VaultInv' /\ \A u \in Tokens :
        vaultBalance[u] - vaultBalance'[u] = redeemed'[u] - redeemed[u]
  BY <1>1, <1>2, RedeemEachKeepsInv
<1>4. \A u \in Tokens : vaultBalance[u] - vaultBalance'[u] \in Int
  BY <1>3 DEF VaultInv, VaultTypeOK
<1>5. QED
  BY <1>3, <1>4 DEF AssetsStay

\* A step that does not call the vault.
LEMMA RestKeepsVault ==
  ASSUME VaultInv, UNCHANGED vaultVars
  PROVE  VaultInv' /\ AssetsStay
<1>1. [VaultNext]_vaultVars
  OBVIOUS
<1>2. QED
  BY <1>1, VaultStep DEF AssetsStay

\* One claim.
LEMMA SettleKeepsVault ==
  ASSUME TypeOK, VaultInv, NEW w \in Wallets, NEW e, Settle(w, e)
  PROVE  VaultInv' /\ AssetsStay
<1>1. e \in DOMAIN epochs
  BY DEF Settle, Entitled, IsEpochActive
<1>2. RowAfter(w, e) \in [Tokens -> Nat]
  BY <1>1, EpochFields DEF RowAfter, TypeOK
<1>3. QED
  BY <1>2, PayRowKeepsVault DEF Settle

\* Every step of the distributor: it pays, deposits or recovers, or rests.
LEMMA DistributorKeepsVault ==
  ASSUME IInv, VaultInv, [Next]_vars
  PROVE  VaultInv' /\ AssetsStay
<1>1. TypeOK
  BY DEF IInv
<1>2. CASE \E m \in Manifest : PublishEpoch(m)
  BY <1>2, RestKeepsVault DEF PublishEpoch
<1>3. ASSUME NEW t \in Tokens, NEW amount \in Amounts \ {0}, Deposit(t, amount)
      PROVE  VaultInv' /\ AssetsStay
  <2>1. Buyer \in Accounts /\ ReceiveRewardAsset(Buyer, t, amount, amount)
    BY <1>3, DistributorAssumption DEF Deposit, DistributorAssumption
  <2>2. [VaultNext]_vaultVars
    BY <2>1 DEF VaultNext
  <2>3. QED
    BY <2>2, VaultStep DEF AssetsStay
<1>4. ASSUME NEW t \in Tokens, NEW amount \in Amounts \ {0}, Recover(t, amount)
      PROVE  VaultInv' /\ AssetsStay
  <2>1. [VaultNext]_vaultVars
    BY <1>4 DEF Recover, VaultNext
  <2>2. QED
    BY <2>1, VaultStep DEF AssetsStay
<1>5. CASE \E e \in DOMAIN epochs : CancelEpoch(e)
  BY <1>5, RestKeepsVault DEF CancelEpoch
<1>6. ASSUME NEW w \in Wallets, NEW e \in DOMAIN epochs,
             Claim(w, e) \/ ClaimFor(w, e) \/ ClaimUpTo(w, e)
      PROVE  VaultInv' /\ AssetsStay
  <2>1. CASE Claim(w, e) \/ ClaimFor(w, e)
    BY <1>1, <2>1, SettleKeepsVault DEF Claim, ClaimFor
  <2>2. CASE ClaimUpTo(w, e)
    <3>1. RowAfterSpan(w, Span(w, e)) \in [Tokens -> Nat]
      BY <1>1, SpanRow
    <3>2. QED
      BY <1>1, <2>2, <3>1, PayRowKeepsVault DEF ClaimUpTo
  <2>3. QED
    BY <1>6, <2>1, <2>2
<1>7. CASE \E e \in DOMAIN epochs, d \in SUBSET SwitchWallets : ClaimForMany(e, d)
  BY <1>7, RestKeepsVault DEF ClaimForMany
<1>8. ASSUME NEW w \in Wallets, DeliverOne(w) PROVE VaultInv' /\ AssetsStay
  <2>1. CASE Settle(w, batch.epoch)
    BY <1>1, <2>1, SettleKeepsVault
  <2>2. CASE UNCHANGED <<vaultVars, claimed, lastClaimed>>
    BY <2>2, RestKeepsVault
  <2>3. QED
    BY <1>8, <2>1, <2>2 DEF DeliverOne
<1>9. CASE RegistryStep
  BY <1>9, RestKeepsVault DEF RegistryStep
<1>10. CASE UNCHANGED vars
  BY <1>10, RestKeepsVault DEF vars
<1>11. QED
  BY <1>2, <1>3, <1>4, <1>5, <1>6, <1>7, <1>8, <1>9, <1>10 DEF Next, Others, ClaimStep

\* The vault's invariant under everything the distributor does.
LEMMA VaultInvariantInside == Spec => [](IInv /\ VaultInv)
<1>1. DistributorInit => VaultInv
  <2> SUFFICES ASSUME DistributorInit PROVE VaultInv
    OBVIOUS
  <2>1. VaultTypeOK
    BY InitInv DEF IInv, TypeOK
  <2>2. CustodyCoversRecord
    BY DEF DistributorInit, CustodyCoversRecord
  <2>3. QED
    BY <2>1, <2>2 DEF VaultInv
<1>2. IInv /\ VaultInv /\ [Next]_vars => VaultInv'
  BY DistributorKeepsVault
<1>3. QED
  BY InitInv, NextKeepsInv, <1>1, <1>2, PTL DEF Spec

\* The record is backed while roots are published, claimed, delivered in
\* batches and caught up with: no claim takes what it does not book as paid.
THEOREM RecordIsBackedInside == Spec => []CustodyCoversRecord
<1>1. VaultInv => CustodyCoversRecord
  BY DEF VaultInv
<1>2. QED
  BY VaultInvariantInside, <1>1, PTL

\* Reward assets leave the composition only as payments of claims.
THEOREM RewardAssetsStayInside == Spec => RewardAssetsLeaveByRedeem
<1>1. IInv /\ VaultInv /\ [Next]_vars =>
        [\A t \in Tokens : (t \in ProtectedTokens \/ lifetimeDeposits[t] > 0) =>
           vaultBalance[t] - vaultBalance'[t] <= redeemed'[t] - redeemed[t]]_vaultVars
  BY DistributorKeepsVault DEF AssetsStay
<1>2. QED
  BY VaultInvariantInside, <1>1, PTL DEF Spec, RewardAssetsLeaveByRedeem

-----------------------------------------------------------------------------
(* The step stores. *)

\* A non-empty set of numbers up to n has a largest element, which is its Max.
LEMMA MaxBelow ==
  ASSUME NEW n \in Nat, NEW S \in SUBSET (0 .. n), S # {}
  PROVE  Max(S) \in S /\ \A g \in S : g <= Max(S)
<1> DEFINE Gaps == {n - g : g \in S}
<1>1. \A g \in S : g \in Int /\ 0 <= g /\ g <= n /\ n - g \in Nat
  OBVIOUS
<1>2. Gaps \subseteq Nat /\ Gaps # {}
  BY <1>1
<1>3. PICK least \in Gaps : \A y \in Gaps : <<y, least>> \notin OpToRel(<, Nat)
  <2> HIDE DEF Gaps
  <2>1. QED
    BY <1>2, NatLessThanWellFounded, WFMin
<1>4. \A y \in Gaps : ~(y < least)
  BY <1>2, <1>3 DEF OpToRel
<1>5. PICK last \in S : least = n - last
  OBVIOUS
<1>6. \A g \in S : ~(n - g < n - last)
  BY <1>4, <1>5
<1>7. \A g \in S : last >= g
  BY <1>1, <1>6
<1>8. Max(S) \in S /\ \A g \in S : Max(S) >= g
  BY <1>7 DEF Max
<1>9. QED
  BY <1>1, <1>8

-----------------------------------------------------------------------------
(* StepLedger *)

StepTypeOK ==
  /\ durable \in BOOLEAN
  /\ running \in [id : Nat, cycle : 0 .. MaxCycles]
  /\ counter \in 0 .. running.cycle
  /\ \A r \in records : r.id \in 1 .. counter

\* The allocator of the process is never behind the map, nor the cycle's id.
StepInv ==
  /\ StepTypeOK /\ IdsAreFresh
  /\ running.id > 0 => counter = running.id

LEMMA HighestIsBound ==
  ASSUME StepTypeOK
  PROVE  /\ HighestId(records) \in 0 .. counter
         /\ \A r \in records : r.id <= HighestId(records)
<1> DEFINE S == IdsOf(records) \cup {0}
<1>1. counter \in Nat
  BY LedgerAssumption DEF StepTypeOK, LedgerAssumption
<1>2. S \in SUBSET (0 .. counter) /\ S # {}
  BY <1>1 DEF StepTypeOK, IdsOf
<1>3. Max(S) \in S /\ \A g \in S : g <= Max(S)
  <2> HIDE DEF S
  <2>1. QED
    BY <1>1, <1>2, MaxBelow
<1>4. \A r \in records : r.id \in S
  BY DEF IdsOf
<1>5. QED
  BY <1>2, <1>3, <1>4 DEF HighestId

LEMMA NextCycleIdKeeps == ASSUME StepInv, NextCycleId PROVE StepInv'
<1>0. /\ MaxCycles \in Nat /\ counter \in Nat /\ running.cycle \in 0 .. MaxCycles
      /\ counter <= running.cycle /\ StepTypeOK
  BY LedgerAssumption DEF StepInv, StepTypeOK, LedgerAssumption
<1> DEFINE scanned == IF durable THEN Max({counter, HighestId(records)}) ELSE counter
<1>1. scanned \in 0 .. counter /\ scanned >= counter
  <2>1. {counter, HighestId(records)} \in SUBSET (0 .. counter)
    BY <1>0, HighestIsBound
  <2>2. Max({counter, HighestId(records)}) \in {counter, HighestId(records)}
        /\ counter <= Max({counter, HighestId(records)})
    BY <1>0, <2>1, MaxBelow
  <2>3. QED
    BY <1>0, <2>1, <2>2
<1>2. scanned = counter
  BY <1>0, <1>1
<1>3. /\ running.cycle < MaxCycles /\ counter' = counter + 1
      /\ running' = [id |-> counter + 1, cycle |-> running.cycle + 1]
      /\ UNCHANGED <<durable, records>>
  BY <1>2 DEF NextCycleId
<1>4. StepTypeOK'
  BY <1>0, <1>3 DEF StepTypeOK
<1>5. \A r \in records : r.id # counter + 1
  BY <1>0 DEF StepTypeOK
<1>6. QED
  BY <1>3, <1>4, <1>5 DEF StepInv, IdsAreFresh

LEMMA StepStep == ASSUME StepInv, [StepNext]_stepVars PROVE StepInv'
<1>0. MaxCycles \in Nat /\ counter \in Nat /\ running.id \in Nat /\ StepTypeOK
  BY LedgerAssumption DEF StepInv, StepTypeOK, LedgerAssumption
<1>1. CASE NextCycleId
  BY <1>1, NextCycleIdKeeps
<1>2. CASE \E job \in Jobs : PutStep(job)
  <2>1. PICK job \in Jobs : PutStep(job)
    BY <1>2
  <2>2. running.id > 0 /\ counter = running.id /\ UNCHANGED <<durable, counter, running>>
    BY <2>1 DEF PutStep, StepInv
  <2>3. \A r \in records' : r \in records \/ (r.id = running.id /\ r.cycle = running.cycle)
    BY <2>1 DEF PutStep
  <2>4. StepTypeOK'
    BY <1>0, <2>2, <2>3 DEF StepTypeOK
  <2>5. QED
    BY <2>2, <2>3, <2>4 DEF StepInv, IdsAreFresh
<1>3. CASE \E r \in records : DeleteStep(r)
  BY <1>3 DEF DeleteStep, StepInv, StepTypeOK, IdsAreFresh
<1>4. CASE RestartStore
  <2>1. running' = [running EXCEPT !.id = 0] /\ durable' = durable /\ records' \subseteq records
        /\ running'.id = 0 /\ running'.cycle = running.cycle
    BY <1>0, <1>4 DEF RestartStore, StepTypeOK
  <2>2. counter' \in 0 .. running.cycle /\ \A r \in records' : r.id \in 1 .. counter'
    <3>1. CASE durable
      BY <1>0, <1>4, <3>1, HighestIsBound DEF RestartStore, StepTypeOK
    <3>2. CASE ~durable
      BY <1>0, <1>4, <3>2 DEF RestartStore, StepTypeOK
    <3>3. QED
      BY <3>1, <3>2
  <2>3. StepTypeOK'
    BY <1>0, <2>1, <2>2 DEF StepTypeOK
  <2>4. QED
    BY <2>1, <2>2, <2>3 DEF StepInv, IdsAreFresh
<1>5. CASE UNCHANGED stepVars
  BY <1>5 DEF stepVars, StepInv, StepTypeOK, IdsAreFresh
<1>6. QED
  BY <1>1, <1>2, <1>3, <1>4, <1>5 DEF StepNext

\* "A crash never double-allocates" (ledger.ts): no cycle runs under the id of
\* a record that another cycle left, in either store.
THEOREM CycleIdsAreFresh == StepSpec => []IdsAreFresh
<1>1. StepInit => StepInv
  BY LedgerAssumption DEF StepInit, StepInv, StepTypeOK, IdsAreFresh, LedgerAssumption
<1>2. StepInv /\ [StepNext]_stepVars => StepInv'
  BY StepStep
<1>3. StepInv => IdsAreFresh
  BY DEF StepInv
<1>4. QED
  BY <1>1, <1>2, <1>3, PTL DEF StepSpec

-----------------------------------------------------------------------------
(* PgStepStore *)

PgTypeOK ==
  /\ client \in BOOLEAN /\ broken \in BOOLEAN
  /\ stage \in [Calls -> {"begin", "work", "commit", "rollback", "done", "failed"}]
  /\ txn \in [Connections -> {"none", "open", "aborted"}]
  /\ wrote \in [Connections -> [rows : SUBSET Calls, bumps : Nat]]
  /\ rows \in SUBSET Calls /\ cycle \in Nat
  /\ issued \in [Allocations -> Nat]

\* Pooled: a call at its COMMIT has its own row or bump in its own open
\* transaction, and the lock lets only one bump be open.
PooledHolds ==
  ~client =>
    /\ \A c \in Calls : stage[c] \in {"work", "commit"} => txn[c] = "open"
    /\ \A c \in Calls : stage[c] # "commit" => wrote[c] = Nothing
    /\ \A c \in Puts : wrote[c].bumps = 0 /\ (stage[c] = "commit" => c \in wrote[c].rows)
    /\ \A c \in Allocations : stage[c] = "commit" => wrote[c].bumps = 1 /\ issued[c] = cycle + 1
    /\ \A c, d \in Allocations : stage[c] = "commit" /\ stage[d] = "commit" => c = d

\* Shared and intact: what a call at its COMMIT wrote is in the table or in
\* the open transaction, whoever began it.
SharedHolds ==
  client /\ ~broken =>
    /\ txn[Client] \in {"none", "open"} /\ (txn[Client] = "none" => wrote[Client] = Nothing)
    /\ \A c \in Calls : stage[c] # "rollback"
    /\ \A c \in Puts : stage[c] = "commit" => c \in rows \cup wrote[Client].rows
    /\ \A c \in Allocations : stage[c] = "commit" => issued[c] <= cycle + wrote[Client].bumps

\* What was issued is counted, once.
IssuedHolds ==
  Isolated =>
    /\ \A c \in Allocations : stage[c] = "done" => issued[c] <= cycle
    /\ \A c, d \in Allocations :
         c # d /\ stage[c] \in {"commit", "done"} /\ stage[d] \in {"commit", "done"} =>
           issued[c] # issued[d]

PgInv == PgTypeOK /\ PooledHolds /\ SharedHolds /\ IssuedHolds /\ ReportedIsDurable

LEMMA CallFacts ==
  ASSUME PgTypeOK
  PROVE  /\ \A c \in Calls : Conn(c) \in Connections /\ Conn(c) = IF client THEN Client ELSE c
         /\ Client \in Connections /\ Calls \subseteq Connections /\ Client \notin Calls
         /\ Puts \subseteq Calls /\ Allocations \subseteq Calls /\ Puts \cap Allocations = {}
         /\ \A k \in Connections : wrote[k].bumps \in Nat /\ wrote[k].rows \subseteq Calls
         /\ Nothing \in [rows : SUBSET Calls, bumps : Nat] /\ Nothing.rows = {} /\ Nothing.bumps = 0
BY PgAssumption DEF PgAssumption, Conn, Connections, Calls, PgTypeOK, Nothing

LEMMA PgInitInv == PgInit => PgInv
<1> SUFFICES ASSUME PgInit PROVE PgInv
  OBVIOUS
<1>1. PgTypeOK
  BY DEF PgInit, PgTypeOK, Nothing
<1>2. PooledHolds /\ SharedHolds /\ IssuedHolds /\ ReportedIsDurable
  BY <1>1, CallFacts DEF PgInit, PooledHolds, SharedHolds, IssuedHolds, ReportedIsDurable, Isolated
<1>3. QED
  BY <1>1, <1>2 DEF PgInv

LEMMA BeginKeeps == ASSUME PgInv, NEW c \in Calls, Begin(c) PROVE PgInv'
<1>0. /\ PgTypeOK /\ stage[c] = "begin" /\ txn[Conn(c)] # "aborted"
      /\ stage' = [stage EXCEPT ![c] = "work"] /\ txn' = [txn EXCEPT ![Conn(c)] = "open"]
      /\ UNCHANGED <<client, wrote, rows, cycle, issued, broken>>
  BY DEF PgInv, Begin, To
<1>1. PgTypeOK'
  BY <1>0, CallFacts DEF PgTypeOK
<1>2. PooledHolds' /\ SharedHolds'
  BY <1>0, CallFacts DEF PgInv, PgTypeOK, PooledHolds, SharedHolds
<1>3. IssuedHolds' /\ ReportedIsDurable'
  BY <1>0, CallFacts DEF PgInv, PgTypeOK, IssuedHolds, ReportedIsDurable, Isolated
<1>4. QED
  BY <1>1, <1>2, <1>3 DEF PgInv

LEMMA BeginFailsKeeps == ASSUME PgInv, NEW c \in Calls, BeginFails(c) PROVE PgInv'
<1>0. /\ PgTypeOK /\ stage[c] = "begin" /\ stage' = [stage EXCEPT ![c] = "failed"] /\ broken'
      /\ broken' = TRUE /\ UNCHANGED <<client, txn, wrote, rows, cycle, issued>>
  BY DEF PgInv, BeginFails, To
<1>1. PgTypeOK'
  BY <1>0, CallFacts DEF PgTypeOK
<1>2. PooledHolds' /\ SharedHolds'
  BY <1>0, CallFacts DEF PgInv, PgTypeOK, PooledHolds, SharedHolds
<1>3. IssuedHolds' /\ ReportedIsDurable'
  BY <1>0, CallFacts DEF PgInv, PgTypeOK, IssuedHolds, ReportedIsDurable, Isolated
<1>4. QED
  BY <1>1, <1>2, <1>3 DEF PgInv

\* What a statement does, as its transaction is open or not.
LEMMA WriteEffect ==
  ASSUME PgInv, NEW c \in Calls, NEW adds \in SUBSET Calls, NEW bumps \in Nat,
         stage[c] = "work", Write(c, adds, bumps)
  PROVE  /\ stage' = [stage EXCEPT ![c] = "commit"] /\ UNCHANGED <<client, txn, broken>>
         /\ ~client => txn[c] = "open"
         /\ txn[Conn(c)] # "aborted"
         /\ txn[Conn(c)] = "open" =>
              /\ UNCHANGED <<rows, cycle>>
              /\ wrote' = [wrote EXCEPT ![Conn(c)] =
                             [rows |-> wrote[Conn(c)].rows \cup adds,
                              bumps |-> wrote[Conn(c)].bumps + bumps]]
         /\ txn[Conn(c)] # "open" =>
              rows' = rows \cup adds /\ cycle' = cycle + bumps /\ UNCHANGED wrote
         /\ wrote' \in [Connections -> [rows : SUBSET Calls, bumps : Nat]]
         /\ rows' \in SUBSET Calls /\ cycle' \in Nat
<1>0. PgTypeOK /\ PooledHolds
  BY DEF PgInv
<1>1. /\ stage' = [stage EXCEPT ![c] = "commit"] /\ UNCHANGED <<client, txn, broken>>
      /\ txn[Conn(c)] # "aborted" /\ (~client => txn[c] = "open")
  BY <1>0 DEF Write, To, PooledHolds
<1>2. CASE txn[Conn(c)] = "open"
  <2>1. wrote' = [wrote EXCEPT ![Conn(c)] = [rows |-> wrote[Conn(c)].rows \cup adds,
                                            bumps |-> wrote[Conn(c)].bumps + bumps]]
        /\ UNCHANGED <<rows, cycle>>
    BY <1>2 DEF Write
  <2>2. [rows |-> wrote[Conn(c)].rows \cup adds, bumps |-> wrote[Conn(c)].bumps + bumps]
          \in [rows : SUBSET Calls, bumps : Nat]
    BY <1>0, CallFacts
  <2>3. wrote' \in [Connections -> [rows : SUBSET Calls, bumps : Nat]]
    BY <1>0, <2>1, <2>2 DEF PgTypeOK
  <2>4. QED
    BY <1>0, <1>1, <1>2, <2>1, <2>3 DEF PgTypeOK
<1>3. CASE txn[Conn(c)] # "open"
  BY <1>0, <1>1, <1>3 DEF Write, PgTypeOK
<1>4. QED
  BY <1>2, <1>3

LEMMA PutKeeps == ASSUME PgInv, NEW c \in Puts, Put(c) PROVE PgInv'
<1>0. PgTypeOK /\ c \in Calls /\ c \notin Allocations /\ stage[c] = "work" /\ UNCHANGED issued
      /\ Write(c, {c}, 0)
  BY CallFacts DEF PgInv, Put
<1>1. /\ stage' = [stage EXCEPT ![c] = "commit"] /\ UNCHANGED <<client, txn, broken>>
      /\ ~client => txn[c] = "open"
      /\ txn[Conn(c)] # "aborted"
      /\ txn[Conn(c)] = "open" =>
           /\ UNCHANGED <<rows, cycle>>
           /\ wrote' = [wrote EXCEPT ![Conn(c)] = [rows |-> wrote[Conn(c)].rows \cup {c},
                                                  bumps |-> wrote[Conn(c)].bumps + 0]]
      /\ txn[Conn(c)] # "open" => rows' = rows \cup {c} /\ cycle' = cycle + 0 /\ UNCHANGED wrote
      /\ wrote' \in [Connections -> [rows : SUBSET Calls, bumps : Nat]]
      /\ rows' \in SUBSET Calls /\ cycle' \in Nat
  BY <1>0, WriteEffect
<1>2. PgTypeOK'
  BY <1>0, <1>1 DEF PgTypeOK
<1>3. PooledHolds'
  BY <1>0, <1>1, CallFacts DEF PgInv, PgTypeOK, PooledHolds
<1>4. SharedHolds'
  BY <1>0, <1>1, CallFacts DEF PgInv, PgTypeOK, SharedHolds
<1>5. IssuedHolds' /\ ReportedIsDurable'
  BY <1>0, <1>1, CallFacts DEF PgInv, PgTypeOK, IssuedHolds, ReportedIsDurable, Isolated
<1>6. QED
  BY <1>2, <1>3, <1>4, <1>5 DEF PgInv

\* The number read is above every number read before it.
LEMMA BumpKeeps == ASSUME PgInv, NEW c \in Allocations, Bump(c) PROVE PgInv'
<1>0. /\ PgTypeOK /\ c \in Calls /\ c \notin Puts /\ stage[c] = "work" /\ Write(c, {}, 1)
      /\ issued' = [issued EXCEPT ![c] = cycle + wrote[Conn(c)].bumps + 1]
      /\ \A k \in Connections \ {Conn(c)} : wrote[k].bumps = 0
  BY CallFacts DEF PgInv, Bump
<1>1. /\ stage' = [stage EXCEPT ![c] = "commit"] /\ UNCHANGED <<client, txn, broken>>
      /\ ~client => txn[c] = "open"
      /\ txn[Conn(c)] # "aborted"
      /\ txn[Conn(c)] = "open" =>
           /\ UNCHANGED <<rows, cycle>>
           /\ wrote' = [wrote EXCEPT ![Conn(c)] = [rows |-> wrote[Conn(c)].rows \cup {},
                                                  bumps |-> wrote[Conn(c)].bumps + 1]]
      /\ txn[Conn(c)] # "open" => rows' = rows \cup {} /\ cycle' = cycle + 1 /\ UNCHANGED wrote
      /\ wrote' \in [Connections -> [rows : SUBSET Calls, bumps : Nat]]
      /\ rows' \in SUBSET Calls /\ cycle' \in Nat
  BY <1>0, WriteEffect
<1>2. PgTypeOK'
  BY <1>0, <1>1, CallFacts DEF PgTypeOK
<1>3. ~client => wrote[c] = Nothing /\ \A d \in Allocations : stage[d] # "commit"
  BY <1>0, CallFacts DEF PgInv, PgTypeOK, PooledHolds
<1>4. PooledHolds'
  <2> SUFFICES ASSUME ~client'
               PROVE  /\ \A d \in Calls : stage'[d] \in {"work", "commit"} => txn'[d] = "open"
                      /\ \A d \in Calls : stage'[d] # "commit" => wrote'[d] = Nothing
                      /\ \A d \in Puts : wrote'[d].bumps = 0 /\ (stage'[d] = "commit" => d \in wrote'[d].rows)
                      /\ \A d \in Allocations : stage'[d] = "commit" =>
                           wrote'[d].bumps = 1 /\ issued'[d] = cycle' + 1
                      /\ \A d, e \in Allocations : stage'[d] = "commit" /\ stage'[e] = "commit" => d = e
    BY DEF PooledHolds
  <2>1. /\ ~client /\ Conn(c) = c /\ txn[c] = "open" /\ stage[c] = "work"
        /\ stage' = [stage EXCEPT ![c] = "commit"] /\ txn' = txn /\ cycle' = cycle
        /\ wrote[c].bumps = 0 /\ wrote[c].rows = {}
    BY <1>0, <1>1, <1>3, CallFacts
  <2>2. /\ wrote' = [wrote EXCEPT ![c] = [rows |-> wrote[c].rows, bumps |-> 1]]
        /\ issued' = [issued EXCEPT ![c] = cycle + 1]
    <3>1. wrote[c].rows \cup {} = wrote[c].rows /\ wrote[c].bumps + 1 = 1
      BY <2>1
    <3>2. cycle + wrote[c].bumps + 1 = cycle + 1
      BY <1>0, <2>1 DEF PgTypeOK
    <3>3. QED
      BY <1>0, <1>1, <2>1, <3>1, <3>2
  <2>3. \A d \in Calls : d # c => stage'[d] = stage[d] /\ wrote'[d] = wrote[d]
    BY <1>0, <2>1, <2>2, CallFacts DEF PgTypeOK
  <2>4. stage'[c] = "commit" /\ wrote'[c].bumps = 1 /\ issued'[c] = cycle + 1
    BY <1>0, <2>1, <2>2, CallFacts DEF PgTypeOK
  <2>5. /\ \A d \in Calls : stage[d] \in {"work", "commit"} => txn[d] = "open"
        /\ \A d \in Calls : stage[d] # "commit" => wrote[d] = Nothing
        /\ \A d \in Puts : wrote[d].bumps = 0 /\ (stage[d] = "commit" => d \in wrote[d].rows)
    BY <2>1 DEF PgInv, PooledHolds
  <2>6. \A d \in Allocations : stage'[d] = "commit" => d = c
    BY <1>3, <2>1, <2>3, CallFacts, <1>0
  <2>7. \A d \in Puts : d # c
    BY <1>0
  <2>8. QED
    BY <1>0, <2>1, <2>3, <2>4, <2>5, <2>6, <2>7, CallFacts
<1>5. SharedHolds'
  BY <1>0, <1>1, CallFacts, SMTT(30) DEF PgInv, PgTypeOK, SharedHolds
<1>6. ASSUME Isolated, NEW d \in Allocations, d # c, stage[d] \in {"commit", "done"}
      PROVE  issued[d] < cycle + wrote[Conn(c)].bumps + 1
  BY <1>0, <1>3, <1>6, CallFacts DEF PgInv, PgTypeOK, SharedHolds, IssuedHolds, Isolated
<1>7. IssuedHolds'
  <2>1. UNCHANGED Isolated /\ cycle' >= cycle
    BY <1>0, <1>1, CallFacts DEF Isolated, PgTypeOK
  <2>2. QED
    BY <1>0, <1>1, <1>6, <2>1, CallFacts DEF PgInv, PgTypeOK, IssuedHolds
<1>8. ReportedIsDurable'
  BY <1>0, <1>1, CallFacts DEF PgInv, PgTypeOK, ReportedIsDurable, Isolated
<1>9. QED
  BY <1>2, <1>4, <1>5, <1>7, <1>8 DEF PgInv

LEMMA StatementFailsKeeps == ASSUME PgInv, NEW c \in Calls, StatementFails(c) PROVE PgInv'
<1>0. /\ PgTypeOK /\ stage[c] \in {"work", "commit"} /\ stage' = [stage EXCEPT ![c] = "rollback"]
      /\ broken' = TRUE /\ UNCHANGED <<client, rows, cycle, issued>>
      /\ \/ UNCHANGED <<txn, wrote>> /\ txn[Conn(c)] = "none"
         \/ /\ txn' = [txn EXCEPT ![Conn(c)] = "aborted"]
            /\ wrote' = [wrote EXCEPT ![Conn(c)] = Nothing]
  BY DEF PgInv, StatementFails, To, EndTxn
<1>1. PgTypeOK'
  <2>1. txn' \in [Connections -> {"none", "open", "aborted"}]
        /\ wrote' \in [Connections -> [rows : SUBSET Calls, bumps : Nat]]
    <3>1. CASE UNCHANGED <<txn, wrote>>
      BY <1>0, <3>1 DEF PgTypeOK
    <3>2. CASE /\ txn' = [txn EXCEPT ![Conn(c)] = "aborted"]
               /\ wrote' = [wrote EXCEPT ![Conn(c)] = Nothing]
      BY <1>0, <3>2, CallFacts DEF PgTypeOK
    <3>3. QED
      BY <1>0, <3>1, <3>2
  <2>2. stage' \in [Calls -> {"begin", "work", "commit", "rollback", "done", "failed"}]
    BY <1>0 DEF PgTypeOK
  <2>3. QED
    BY <1>0, <2>1, <2>2 DEF PgTypeOK
<1>2. PooledHolds'
  BY <1>0, CallFacts DEF PgInv, PgTypeOK, PooledHolds
<1>3. SharedHolds'
  BY <1>0 DEF SharedHolds
<1>4. IssuedHolds' /\ ReportedIsDurable'
  BY <1>0, CallFacts DEF PgInv, PgTypeOK, IssuedHolds, ReportedIsDurable, Isolated
<1>5. QED
  BY <1>1, <1>2, <1>3, <1>4 DEF PgInv

\* A COMMIT makes the row of its call durable and its number count.
LEMMA CommitKeeps == ASSUME PgInv, NEW c \in Calls, Commit(c) PROVE PgInv'
<1>0. /\ PgTypeOK /\ stage[c] = "commit" /\ stage' = [stage EXCEPT ![c] = "done"]
      /\ txn' = [txn EXCEPT ![Conn(c)] = "none"]
      /\ wrote' = [wrote EXCEPT ![Conn(c)] = Nothing]
      /\ rows' = rows \cup wrote[Conn(c)].rows /\ cycle' = cycle + wrote[Conn(c)].bumps
      /\ UNCHANGED <<client, issued, broken>>
  BY DEF PgInv, Commit, To, EndTxn
<1>1. PgTypeOK'
  BY <1>0, CallFacts DEF PgTypeOK
<1>2. PooledHolds'
  <2> SUFFICES ASSUME ~client PROVE PooledHolds'
    BY <1>0 DEF PooledHolds
  <2>1. Conn(c) = c /\ wrote'[c] = Nothing /\ \A d \in Calls : d # c => wrote'[d] = wrote[d]
    BY <1>0, CallFacts DEF PgTypeOK
  <2>2. \A d \in Calls : d # c => stage'[d] = stage[d] /\ txn'[d] = txn[d]
    BY <1>0, <2>1, CallFacts DEF PgTypeOK
  <2>3. stage'[c] = "done"
    BY <1>0 DEF PgTypeOK
  <2>4. \A d \in Allocations : d # c /\ stage[d] = "commit" => c \in Puts /\ cycle' = cycle
    BY <1>0, <2>1, CallFacts DEF PgInv, PgTypeOK, PooledHolds, Calls
  <2>5. /\ \A d \in Calls : stage'[d] \in {"work", "commit"} => txn'[d] = "open"
        /\ \A d \in Calls : stage'[d] # "commit" => wrote'[d] = Nothing
    BY <2>1, <2>2, <2>3 DEF PgInv, PooledHolds
  <2>6. \A d \in Puts : wrote'[d].bumps = 0 /\ (stage'[d] = "commit" => d \in wrote'[d].rows)
    BY <2>1, <2>2, <2>3, CallFacts, <1>0 DEF PgInv, PooledHolds
  <2>7. /\ \A d \in Allocations : stage'[d] = "commit" => wrote'[d].bumps = 1 /\ issued'[d] = cycle' + 1
        /\ \A d, e \in Allocations : stage'[d] = "commit" /\ stage'[e] = "commit" => d = e
    BY <1>0, <2>1, <2>2, <2>3, <2>4, CallFacts DEF PgInv, PooledHolds
  <2>8. QED
    BY <2>5, <2>6, <2>7 DEF PooledHolds
<1>3. SharedHolds'
  BY <1>0, CallFacts DEF PgInv, PgTypeOK, SharedHolds
<1>4. IssuedHolds'
  <2>1. Isolated' = Isolated /\ cycle' >= cycle /\ cycle' \in Nat
    BY <1>0, CallFacts DEF Isolated, PgTypeOK
  <2>2. Isolated /\ c \in Allocations => issued[c] <= cycle'
    BY <1>0, CallFacts DEF PgInv, PgTypeOK, PooledHolds, SharedHolds, Isolated
  <2>3. QED
    BY <1>0, <2>1, <2>2, CallFacts DEF PgInv, PgTypeOK, IssuedHolds
<1>5. ReportedIsDurable'
  <2>1. Isolated' = Isolated
    BY <1>0 DEF Isolated
  <2>2. Isolated /\ c \in Puts => c \in rows'
    BY <1>0, CallFacts DEF PgInv, PgTypeOK, PooledHolds, SharedHolds, Isolated
  <2>3. QED
    BY <1>0, <2>1, <2>2, CallFacts DEF PgInv, PgTypeOK, ReportedIsDurable
<1>6. QED
  BY <1>1, <1>2, <1>3, <1>4, <1>5 DEF PgInv

LEMMA RollbackKeeps == ASSUME PgInv, NEW c \in Calls, Rollback(c) PROVE PgInv'
<1>0. /\ PgTypeOK /\ stage[c] = "rollback" /\ stage' = [stage EXCEPT ![c] = "failed"]
      /\ txn' = [txn EXCEPT ![Conn(c)] = "none"]
      /\ wrote' = [wrote EXCEPT ![Conn(c)] = Nothing]
      /\ UNCHANGED <<client, rows, cycle, issued, broken>>
  BY DEF PgInv, Rollback, To, EndTxn
<1>1. PgTypeOK'
  BY <1>0, CallFacts DEF PgTypeOK
<1>2. PooledHolds' /\ SharedHolds'
  BY <1>0, CallFacts DEF PgInv, PgTypeOK, PooledHolds, SharedHolds
<1>3. IssuedHolds' /\ ReportedIsDurable'
  BY <1>0, CallFacts DEF PgInv, PgTypeOK, IssuedHolds, ReportedIsDurable, Isolated
<1>4. QED
  BY <1>1, <1>2, <1>3 DEF PgInv

LEMMA DiesKeeps == ASSUME PgInv, Dies PROVE PgInv'
<1>0. /\ PgTypeOK
      /\ stage' = [c \in Calls |->
           IF stage[c] \in {"work", "commit", "rollback"} THEN "failed" ELSE stage[c]]
      /\ txn' = [k \in Connections |-> "none"] /\ wrote' = [k \in Connections |-> Nothing]
      /\ UNCHANGED <<client, rows, cycle, issued, broken>>
  BY DEF PgInv, Dies
<1>1. PgTypeOK'
  BY <1>0, CallFacts DEF PgTypeOK
<1>2. PooledHolds' /\ SharedHolds'
  BY <1>0, CallFacts DEF PgInv, PgTypeOK, PooledHolds, SharedHolds
<1>3. IssuedHolds' /\ ReportedIsDurable'
  BY <1>0, CallFacts DEF PgInv, PgTypeOK, IssuedHolds, ReportedIsDurable, Isolated
<1>4. QED
  BY <1>1, <1>2, <1>3 DEF PgInv

LEMMA PgStep == ASSUME PgInv, [PgNext]_pgVars PROVE PgInv'
<1>1. CASE \E c \in Calls : Begin(c) \/ BeginFails(c) \/ StatementFails(c) \/ Commit(c) \/ Rollback(c)
  BY <1>1, BeginKeeps, BeginFailsKeeps, StatementFailsKeeps, CommitKeeps, RollbackKeeps
<1>2. CASE \E c \in Puts : Put(c)
  BY <1>2, PutKeeps
<1>3. CASE \E c \in Allocations : Bump(c)
  BY <1>3, BumpKeeps
<1>4. CASE Dies
  BY <1>4, DiesKeeps
<1>5. CASE UNCHANGED pgVars
  BY <1>5 DEF pgVars, PgInv, PgTypeOK, PooledHolds, SharedHolds, IssuedHolds, ReportedIsDurable,
     Isolated
<1>6. QED
  BY <1>1, <1>2, <1>3, <1>4, <1>5 DEF PgNext

LEMMA PgInvariant == PgSpec => []PgInv
<1>1. PgInit => PgInv
  BY PgInitInv
<1>2. PgInv /\ [PgNext]_pgVars => PgInv'
  BY PgStep
<1>3. QED
  BY <1>1, <1>2, PTL DEF PgSpec

\* A put that was reported is durable (pg-store.ts: put), pooled whatever
\* fails, and on a shared client as long as no statement fails.
THEOREM ReportedPutsAreDurable == PgSpec => []ReportedIsDurable
<1>1. PgInv => ReportedIsDurable
  BY DEF PgInv
<1>2. QED
  BY <1>1, PgInvariant, PTL

\* "Concurrent keeper processes never double-allocate a cycle id"
\* (pg-store.ts: nextCycleId).
THEOREM CycleIdsAreUnique == PgSpec => []CycleIdsUnique
<1>1. PgInv => CycleIdsUnique
  BY DEF PgInv, IssuedHolds, CycleIdsUnique
<1>2. QED
  BY <1>1, PgInvariant, PTL
=============================================================================
