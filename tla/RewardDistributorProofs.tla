---------------------- MODULE RewardDistributorProofs ----------------------
(***************************************************************************)
(* Theorems of RewardDistributor, for every set of wallets and tokens,     *)
(* every delay and every bound, and for arbitrary manifests: the contract  *)
(* itself guarantees them, whoever writes the roots.                       *)
(***************************************************************************)
EXTENDS RewardDistributor, WellFoundedInduction, TLAPS

\* The inductive invariant: types, receipts equal the books, every booked
\* unit rests on an active root, and totals are ordered and funded.
IInv == TypeOK /\ PaidIsClaimed /\ ClaimedRestsOnActiveRoot /\ TotalsOrderedAndFunded

\* What the manifest can be: the bound makes its amounts numbers.
LEMMA AmountsAreNats == Amounts \subseteq Nat
  BY VaultAssumption DEF VaultAssumption, Amounts

-----------------------------------------------------------------------------
\* Setting a flag of a wallet leaves a function of flags.
LEMMA FlagUpdate ==
  ASSUME NEW S, NEW f \in [S -> BOOLEAN], NEW x, NEW b \in BOOLEAN
  PROVE  [f EXCEPT ![x] = b] \in [S -> BOOLEAN]
  BY Zenon

\* Registry steps change neither roots nor books, and time only advances.
LEMMA RegistryTypes ==
  ASSUME RegistryTypeOK, RegistryChange
  PROVE  RegistryTypeOK' /\ now' >= now
<1> USE DEF RegistryTypeOK, gateVars, optInVars
<1>1. ASSUME NEW s \in Signers, SetAttestationSigner(s) PROVE RegistryTypeOK' /\ now' >= now
  BY <1>1 DEF SetAttestationSigner
<1>2. ASSUME NEW b \in LiveModes, SetRequireLiveBalance(b) PROVE RegistryTypeOK' /\ now' >= now
  BY <1>2, RegistryAssumption DEF SetRequireLiveBalance, RegistryAssumption
<1>3. ASSUME NEW w \in SwitchWallets, NEW b \in BOOLEAN, SetRevoked(w, b)
      PROVE  RegistryTypeOK' /\ now' >= now
  <2>1. revoked' \in [HolderWallets -> BOOLEAN]
    BY <1>3, FlagUpdate DEF SetRevoked
  <2>2. QED
    BY <1>3, <2>1 DEF SetRevoked
<1>4. ASSUME NEW w \in SwitchWallets, NEW b \in BOOLEAN, SetAutoDelivery(w, b)
      PROVE  RegistryTypeOK' /\ now' >= now
  <2>1. autoDelivery' \in [HolderWallets -> BOOLEAN]
    BY <1>4, FlagUpdate DEF SetAutoDelivery
  <2>2. QED
    BY <1>4, <2>1 DEF SetAutoDelivery
<1>5. ASSUME NEW w \in SwitchWallets, NEW b \in BOOLEAN, SignOptIn(w, b)
      PROVE  RegistryTypeOK' /\ now' >= now
  <2>1. [wallet |-> w, enabled |-> b, nonce |-> autoDeliveryNonce[w]] \in OptIn
    BY RegistryAssumption DEF RegistryAssumption, OptIn
  <2>2. QED
    BY <1>5, <2>1 DEF SignOptIn
<1>6. ASSUME NEW m \in signedOptIns, SetAutoDeliveryBySig(m)
      PROVE  RegistryTypeOK' /\ now' >= now
  <2>1. m \in OptIn /\ m.wallet \in HolderWallets /\ m.enabled \in BOOLEAN /\ m.nonce \in Nat
    BY DEF OptIn
  <2>2. autoDelivery' \in [HolderWallets -> BOOLEAN]
    BY <1>6, <2>1, FlagUpdate DEF SetAutoDeliveryBySig
  <2>3. QED
    BY <1>6, <2>1, <2>2 DEF SetAutoDeliveryBySig
<1>7. ASSUME NEW w \in SwitchWallets, CrossThreshold(w)
      PROVE  RegistryTypeOK' /\ now' >= now
  <2>1. aboveThreshold' \in [HolderWallets -> BOOLEAN]
    BY <1>7, FlagUpdate DEF CrossThreshold
  <2>2. QED
    BY <1>7, <2>1 DEF CrossThreshold
<1>8. ASSUME Tick PROVE RegistryTypeOK' /\ now' >= now
  BY <1>8 DEF Tick
<1>9. QED
  BY <1>1, <1>2, <1>3, <1>4, <1>5, <1>6, <1>7, <1>8 DEF RegistryChange

-----------------------------------------------------------------------------
\* Paying a row moves exactly the row: the wallet's receipts and the books
\* both become it, and the deposit record is untouched.
LEMMA PayRowMovesTheRow ==
  ASSUME TypeOK, PaidIsClaimed, NEW w \in Wallets, NEW row \in [Tokens -> Nat], PayRow(w, row)
  PROVE  /\ VaultTypeOK' /\ PaidIsClaimed'
         /\ claimed' = [claimed EXCEPT ![w] = row]
         /\ claimed' \in [Wallets -> [Tokens -> Nat]]
         /\ lifetimeDeposits' = lifetimeDeposits
<1>1. /\ claimed \in [Wallets -> [Tokens -> Nat]] /\ holdings = claimed
      /\ vaultBalance \in [Tokens -> Nat] /\ redeemed \in [Tokens -> Nat]
      /\ \A t \in Tokens : row[t] >= claimed[w][t]
      /\ claimed' = [claimed EXCEPT ![w] = row]
      /\ RedeemEach(Distributor, w, [t \in Tokens |-> row[t] - claimed[w][t]])
  BY DEF TypeOK, VaultTypeOK, PaidIsClaimed, PayRow
<1>2. \A t \in Tokens : row[t] - claimed[w][t] \in Nat
  BY <1>1
<1>3. /\ \A t \in Tokens : row[t] - claimed[w][t] <= vaultBalance[t]
      /\ vaultBalance' = [t \in Tokens |-> vaultBalance[t] - (row[t] - claimed[w][t])]
      /\ redeemed' = [t \in Tokens |-> redeemed[t] + (row[t] - claimed[w][t])]
      /\ holdings' = [holdings EXCEPT ![w] =
                        [t \in Tokens |-> holdings[w][t] + (row[t] - claimed[w][t])]]
      /\ rewardSource' = rewardSource /\ distributor' = distributor
      /\ lifetimeDeposits' = lifetimeDeposits
  BY <1>1 DEF RedeemEach
<1>4. [t \in Tokens |-> holdings[w][t] + (row[t] - claimed[w][t])] = row
  <2>1. \A t \in Tokens : holdings[w][t] + (row[t] - claimed[w][t]) = row[t]
    BY <1>1
  <2>2. QED
    BY <2>1
<1>5. holdings' = claimed'
  BY <1>1, <1>3, <1>4
<1>6. claimed' \in [Wallets -> [Tokens -> Nat]]
  BY <1>1
<1>7. vaultBalance' \in [Tokens -> Nat] /\ redeemed' \in [Tokens -> Nat]
  BY <1>1, <1>2, <1>3
<1>8. QED
  BY <1>1, <1>3, <1>5, <1>6, <1>7 DEF VaultTypeOK, TypeOK, PaidIsClaimed

-----------------------------------------------------------------------------
\* An epoch record, field by field.
LEMMA EpochFields ==
  ASSUME TypeOK, NEW e \in DOMAIN epochs
  PROVE  /\ e \in 1 .. Len(epochs) /\ epochs[e] \in EpochRecord
         /\ epochs[e].tokens \subseteq Tokens /\ epochs[e].holders \subseteq Wallets
         /\ epochs[e].totals \in [Tokens -> Nat]
         /\ epochs[e].cumulative \in [Wallets -> [Tokens -> Nat]]
         /\ epochs[e].activatesAt \in Nat /\ epochs[e].cancelled \in BOOLEAN
<1>1. e \in 1 .. Len(epochs) /\ epochs[e] \in EpochRecord
  BY DEF TypeOK
<1>2. epochs[e].totals \in [Tokens -> Amounts]
      /\ epochs[e].cumulative \in [Wallets -> [Tokens -> Amounts]]
  BY <1>1 DEF EpochRecord
<1>3. QED
  BY <1>1, <1>2, AmountsAreNats, ZenonT(30) DEF EpochRecord

\* A step that changes neither roots nor books keeps what is said of them.
LEMMA FrameKeepsInv ==
  ASSUME IInv, UNCHANGED <<epochs, claimed, committedTotals, lastClaimed, holdings>>,
         now' >= now, RegistryTypeOK', VaultTypeOK',
         \A t \in Tokens : lifetimeDeposits'[t] >= lifetimeDeposits[t],
         batch' \in [epoch : Nat, rest : SUBSET Wallets]
  PROVE  IInv'
<1>1. TypeOK' /\ PaidIsClaimed'
  BY DEF IInv, TypeOK, PaidIsClaimed
<1>2. ASSUME NEW e \in DOMAIN epochs, IsEpochActive(e) PROVE IsEpochActive(e)'
  BY <1>2, <1>1, EpochFields, SMTT(30) DEF IInv, TypeOK, RegistryTypeOK, IsEpochActive
<1>3. ClaimedRestsOnActiveRoot'
  BY <1>2 DEF IInv, ClaimedRestsOnActiveRoot
<1>4. TotalsOrderedAndFunded'
  BY <1>1 DEF IInv, TypeOK, VaultTypeOK, TotalsOrderedAndFunded
<1>5. QED
  BY <1>1, <1>3, <1>4 DEF IInv

\* Paying a row whose every changed value is a leaf of an active root keeps
\* the invariant.
LEMMA PayKeepsInv ==
  ASSUME IInv, NEW w \in Wallets, NEW row \in [Tokens -> Nat], PayRow(w, row),
         UNCHANGED <<registryVars, epochs, committedTotals>>,
         \A t \in Tokens : row[t] # claimed[w][t] =>
           \E e \in DOMAIN epochs :
             /\ IsEpochActive(e) /\ w \in epochs[e].holders /\ t \in epochs[e].tokens
             /\ epochs[e].cumulative[w][t] = row[t],
         lastClaimed' \in [Wallets -> Nat],
         batch' \in [epoch : Nat, rest : SUBSET Wallets]
  PROVE  IInv'
<1>1. TypeOK /\ PaidIsClaimed
  BY DEF IInv
<1>2. /\ VaultTypeOK' /\ PaidIsClaimed'
      /\ claimed' = [claimed EXCEPT ![w] = row]
      /\ claimed' \in [Wallets -> [Tokens -> Nat]]
      /\ lifetimeDeposits' = lifetimeDeposits
  BY <1>1, PayRowMovesTheRow
<1>3. TypeOK'
  BY <1>1, <1>2 DEF TypeOK, RegistryTypeOK, registryVars
<1>4. \A e \in DOMAIN epochs : IsEpochActive(e) => IsEpochActive(e)'
  BY DEF IsEpochActive, registryVars
<1>5. ClaimedRestsOnActiveRoot'
  <2>1. SUFFICES ASSUME NEW v \in Wallets, NEW t \in Tokens, claimed'[v][t] > 0
                 PROVE  \E e \in DOMAIN epochs :
                          /\ IsEpochActive(e)
                          /\ v \in epochs[e].holders /\ t \in epochs[e].tokens
                          /\ epochs[e].cumulative[v][t] = claimed'[v][t]
    BY <1>4 DEF ClaimedRestsOnActiveRoot
  <2>2. CASE v = w /\ row[t] # claimed[w][t]
    BY <1>1, <1>2, <2>2 DEF TypeOK
  <2>3. CASE ~(v = w /\ row[t] # claimed[w][t])
    <3>1. claimed'[v][t] = claimed[v][t]
      BY <1>1, <1>2, <2>3 DEF TypeOK
    <3>2. QED
      BY <2>1, <3>1 DEF IInv, ClaimedRestsOnActiveRoot
  <2>4. QED
    BY <2>2, <2>3
<1>6. TotalsOrderedAndFunded'
  BY <1>2 DEF IInv, TotalsOrderedAndFunded
<1>7. QED
  BY <1>2, <1>3, <1>5, <1>6 DEF IInv

-----------------------------------------------------------------------------
\* One claim, whichever entry point made it.
LEMMA SettleKeepsInv ==
  ASSUME IInv, NEW w \in Wallets, NEW e \in DOMAIN epochs, Settle(w, e),
         UNCHANGED <<registryVars, epochs, committedTotals>>,
         batch' \in [epoch : Nat, rest : SUBSET Wallets]
  PROVE  IInv'
<1>1. TypeOK
  BY DEF IInv
<1>2. RowAfter(w, e) \in [Tokens -> Nat]
  BY <1>1, EpochFields DEF RowAfter, TypeOK
<1>3. \A t \in Tokens : RowAfter(w, e)[t] # claimed[w][t] =>
        /\ IsEpochActive(e) /\ w \in epochs[e].holders /\ t \in epochs[e].tokens
        /\ epochs[e].cumulative[w][t] = RowAfter(w, e)[t]
  BY DEF Settle, Entitled, RowAfter
<1>4. lastClaimed' \in [Wallets -> Nat]
  BY <1>1, EpochFields DEF Settle, Advance, TypeOK
<1>5. PayRow(w, RowAfter(w, e))
  BY DEF Settle
<1>6. QED
  BY <1>2, <1>3, <1>4, <1>5, PayKeepsInv

\* A non-empty set of numbers up to n has a largest element.
LEMMA LargestBelow ==
  ASSUME NEW n \in Nat, NEW S \in SUBSET (0 .. n), S # {}
  PROVE  \E last \in S : \A g \in S : g <= last
<1> DEFINE U == {n - g : g \in S}
<1>1. IsWellFoundedOn(OpToRel(<, Nat), Nat)
  BY NatLessThanWellFounded
<1>0. \A g \in S : g \in Int /\ 0 <= g /\ g <= n
  OBVIOUS
<1>2. U \subseteq Nat /\ U # {}
  <2>1. \A g \in S : n - g \in Nat
    BY <1>0
  <2>2. QED
    BY <2>1
<1>3. PICK x \in U : \A y \in U : <<y, x>> \notin OpToRel(<, Nat)
  <2> HIDE DEF U
  <2>1. QED
    BY <1>1, <1>2, WFMin
<1>4. \A y \in U : ~(y < x)
  BY <1>2, <1>3 DEF OpToRel
<1>5. PICK last \in S : x = n - last
  OBVIOUS
<1>6. \A g \in S : ~(n - g < n - last)
  BY <1>4, <1>5
<1>7. \A g \in S : g <= last
  BY <1>0, <1>6
<1>8. QED
  BY <1>7

\* The catch-up row: every value of it is the old one or the leaf of an epoch
\* of the span.
LEMMA SpanRow ==
  ASSUME TypeOK, NEW w \in Wallets, NEW e \in DOMAIN epochs
  PROVE  /\ Span(w, e) \subseteq DOMAIN epochs
         /\ RowAfterSpan(w, Span(w, e)) \in [Tokens -> Nat]
         /\ \A t \in Tokens : RowAfterSpan(w, Span(w, e))[t] # claimed[w][t] =>
              \E f \in Span(w, e) : /\ t \in epochs[f].tokens
                                    /\ epochs[f].cumulative[w][t] = RowAfterSpan(w, Span(w, e))[t]
<1> DEFINE S == Span(w, e)
           Last(t) == CHOOSE f \in Listing(S, t) : \A g \in Listing(S, t) : g <= f
<1>1. Len(epochs) \in Nat /\ DOMAIN epochs = 1 .. Len(epochs) /\ S \subseteq DOMAIN epochs
  BY EpochFields DEF Span, TypeOK
<1> HIDE DEF S
<1>2. ASSUME NEW t \in Tokens, Listing(S, t) # {}
      PROVE  Last(t) \in S /\ t \in epochs[Last(t)].tokens
  <2>1. Listing(S, t) \in SUBSET (0 .. Len(epochs))
    BY <1>1 DEF Listing
  <2>2. \E f \in Listing(S, t) : \A g \in Listing(S, t) : g <= f
    BY <1>1, <1>2, <2>1, LargestBelow
  <2>3. Last(t) \in Listing(S, t)
    BY <2>2
  <2>4. QED
    BY <2>3 DEF Listing
<1>3. RowAfterSpan(w, S) = [t \in Tokens |-> IF Listing(S, t) = {} THEN claimed[w][t]
                              ELSE epochs[Last(t)].cumulative[w][t]]
  BY DEF RowAfterSpan
<1> HIDE DEF Last
<1>4. \A t \in Tokens : RowAfterSpan(w, S)[t] # claimed[w][t] =>
        \E f \in S : t \in epochs[f].tokens /\ epochs[f].cumulative[w][t] = RowAfterSpan(w, S)[t]
  BY <1>2, <1>3
<1>5. RowAfterSpan(w, S) \in [Tokens -> Nat]
  <2>1. ASSUME NEW t \in Tokens
        PROVE  (IF Listing(S, t) = {} THEN claimed[w][t]
                ELSE epochs[Last(t)].cumulative[w][t]) \in Nat
    <3>1. CASE Listing(S, t) = {}
      BY <3>1 DEF TypeOK
    <3>2. CASE Listing(S, t) # {}
      BY <3>2, <1>1, <1>2, EpochFields
    <3>3. QED
      BY <3>1, <3>2
  <2>2. QED
    BY <1>3, <2>1
<1>6. QED
  BY <1>1, <1>4, <1>5 DEF S

LEMMA ClaimUpToKeepsInv ==
  ASSUME IInv, NEW w \in Wallets, NEW e \in DOMAIN epochs, ClaimUpTo(w, e)
  PROVE  IInv'
<1> DEFINE row == RowAfterSpan(w, Span(w, e))
<1>1. TypeOK
  BY DEF IInv
<1>2. /\ Span(w, e) \subseteq DOMAIN epochs /\ row \in [Tokens -> Nat]
      /\ \A t \in Tokens : row[t] # claimed[w][t] =>
           \E f \in Span(w, e) : t \in epochs[f].tokens /\ epochs[f].cumulative[w][t] = row[t]
  BY <1>1, SpanRow
<1> HIDE DEF row
<1>3. /\ PayRow(w, row)
      /\ \A f \in Span(w, e) : IsEpochActive(f) /\ w \in epochs[f].holders
      /\ UNCHANGED <<registryVars, epochs, committedTotals, batch>>
      /\ lastClaimed' = [lastClaimed EXCEPT ![w] = e]
  BY DEF ClaimUpTo, Entitled, row
<1>4. lastClaimed' \in [Wallets -> Nat] /\ batch' \in [epoch : Nat, rest : SUBSET Wallets]
  BY <1>1, <1>3, EpochFields DEF TypeOK
<1>5. \A t \in Tokens : row[t] # claimed[w][t] =>
        \E f \in DOMAIN epochs :
          /\ IsEpochActive(f) /\ w \in epochs[f].holders /\ t \in epochs[f].tokens
          /\ epochs[f].cumulative[w][t] = row[t]
  BY <1>2, <1>3
<1>6. QED
  BY <1>2, <1>3, <1>4, <1>5, PayKeepsInv

-----------------------------------------------------------------------------
\* Publishing adds a pending root on top of the ones before it.
LEMMA PublishKeepsInv ==
  ASSUME IInv, NEW m \in Manifest, PublishEpoch(m)
  PROVE  IInv'
<1> DEFINE n == Len(epochs)
<1>1. TypeOK /\ epochs \in Seq(EpochRecord) /\ n \in Nat /\ DOMAIN epochs = 1 .. n
  BY DEF IInv, TypeOK
<1>2. /\ m.tokens \subseteq Tokens /\ m.totals \in [Tokens -> Amounts]
      /\ m.totals \in [Tokens -> Nat]
      /\ Covered(m) /\ epochs' = Append(epochs, EpochOf(m))
      /\ committedTotals' = [t \in Tokens |->
           IF t \in m.tokens THEN m.totals[t] ELSE committedTotals[t]]
      /\ UNCHANGED <<vaultVars, registryVars, claimed, lastClaimed, batch>>
  BY AmountsAreNats DEF PublishEpoch, Manifest
<1>3. EpochOf(m) \in EpochRecord
  BY <1>1, DistributorAssumption
     DEF EpochOf, EpochRecord, Manifest, DistributorAssumption, TypeOK, RegistryTypeOK
<1>4. /\ epochs' \in Seq(EpochRecord) /\ DOMAIN epochs' = 1 .. n + 1
      /\ \A e \in DOMAIN epochs : epochs'[e] = epochs[e]
      /\ epochs'[n + 1].tokens = m.tokens /\ epochs'[n + 1].totals = m.totals
  BY <1>1, <1>2, <1>3 DEF EpochOf
<1>5. TypeOK' /\ PaidIsClaimed'
  <2>1. committedTotals' \in [Tokens -> Nat]
    BY <1>1, <1>2 DEF TypeOK
  <2>2. VaultTypeOK' /\ RegistryTypeOK'
    BY <1>1, <1>2 DEF TypeOK, vaultVars, registryVars, VaultTypeOK, RegistryTypeOK
  <2>3. claimed' = claimed /\ holdings' = holdings /\ lastClaimed' = lastClaimed /\ batch' = batch
    BY <1>2 DEF vaultVars
  <2>4. QED
    BY <1>1, <1>4, <2>1, <2>2, <2>3 DEF TypeOK, IInv, PaidIsClaimed
<1>6. ClaimedRestsOnActiveRoot'
  <2>1. now' = now /\ claimed' = claimed
    BY <1>2 DEF registryVars
  <2>2. \A e \in DOMAIN epochs : e \in DOMAIN epochs'
    BY <1>1, <1>4
  <2>3. \A e \in DOMAIN epochs : IsEpochActive(e) => IsEpochActive(e)'
    BY <1>4, <2>1, <2>2 DEF IsEpochActive
  <2>4. QED
    BY <1>4, <2>1, <2>2, <2>3 DEF IInv, ClaimedRestsOnActiveRoot
<1>7. TotalsOrderedAndFunded'
  <2>1. /\ \A t \in Tokens : committedTotals[t] <= lifetimeDeposits[t]
        /\ \A e \in DOMAIN epochs : \A t \in epochs[e].tokens :
             epochs[e].totals[t] <= committedTotals[t]
        /\ \A e, f \in DOMAIN epochs : \A t \in epochs[e].tokens \cap epochs[f].tokens :
             e <= f => epochs[e].totals[t] <= epochs[f].totals[t]
    BY DEF IInv, TotalsOrderedAndFunded
  <2>2. /\ lifetimeDeposits' = lifetimeDeposits
        /\ committedTotals \in [Tokens -> Nat] /\ lifetimeDeposits \in [Tokens -> Nat]
    BY <1>1, <1>2 DEF vaultVars, TypeOK, VaultTypeOK
  <2>3. \A t \in Tokens : committedTotals'[t] <= lifetimeDeposits'[t]
    BY <1>2, <2>1, <2>2 DEF Covered
  <2>4. \A t \in Tokens : committedTotals'[t] >= committedTotals[t]
    BY <1>2, <2>2 DEF Covered
  <2>5. \A e \in DOMAIN epochs : epochs[e].tokens \subseteq Tokens /\ epochs[e].totals \in [Tokens -> Nat]
    BY <1>1, EpochFields
  <2>6. \A e \in DOMAIN epochs' : e = n + 1 \/ e \in DOMAIN epochs
    BY <1>1, <1>4
  <2>7. \A e \in DOMAIN epochs' : \A t \in epochs'[e].tokens :
          epochs'[e].totals[t] <= committedTotals'[t]
    <3>1. ASSUME NEW e \in DOMAIN epochs, NEW t \in epochs'[e].tokens
          PROVE  epochs'[e].totals[t] <= committedTotals'[t]
      <4>1. t \in Tokens /\ epochs[e].totals[t] \in Nat /\ epochs[e].totals[t] <= committedTotals[t]
        BY <1>4, <2>1, <2>5
      <4>2. committedTotals'[t] \in Nat /\ committedTotals[t] \in Nat
        BY <1>2, <2>2, <4>1
      <4>3. QED
        BY <1>4, <2>4, <4>1, <4>2
    <3>2. ASSUME NEW t \in m.tokens PROVE epochs'[n + 1].totals[t] <= committedTotals'[t]
      BY <1>2, <1>4
    <3>3. QED
      BY <1>4, <2>6, <3>1, <3>2
  <2>8. \A e, f \in DOMAIN epochs' : \A t \in epochs'[e].tokens \cap epochs'[f].tokens :
          e <= f => epochs'[e].totals[t] <= epochs'[f].totals[t]
    <3>1. SUFFICES ASSUME NEW e \in DOMAIN epochs', NEW f \in DOMAIN epochs',
                          NEW t \in epochs'[e].tokens \cap epochs'[f].tokens, e <= f
                   PROVE  epochs'[e].totals[t] <= epochs'[f].totals[t]
      OBVIOUS
    <3>2. CASE f \in DOMAIN epochs
      <4>1. e \in DOMAIN epochs
        BY <1>1, <1>4, <3>1, <3>2
      <4>2. QED
        BY <1>4, <2>1, <3>1, <3>2, <4>1
    <3>3. CASE f = n + 1 /\ e \in DOMAIN epochs
      <4>1. t \in m.tokens /\ t \in Tokens /\ t \in epochs[e].tokens
        BY <1>2, <1>4, <3>3
      <4>2. epochs[e].totals[t] <= committedTotals[t] /\ committedTotals[t] <= m.totals[t]
        BY <1>2, <2>1, <3>3, <4>1 DEF Covered
      <4>3. epochs[e].totals[t] \in Nat /\ committedTotals[t] \in Nat /\ m.totals[t] \in Nat
        BY <1>2, <2>2, <2>5, <3>3, <4>1
      <4>4. QED
        BY <1>4, <3>3, <4>2, <4>3, SMTT(30)
    <3>4. CASE f = n + 1 /\ e = n + 1
      BY <1>2, <1>4, <3>4
    <3>5. QED
      BY <2>6, <3>2, <3>3, <3>4
  <2>9. QED
    BY <2>3, <2>7, <2>8 DEF TotalsOrderedAndFunded
<1>8. QED
  BY <1>5, <1>6, <1>7 DEF IInv

\* Cancelling only ever touches a root nothing rests on yet.
LEMMA CancelKeepsInv ==
  ASSUME IInv, NEW c \in DOMAIN epochs, CancelEpoch(c)
  PROVE  IInv'
<1>1. TypeOK /\ epochs \in Seq(EpochRecord) /\ ~IsEpochActive(c)
  <2>1. TypeOK
    BY DEF IInv
  <2>2. epochs[c].activatesAt \in Nat /\ now \in Nat
    BY <2>1, EpochFields DEF TypeOK, RegistryTypeOK
  <2>3. QED
    BY <2>1, <2>2 DEF CancelEpoch, TypeOK, IsEpochActive
<1>2. /\ epochs' = [epochs EXCEPT ![c].cancelled = TRUE]
      /\ UNCHANGED <<vaultVars, registryVars, claimed, committedTotals, lastClaimed, batch>>
  BY DEF CancelEpoch
<1>3. /\ DOMAIN epochs' = DOMAIN epochs
      /\ \A e \in DOMAIN epochs : e # c => epochs'[e] = epochs[e]
      /\ \A e \in DOMAIN epochs : /\ epochs'[e].tokens = epochs[e].tokens
                                  /\ epochs'[e].totals = epochs[e].totals
      /\ epochs'[c] = [epochs[c] EXCEPT !.cancelled = TRUE]
  <2>1. epochs[c] \in EpochRecord /\ \A e \in DOMAIN epochs : epochs[e] \in EpochRecord
    BY <1>1, EpochFields
  <2>2. QED
    BY <1>1, <1>2, <2>1 DEF EpochRecord
<1>4. epochs' \in Seq(EpochRecord)
  <2>1. epochs[c] \in EpochRecord
    BY <1>1, EpochFields
  <2>2. [epochs[c] EXCEPT !.cancelled = TRUE] \in EpochRecord
    BY <2>1 DEF EpochRecord
  <2>3. QED
    BY <1>1, <1>2, <2>2
<1>5. TypeOK' /\ PaidIsClaimed'
  <2>1. VaultTypeOK' /\ RegistryTypeOK'
    BY <1>1, <1>2 DEF TypeOK, vaultVars, registryVars, VaultTypeOK, RegistryTypeOK
  <2>2. QED
    BY <1>1, <1>2, <1>4, <2>1 DEF TypeOK, IInv, PaidIsClaimed, vaultVars
<1>6. ClaimedRestsOnActiveRoot'
  <2>1. now' = now /\ claimed' = claimed
    BY <1>2 DEF registryVars
  <2>2. \A e \in DOMAIN epochs :
          IsEpochActive(e) => IsEpochActive(e)' /\ epochs'[e] = epochs[e]
    BY <1>1, <1>3, <2>1 DEF IsEpochActive
  <2>3. QED
    BY <1>3, <2>1, <2>2 DEF IInv, ClaimedRestsOnActiveRoot
<1>7. TotalsOrderedAndFunded'
  BY <1>2, <1>3 DEF IInv, TotalsOrderedAndFunded, vaultVars
<1>8. QED
  BY <1>5, <1>6, <1>7 DEF IInv

\* Deposits, stray transfers and recoveries never lower the deposit record.
LEMMA VaultKeepsInv ==
  ASSUME IInv, UNCHANGED <<registryVars, distributorVars>>, VaultTypeOK',
         holdings' = holdings,
         \A t \in Tokens : lifetimeDeposits'[t] >= lifetimeDeposits[t]
  PROVE  IInv'
<1>1. RegistryTypeOK' /\ now' >= now
  BY DEF IInv, TypeOK, RegistryTypeOK, registryVars
<1>2. batch' \in [epoch : Nat, rest : SUBSET Wallets]
  BY DEF IInv, TypeOK, distributorVars
<1>3. QED
  BY <1>1, <1>2, FrameKeepsInv DEF distributorVars

LEMMA DepositKeepsInv ==
  ASSUME IInv, NEW t \in Tokens, NEW amount \in Amounts \ {0}, Deposit(t, amount)
  PROVE  IInv'
<1>1. amount \in Nat /\ VaultTypeOK
  BY AmountsAreNats DEF IInv, TypeOK
<1>2. VaultTypeOK' /\ holdings' = holdings
      /\ \A u \in Tokens : lifetimeDeposits'[u] >= lifetimeDeposits[u]
  BY <1>1 DEF Deposit, ReceiveRewardAsset, VaultTypeOK
<1>3. QED
  BY <1>2, VaultKeepsInv DEF Deposit

LEMMA RecoverKeepsInv ==
  ASSUME IInv, NEW t \in Tokens, NEW amount \in Amounts \ {0}, Recover(t, amount)
  PROVE  IInv'
<1>1. amount \in Nat /\ VaultTypeOK
  BY AmountsAreNats DEF IInv, TypeOK
<1>2. VaultTypeOK' /\ holdings' = holdings
      /\ \A u \in Tokens : lifetimeDeposits'[u] >= lifetimeDeposits[u]
  BY <1>1 DEF Recover, RecoverAccidental, AccidentalTransfer, VaultTypeOK
<1>3. QED
  BY <1>2, VaultKeepsInv DEF Recover

LEMMA RegistryStepKeepsInv ==
  ASSUME IInv, RegistryStep
  PROVE  IInv'
<1>1. RegistryTypeOK' /\ now' >= now
  BY RegistryTypes DEF IInv, TypeOK, RegistryStep
<1>2. /\ VaultTypeOK' /\ batch' \in [epoch : Nat, rest : SUBSET Wallets]
      /\ \A t \in Tokens : lifetimeDeposits'[t] >= lifetimeDeposits[t]
  BY DEF IInv, TypeOK, VaultTypeOK, RegistryStep, vaultVars, distributorVars
<1>3. UNCHANGED <<epochs, claimed, committedTotals, lastClaimed, holdings>>
  BY DEF RegistryStep, vaultVars, distributorVars
<1>4. QED
  BY <1>1, <1>2, <1>3, FrameKeepsInv

\* A batch: its start, and each entry, paid or skipped.
LEMMA BatchKeepsInv ==
  ASSUME IInv,
         \/ \E e \in DOMAIN epochs, d \in SUBSET SwitchWallets : ClaimForMany(e, d)
         \/ \E w \in Wallets : DeliverOne(w)
  PROVE  IInv'
<1>1. TypeOK
  BY DEF IInv
<1>2. ASSUME UNCHANGED <<vaultVars, registryVars, epochs, claimed, committedTotals, lastClaimed>>,
             batch' \in [epoch : Nat, rest : SUBSET Wallets]
      PROVE  IInv'
  <2>1. /\ VaultTypeOK' /\ RegistryTypeOK' /\ now' >= now
        /\ \A t \in Tokens : lifetimeDeposits'[t] >= lifetimeDeposits[t]
        /\ holdings' = holdings
    BY <1>1, <1>2 DEF TypeOK, VaultTypeOK, RegistryTypeOK, vaultVars, registryVars
  <2>2. QED
    BY <1>2, <2>1, FrameKeepsInv
<1>3. ASSUME NEW e \in DOMAIN epochs, NEW d \in SUBSET SwitchWallets, ClaimForMany(e, d) PROVE IInv'
  <2>1. batch' \in [epoch : Nat, rest : SUBSET Wallets]
    BY <1>1, <1>3, EpochFields, DistributorAssumption, RegistryAssumption DEF ClaimForMany
  <2>2. QED
    BY <1>2, <1>3, <2>1 DEF ClaimForMany
<1>4. ASSUME NEW w \in Wallets, DeliverOne(w) PROVE IInv'
  <2>1. batch' \in [epoch : Nat, rest : SUBSET Wallets]
    BY <1>1, <1>4 DEF DeliverOne, TypeOK
  <2>2. CASE Settle(w, batch.epoch)
    <3>1. batch.epoch \in DOMAIN epochs
      BY <2>2 DEF Settle, Entitled, IsEpochActive
    <3>2. QED
      BY <1>4, <2>1, <2>2, <3>1, SettleKeepsInv DEF DeliverOne
  <2>3. CASE UNCHANGED <<vaultVars, claimed, lastClaimed>>
    BY <1>2, <1>4, <2>1, <2>3 DEF DeliverOne
  <2>4. QED
    BY <1>4, <2>2, <2>3 DEF DeliverOne
<1>5. QED
  BY <1>3, <1>4

LEMMA ClaimKeepsInv ==
  ASSUME IInv, NEW w \in Wallets, NEW e \in DOMAIN epochs, Claim(w, e)
  PROVE  IInv'
<1>1. batch' \in [epoch : Nat, rest : SUBSET Wallets]
  BY DEF Claim, IInv, TypeOK
<1>2. QED
  BY <1>1, SettleKeepsInv DEF Claim

LEMMA StutterKeepsInv == IInv /\ UNCHANGED vars => IInv'
<1>1. SUFFICES ASSUME IInv, UNCHANGED vars PROVE IInv'
  OBVIOUS
<1>2. UNCHANGED <<registryVars, distributorVars>> /\ UNCHANGED vaultVars
  BY <1>1 DEF vars
<1>3. /\ VaultTypeOK' /\ holdings' = holdings
      /\ \A t \in Tokens : lifetimeDeposits'[t] >= lifetimeDeposits[t]
  BY <1>1, <1>2 DEF IInv, TypeOK, VaultTypeOK, vaultVars
<1>4. QED
  BY <1>1, <1>2, <1>3, VaultKeepsInv

-----------------------------------------------------------------------------
LEMMA InitInv == DistributorInit => IInv
<1>1. SUFFICES ASSUME DistributorInit PROVE IInv
  OBVIOUS
<1>2. RegistryTypeOK
  BY <1>1 DEF DistributorInit, RegistryInit, RegistryTypeOK
<1>3. VaultTypeOK
  BY <1>1, DistributorAssumption DEF DistributorInit, VaultTypeOK, DistributorAssumption
<1>4. /\ epochs = <<>> /\ DOMAIN epochs = {} /\ holdings = claimed
      /\ claimed = [w \in Wallets |-> [t \in Tokens |-> 0]]
      /\ committedTotals = [t \in Tokens |-> 0] /\ lastClaimed = [w \in Wallets |-> 0]
      /\ lifetimeDeposits = [t \in Tokens |-> 0]
      /\ batch \in [epoch : Nat, rest : SUBSET Wallets]
  BY <1>1 DEF DistributorInit
<1>5. TypeOK /\ PaidIsClaimed
  BY <1>2, <1>3, <1>4 DEF TypeOK, PaidIsClaimed
<1>6. ClaimedRestsOnActiveRoot /\ TotalsOrderedAndFunded
  BY <1>4 DEF ClaimedRestsOnActiveRoot, TotalsOrderedAndFunded
<1>7. QED
  BY <1>5, <1>6 DEF IInv

LEMMA NextKeepsInv == IInv /\ [Next]_vars => IInv'
<1>1. SUFFICES ASSUME IInv, [Next]_vars PROVE IInv'
  OBVIOUS
<1>2. CASE UNCHANGED vars
  BY <1>1, <1>2, StutterKeepsInv
<1>3. CASE \E m \in Manifest : PublishEpoch(m)
  BY <1>1, <1>3, PublishKeepsInv
<1>4. CASE \E t \in Tokens, amount \in Amounts \ {0} : Deposit(t, amount)
  BY <1>1, <1>4, DepositKeepsInv
<1>5. CASE \E e \in DOMAIN epochs : CancelEpoch(e)
  BY <1>1, <1>5, CancelKeepsInv
<1>6. CASE ClaimStep
  <2>1. ASSUME NEW w \in Wallets, NEW e \in DOMAIN epochs,
               Claim(w, e) \/ ClaimFor(w, e) \/ ClaimUpTo(w, e)
        PROVE  IInv'
    <3>1. CASE Claim(w, e) \/ ClaimFor(w, e)
      BY <1>1, <3>1, ClaimKeepsInv DEF ClaimFor
    <3>2. CASE ClaimUpTo(w, e)
      BY <1>1, <3>2, ClaimUpToKeepsInv
    <3>3. QED
      BY <2>1, <3>1, <3>2
  <2>2. CASE \E e \in DOMAIN epochs, d \in SUBSET SwitchWallets : ClaimForMany(e, d)
    BY <1>1, <2>2, BatchKeepsInv
  <2>3. CASE \E w \in Wallets : DeliverOne(w)
    BY <1>1, <2>3, BatchKeepsInv
  <2>4. QED
    BY <1>6, <2>1, <2>2, <2>3 DEF ClaimStep
<1>7. CASE \E t \in Tokens, amount \in Amounts \ {0} : Recover(t, amount)
  BY <1>1, <1>7, RecoverKeepsInv
<1>8. CASE RegistryStep
  BY <1>1, <1>8, RegistryStepKeepsInv
<1>9. QED
  BY <1>1, <1>2, <1>3, <1>4, <1>5, <1>6, <1>7, <1>8 DEF Next, Others

\* The state of the composed contracts keeps its types.
THEOREM TypeCorrect == Spec => []TypeOK
<1>1. IInv => TypeOK
  BY DEF IInv
<1>2. QED
  BY InitInv, NextKeepsInv, <1>1, PTL DEF Spec

\* Exactly-once payment: receipts equal the books on every path.
THEOREM PaymentsAreBooked == Spec => []PaidIsClaimed
<1>1. IInv => PaidIsClaimed
  BY DEF IInv
<1>2. QED
  BY InitInv, NextKeepsInv, <1>1, PTL DEF Spec

\* Nothing is paid but what an active root's leaf says.
THEOREM PaymentsRestOnActiveRoots == Spec => []ClaimedRestsOnActiveRoot
<1>1. IInv => ClaimedRestsOnActiveRoot
  BY DEF IInv
<1>2. QED
  BY InitInv, NextKeepsInv, <1>1, PTL DEF Spec

\* Committed totals never decrease from root to root and are funded.
THEOREM TotalsAreFunded == Spec => []TotalsOrderedAndFunded
<1>1. IInv => TotalsOrderedAndFunded
  BY DEF IInv
<1>2. QED
  BY InitInv, NextKeepsInv, <1>1, PTL DEF Spec

-----------------------------------------------------------------------------
(* What a step may never do: take an active root away or change a          *)
(* published leaf, move a catch-up position back or past the published     *)
(* epochs, claw a payment back.                                            *)

\* Positions refer to published epochs.
PositionsPublished == \A w \in Wallets : lastClaimed[w] <= Len(epochs)

\* What the two action properties say of one step.
RootsKept ==
  \A e \in DOMAIN epochs :
    /\ IsEpochActive(e) => IsEpochActive(e)'
    /\ epochs[e].cancelled => epochs'[e].cancelled
    /\ epochs'[e].cumulative = epochs[e].cumulative

ProgressKept ==
  \A w \in Wallets :
    /\ lastClaimed'[w] >= lastClaimed[w] /\ lastClaimed'[w] <= Len(epochs')
    /\ \A t \in Tokens : holdings'[w][t] >= holdings[w][t]

-----------------------------------------------------------------------------
\* Roots

\* A step that leaves the epochs alone keeps them while time goes on.
LEMMA FrameKeepsRoots ==
  ASSUME TypeOK, UNCHANGED epochs, now' \in Nat, now' >= now
  PROVE  RootsKept
<1>1. \A e \in DOMAIN epochs : epochs[e].activatesAt \in Nat
  BY EpochFields
<1>2. QED
  BY <1>1 DEF RootsKept, IsEpochActive, TypeOK, RegistryTypeOK

\* Publication only appends.
LEMMA PublishKeepsRoots ==
  ASSUME TypeOK, NEW m \in Manifest, PublishEpoch(m)
  PROVE  RootsKept /\ Len(epochs') >= Len(epochs)
<1>1. /\ epochs' = Append(epochs, EpochOf(m)) /\ now' = now
      /\ epochs \in Seq(EpochRecord) /\ Len(epochs) \in Nat
  BY DEF PublishEpoch, registryVars, TypeOK
<1>2. DOMAIN epochs \subseteq DOMAIN epochs' /\ \A e \in DOMAIN epochs : epochs'[e] = epochs[e]
  BY <1>1
<1>3. Len(epochs') >= Len(epochs)
  BY <1>1
<1>4. QED
  BY <1>1, <1>2, <1>3 DEF RootsKept, IsEpochActive

\* Cancellation marks one root, which is not active.
LEMMA CancelKeepsRoots ==
  ASSUME TypeOK, NEW c \in DOMAIN epochs, CancelEpoch(c)
  PROVE  RootsKept /\ Len(epochs') = Len(epochs)
<1>1. /\ epochs' = [epochs EXCEPT ![c].cancelled = TRUE] /\ now' = now
      /\ epochs \in Seq(EpochRecord) /\ now < epochs[c].activatesAt /\ now \in Nat
  BY DEF CancelEpoch, registryVars, TypeOK, RegistryTypeOK
<1>2. epochs[c] \in EpochRecord /\ epochs[c].activatesAt \in Nat
  BY EpochFields
<1>3. ~IsEpochActive(c)
  BY <1>1, <1>2 DEF IsEpochActive
<1>4. /\ DOMAIN epochs' = DOMAIN epochs /\ Len(epochs') = Len(epochs)
      /\ \A e \in DOMAIN epochs : e # c => epochs'[e] = epochs[e]
      /\ epochs'[c] = [epochs[c] EXCEPT !.cancelled = TRUE]
  BY <1>1
<1>5. epochs'[c].cancelled = TRUE /\ epochs'[c].cumulative = epochs[c].cumulative
  BY <1>2, <1>4 DEF EpochRecord
<1>6. QED
  BY <1>1, <1>3, <1>4, <1>5 DEF RootsKept, IsEpochActive

-----------------------------------------------------------------------------
\* Progress

\* A step that pays nobody and moves no position.
LEMMA FrameKeepsProgress ==
  ASSUME TypeOK, PositionsPublished, UNCHANGED <<lastClaimed, holdings>>,
         Len(epochs') \in Nat, Len(epochs') >= Len(epochs)
  PROVE  ProgressKept
<1>1. Len(epochs) \in Nat /\ \A w \in Wallets : lastClaimed[w] \in Nat
  BY DEF TypeOK
<1>2. \A w \in Wallets, t \in Tokens : holdings[w][t] \in Nat
  BY DEF TypeOK, VaultTypeOK
<1>3. QED
  BY <1>1, <1>2 DEF ProgressKept, PositionsPublished

\* A payment that moves the wallet's position forward, within the epochs.
LEMMA PayKeepsProgress ==
  ASSUME TypeOK, PaidIsClaimed, PositionsPublished, UNCHANGED epochs,
         NEW w \in Wallets, NEW row \in [Tokens -> Nat], PayRow(w, row),
         NEW p \in Nat, p >= lastClaimed[w], p <= Len(epochs),
         lastClaimed' = [lastClaimed EXCEPT ![w] = p]
  PROVE  ProgressKept
<1>1. /\ holdings = claimed /\ holdings' = claimed'
      /\ claimed' = [claimed EXCEPT ![w] = row]
      /\ claimed \in [Wallets -> [Tokens -> Nat]]
  BY PayRowMovesTheRow DEF PaidIsClaimed, TypeOK
<1>2. \A t \in Tokens : row[t] >= claimed[w][t]
  BY DEF PayRow
<1>3. \A v \in Wallets, t \in Tokens : holdings'[v][t] >= holdings[v][t]
  BY <1>1, <1>2
<1>4. \A v \in Wallets : lastClaimed'[v] >= lastClaimed[v] /\ lastClaimed'[v] <= Len(epochs')
  BY DEF TypeOK, PositionsPublished
<1>5. QED
  BY <1>3, <1>4 DEF ProgressKept

\* One claim.
LEMMA SettleKeepsProgress ==
  ASSUME TypeOK, PaidIsClaimed, PositionsPublished, UNCHANGED epochs,
         NEW w \in Wallets, NEW e, Settle(w, e)
  PROVE  ProgressKept
<1>1. e \in DOMAIN epochs /\ e \in Nat /\ e <= Len(epochs)
  BY EpochFields DEF Settle, Entitled, IsEpochActive, TypeOK
<1>2. RowAfter(w, e) \in [Tokens -> Nat]
  BY <1>1, EpochFields DEF RowAfter, TypeOK
<1>3. lastClaimed[w] \in Nat /\ lastClaimed[w] <= Len(epochs)
  BY DEF TypeOK, PositionsPublished
<1> DEFINE p == IF e > lastClaimed[w] THEN e ELSE lastClaimed[w]
<1>4. lastClaimed' = [lastClaimed EXCEPT ![w] = p]
  BY DEF Settle, Advance
<1>5. p \in Nat /\ p >= lastClaimed[w] /\ p <= Len(epochs)
  BY <1>1, <1>3
<1> HIDE DEF p
<1>6. QED
  BY <1>2, <1>4, <1>5, PayKeepsProgress DEF Settle

\* The catch-up.
LEMMA ClaimUpToKeepsProgress ==
  ASSUME TypeOK, PaidIsClaimed, PositionsPublished,
         NEW w \in Wallets, NEW e \in DOMAIN epochs, ClaimUpTo(w, e)
  PROVE  ProgressKept
<1>1. e \in Nat /\ e <= Len(epochs) /\ lastClaimed[w] \in Nat
  BY EpochFields DEF TypeOK
<1>2. RowAfterSpan(w, Span(w, e)) \in [Tokens -> Nat]
  BY SpanRow
<1>3. /\ PayRow(w, RowAfterSpan(w, Span(w, e))) /\ UNCHANGED epochs
      /\ e > lastClaimed[w] /\ lastClaimed' = [lastClaimed EXCEPT ![w] = e]
  BY DEF ClaimUpTo
<1>4. e >= lastClaimed[w]
  BY <1>1, <1>3
<1>5. QED
  BY <1>1, <1>2, <1>3, <1>4, PayKeepsProgress

-----------------------------------------------------------------------------
\* Every step does both.
LEMMA StepKeepsBoth ==
  ASSUME IInv, PositionsPublished, [Next]_vars
  PROVE  RootsKept /\ ProgressKept
<1>1. TypeOK /\ PaidIsClaimed /\ now \in Nat /\ Len(epochs) \in Nat
  BY DEF IInv, TypeOK, RegistryTypeOK
<1>2. ASSUME UNCHANGED <<registryVars, epochs>> PROVE RootsKept
  BY <1>1, <1>2, FrameKeepsRoots DEF registryVars
<1>3. CASE UNCHANGED vars
  BY <1>1, <1>2, <1>3, FrameKeepsProgress DEF vars, vaultVars, distributorVars
<1>4. ASSUME NEW m \in Manifest, PublishEpoch(m) PROVE RootsKept /\ ProgressKept
  <2>1. UNCHANGED <<lastClaimed, holdings>> /\ Len(epochs') \in Nat
    BY <1>1, <1>4 DEF PublishEpoch, vaultVars, TypeOK
  <2>2. QED
    BY <1>1, <1>4, <2>1, PublishKeepsRoots, FrameKeepsProgress
<1>5. ASSUME NEW t \in Tokens, NEW amount \in Amounts \ {0},
             Deposit(t, amount) \/ Recover(t, amount)
      PROVE  RootsKept /\ ProgressKept
  <2>1. UNCHANGED <<registryVars, epochs>> /\ UNCHANGED <<lastClaimed, holdings>>
    BY <1>5 DEF Deposit, Recover, ReceiveRewardAsset, RecoverAccidental, AccidentalTransfer,
                distributorVars
  <2>2. QED
    BY <1>1, <1>2, <2>1, FrameKeepsProgress
<1>6. ASSUME NEW c \in DOMAIN epochs, CancelEpoch(c) PROVE RootsKept /\ ProgressKept
  <2>1. UNCHANGED <<lastClaimed, holdings>>
    BY <1>6 DEF CancelEpoch, vaultVars
  <2>2. QED
    BY <1>1, <1>6, <2>1, CancelKeepsRoots, FrameKeepsProgress
<1>7. ASSUME RegistryStep PROVE RootsKept /\ ProgressKept
  <2>1. RegistryTypeOK' /\ now' >= now
    BY <1>1, <1>7, RegistryTypes DEF RegistryStep, TypeOK
  <2>2. UNCHANGED <<epochs, lastClaimed, holdings>>
    BY <1>7 DEF RegistryStep, vaultVars, distributorVars
  <2>3. QED
    BY <1>1, <2>1, <2>2, FrameKeepsRoots, FrameKeepsProgress DEF RegistryTypeOK
<1>8. ASSUME NEW w \in Wallets, NEW e \in DOMAIN epochs,
             Claim(w, e) \/ ClaimFor(w, e) \/ ClaimUpTo(w, e)
      PROVE  RootsKept /\ ProgressKept
  <2>1. UNCHANGED <<registryVars, epochs>>
    BY <1>8 DEF Claim, ClaimFor, ClaimUpTo
  <2>2. ProgressKept
    <3>1. CASE Claim(w, e) \/ ClaimFor(w, e)
      BY <1>1, <2>1, <3>1, SettleKeepsProgress DEF Claim, ClaimFor
    <3>2. CASE ClaimUpTo(w, e)
      BY <1>1, <3>2, ClaimUpToKeepsProgress
    <3>3. QED
      BY <1>8, <3>1, <3>2
  <2>3. QED
    BY <1>2, <2>1, <2>2
<1>9. ASSUME NEW e \in DOMAIN epochs, NEW d \in SUBSET SwitchWallets, ClaimForMany(e, d)
      PROVE  RootsKept /\ ProgressKept
  <2>1. UNCHANGED <<registryVars, epochs>> /\ UNCHANGED <<lastClaimed, holdings>>
    BY <1>9 DEF ClaimForMany, vaultVars
  <2>2. QED
    BY <1>1, <1>2, <2>1, FrameKeepsProgress
<1>10. ASSUME NEW w \in Wallets, DeliverOne(w) PROVE RootsKept /\ ProgressKept
  <2>1. UNCHANGED <<registryVars, epochs>>
    BY <1>10 DEF DeliverOne
  <2>2. CASE Settle(w, batch.epoch)
    BY <1>1, <1>2, <2>1, <2>2, SettleKeepsProgress
  <2>3. CASE UNCHANGED <<vaultVars, claimed, lastClaimed>>
    <3>1. UNCHANGED <<lastClaimed, holdings>>
      BY <2>3 DEF vaultVars
    <3>2. QED
      BY <1>1, <1>2, <2>1, <3>1, FrameKeepsProgress
  <2>4. QED
    BY <1>10, <2>2, <2>3 DEF DeliverOne
<1>11. QED
  BY <1>3, <1>4, <1>5, <1>6, <1>7, <1>8, <1>9, <1>10 DEF Next, Others, ClaimStep

\* The inductive invariant of this module.
LEMMA ProgressInvariant == Spec => [](IInv /\ PositionsPublished)
<1>1. DistributorInit => PositionsPublished
  BY DEF DistributorInit, PositionsPublished
<1>2. IInv /\ PositionsPublished /\ [Next]_vars => PositionsPublished'
  BY StepKeepsBoth DEF ProgressKept, PositionsPublished
<1>3. QED
  BY InitInv, NextKeepsInv, <1>1, <1>2, PTL DEF Spec

\* Active roots stay active with the leaves they were published with.
THEOREM RootsAreFinal == Spec => ActiveRootsAreFinal
<1>1. IInv /\ PositionsPublished /\ [Next]_vars =>
        [\A e \in DOMAIN epochs :
           /\ IsEpochActive(e) => IsEpochActive(e)'
           /\ epochs[e].cancelled => epochs'[e].cancelled
           /\ epochs'[e].cumulative = epochs[e].cumulative]_vars
  BY StepKeepsBoth DEF RootsKept
<1>2. QED
  BY ProgressInvariant, <1>1, PTL DEF Spec, ActiveRootsAreFinal

\* Positions never go back and stay published; nothing paid comes back.
THEOREM ProgressIsNeverLost == Spec => ProgressIsKept
<1>1. IInv /\ PositionsPublished /\ [Next]_vars =>
        [\A w \in Wallets :
           /\ lastClaimed'[w] >= lastClaimed[w] /\ lastClaimed'[w] <= Len(epochs')
           /\ \A t \in Tokens : holdings'[w][t] >= holdings[w][t]]_vars
  BY StepKeepsBoth DEF ProgressKept
<1>2. QED
  BY ProgressInvariant, <1>1, PTL DEF Spec, ProgressIsKept
=============================================================================
