-------------------------- MODULE RewardRailProofs --------------------------
(***************************************************************************)
(* Theorems of RewardRail, for every set of wallets and tokens and every   *)
(* split of the deposits: with the manifests the indexer writes no wallet  *)
(* is paid more than it was allocated, and under one token list no leaf    *)
(* loses anything and no claim order strands anything.  Without that       *)
(* condition, the vault can pay all leaves of all live roots at once.      *)
(*                                                                         *)
(* Every step of the rail is one of the distributor or leaves it alone, so *)
(* its invariant IInv is known; AuthorInv says what the author's books     *)
(* have to do with the leaves, MoneyInv what they have to do with sums     *)
(* over the wallets.                                                       *)
(***************************************************************************)
EXTENDS RewardRail, RewardDistributorProofs, AllocationProofs

Leaf(e, w, t) == epochs[e].cumulative[w][t]

AuthorTypeOK ==
  /\ unlumped \in [Tokens -> Nat]
  /\ entitled \in [Wallets -> [Tokens -> Nat]] /\ due \in [Wallets -> [Tokens -> Nat]]

\* Neither the map nor any leaf exceeds what was allocated.
WithinDue ==
  \A w \in Wallets, t \in Tokens :
    entitled[w][t] <= due[w][t] /\ \A e \in DOMAIN epochs : Leaf(e, w, t) <= due[w][t]

\* What no root lists was never allocated.
UnlistedIsZero ==
  \A t \in Tokens : (\A e \in DOMAIN epochs : t \notin epochs[e].tokens) =>
    \A w \in Wallets : due[w][t] = 0

\* The leaves of the newest root are the map.
NewestIsEntitled ==
  epochs # <<>> =>
    \A w \in epochs[Len(epochs)].holders, t \in Tokens : Leaf(Len(epochs), w, t) = entitled[w][t]

\* Under one token list the map forgets nothing, and leaves only grow.
NothingForgotten == SameListAlways => entitled = due

LeavesGrow ==
  SameListAlways =>
    \A e, f \in DOMAIN epochs : e <= f =>
      \A w \in epochs[f].holders, t \in Tokens : Leaf(e, w, t) <= Leaf(f, w, t)

\* The claimed row of w is its row in root g.
RowOf(w, g, row) ==
  w \in epochs[g].holders /\ \A t \in epochs[g].tokens : row[t] = Leaf(g, w, t)

\* Under one token list what a wallet claimed is one whole row of one root.
RowsAreWhole ==
  SameListAlways =>
    \A w \in Wallets : \/ \A t \in Tokens : claimed[w][t] = 0
                       \/ \E g \in DOMAIN epochs : RowOf(w, g, claimed[w])

AuthorInv ==
  /\ AuthorTypeOK /\ WithinDue /\ UnlistedIsZero /\ NewestIsEntitled
  /\ NothingForgotten /\ LeavesGrow /\ RowsAreWhole

LEMMA AuthorInitInv == RailInit => AuthorInv
<1> SUFFICES ASSUME RailInit PROVE AuthorInv
  OBVIOUS
<1>1. /\ epochs = <<>> /\ DOMAIN epochs = {}
      /\ \A w \in Wallets, t \in Tokens : claimed[w][t] = 0
  BY DEF RailInit, DistributorInit
<1>2. AuthorTypeOK /\ entitled = due /\ \A w \in Wallets, t \in Tokens : due[w][t] = 0
  BY DEF RailInit, AuthorTypeOK, ZeroRows
<1>3. WithinDue
  BY <1>1, <1>2 DEF WithinDue
<1>4. QED
  BY <1>1, <1>2, <1>3 DEF AuthorInv, UnlistedIsZero, NewestIsEntitled, NothingForgotten,
     LeavesGrow, RowsAreWhole

-----------------------------------------------------------------------------
(* Steps that publish nothing. *)

\* No root is added and none changes its list, its holders or its leaves.
RootsSame ==
  /\ DOMAIN epochs' = DOMAIN epochs /\ Len(epochs') = Len(epochs)
  /\ \A e \in DOMAIN epochs :
       /\ epochs'[e].tokens = epochs[e].tokens /\ epochs'[e].holders = epochs[e].holders
       /\ epochs'[e].cumulative = epochs[e].cumulative

\* A claimed row stays or becomes one row of one root.
RowMoves(w) ==
  claimed'[w] = claimed[w] \/ \E g \in DOMAIN epochs : RowOf(w, g, claimed'[w])

LEMMA QuietKeepsAuthor ==
  ASSUME TypeOK, AuthorInv, RootsSame, UNCHANGED authorVars,
         SameListAlways => \A w \in Wallets : RowMoves(w)
  PROVE  AuthorInv'
<1>1. UNCHANGED <<unlumped, entitled, due>>
  BY DEF authorVars
<1>2. SameListAlways' <=> SameListAlways
  BY DEF SameListAlways, RootsSame
<1>3. Len(epochs) \in Nat /\ DOMAIN epochs = 1 .. Len(epochs) /\ (epochs # <<>> <=> Len(epochs) > 0)
  BY DEF TypeOK
<1>4. epochs' # <<>> => epochs # <<>> /\ Len(epochs) \in DOMAIN epochs
  <2>1. epochs = <<>> => DOMAIN epochs' = {} /\ Len(epochs') = 0
    BY <1>3 DEF RootsSame
  <2>2. CASE epochs = <<>>
    BY <1>3, <2>1, <2>2 DEF RootsSame
  <2>3. QED
    BY <1>3, <2>2
<1>5. AuthorTypeOK' /\ WithinDue' /\ UnlistedIsZero'
  BY <1>1 DEF AuthorInv, AuthorTypeOK, WithinDue, UnlistedIsZero, Leaf, RootsSame
<1>6. NewestIsEntitled'
  BY <1>1, <1>4 DEF AuthorInv, NewestIsEntitled, Leaf, RootsSame
<1>7. NothingForgotten' /\ LeavesGrow'
  BY <1>1, <1>2 DEF AuthorInv, NothingForgotten, LeavesGrow, Leaf, RootsSame
<1>8. RowsAreWhole'
  BY <1>2 DEF AuthorInv, RowsAreWhole, RowMoves, RowOf, Leaf, RootsSame
<1>9. QED
  BY <1>5, <1>6, <1>7, <1>8 DEF AuthorInv

LEMMA SameEpochs == ASSUME UNCHANGED epochs PROVE RootsSame
  BY DEF RootsSame

LEMMA CancelIsQuiet ==
  ASSUME TypeOK, NEW c \in DOMAIN epochs, CancelEpoch(c)
  PROVE  RootsSame /\ UNCHANGED claimed
<1>1. epochs \in Seq(EpochRecord) /\ epochs' = [epochs EXCEPT ![c].cancelled = TRUE]
  BY DEF CancelEpoch, TypeOK
<1>2. epochs[c] \in EpochRecord /\ \A e \in DOMAIN epochs : epochs[e] \in EpochRecord
  BY <1>1
<1>3. QED
  BY <1>1, <1>2 DEF RootsSame, CancelEpoch, EpochRecord

\* A claim books the row of its root.
LEMMA SettleBooksRow ==
  ASSUME TypeOK, NEW w \in Wallets, NEW e, Settle(w, e)
  PROVE  \A v \in Wallets : RowMoves(v)
<1>1. /\ e \in DOMAIN epochs /\ w \in epochs[e].holders
      /\ claimed' = [claimed EXCEPT ![w] = RowAfter(w, e)]
      /\ claimed \in [Wallets -> [Tokens -> Nat]]
  BY DEF Settle, Entitled, IsEpochActive, PayRow, TypeOK
<1>2. epochs[e].tokens \subseteq Tokens
  BY <1>1, EpochFields
<1>3. RowOf(w, e, RowAfter(w, e))
  BY <1>1, <1>2 DEF RowOf, RowAfter, Leaf
<1>4. QED
  BY <1>1, <1>3 DEF RowMoves

\* A catch-up over one token list books the row of the last root of its span.
LEMMA CatchUpBooksRow ==
  ASSUME TypeOK, SameListAlways, NEW w \in Wallets, NEW e \in DOMAIN epochs, ClaimUpTo(w, e)
  PROVE  \A v \in Wallets : RowMoves(v)
<1> DEFINE S == Span(w, e)
           last == CHOOSE f \in S : \A g \in S : g <= f
<1>1. /\ Len(epochs) \in Nat /\ DOMAIN epochs = 1 .. Len(epochs) /\ S \subseteq DOMAIN epochs
      /\ RowAfterSpan(w, S) \in [Tokens -> Nat]
      /\ claimed \in [Wallets -> [Tokens -> Nat]]
  BY SpanRow DEF TypeOK
<1>2. /\ claimed' = [claimed EXCEPT ![w] = RowAfterSpan(w, S)]
      /\ \A f \in S : w \in epochs[f].holders
  BY DEF ClaimUpTo, PayRow, Entitled
<1> HIDE DEF S, last
<1>3. CASE S = {}
  <2>1. \A t \in Tokens : Listing(S, t) = {}
    BY <1>3 DEF Listing
  <2>2. RowAfterSpan(w, S) = claimed[w]
    BY <1>1, <2>1 DEF RowAfterSpan
  <2>3. QED
    BY <1>1, <1>2, <2>2 DEF RowMoves
<1>4. CASE S # {}
  <2>1. last \in S
    <3>1. S \in SUBSET (0 .. Len(epochs))
      BY <1>1
    <3>2. \E f \in S : \A g \in S : g <= f
      BY <1>1, <1>4, <3>1, LargestBelow
    <3>3. QED
      BY <3>2 DEF last
  <2>2. last \in DOMAIN epochs /\ epochs[last].tokens \subseteq Tokens
    BY <1>1, <2>1, EpochFields
  <2>3. ASSUME NEW t \in epochs[last].tokens
        PROVE  RowAfterSpan(w, S)[t] = Leaf(last, w, t)
    <3>1. \A f \in S : t \in epochs[f].tokens
      BY <1>1, <2>1, <2>2 DEF SameListAlways
    <3>2. Listing(S, t) = S
      BY <3>1 DEF Listing
    <3>3. t \in Tokens
      BY <2>2
    <3>4. QED
      BY <1>4, <3>2, <3>3 DEF RowAfterSpan, Leaf, last
  <2>4. RowOf(w, last, RowAfterSpan(w, S))
    BY <1>2, <2>1, <2>3 DEF RowOf
  <2>5. QED
    BY <1>1, <1>2, <2>2, <2>4 DEF RowMoves
<1>5. QED
  BY <1>3, <1>4

LEMMA OthersKeepAuthor ==
  ASSUME TypeOK, AuthorInv, Others, UNCHANGED authorVars
  PROVE  AuthorInv'
<1>1. ASSUME UNCHANGED epochs, SameListAlways => \A w \in Wallets : RowMoves(w) PROVE AuthorInv'
  BY <1>1, SameEpochs, QuietKeepsAuthor
<1>2. ASSUME UNCHANGED <<epochs, claimed>> PROVE AuthorInv'
  BY <1>1, <1>2 DEF RowMoves
<1>3. ASSUME NEW c \in DOMAIN epochs, CancelEpoch(c) PROVE AuthorInv'
  BY <1>3, CancelIsQuiet, QuietKeepsAuthor DEF RowMoves
<1>4. ASSUME NEW w \in Wallets, NEW e \in DOMAIN epochs,
             Claim(w, e) \/ ClaimFor(w, e) \/ ClaimUpTo(w, e)
      PROVE  AuthorInv'
  <2>1. UNCHANGED epochs
    BY <1>4 DEF Claim, ClaimFor, ClaimUpTo
  <2>2. CASE Claim(w, e) \/ ClaimFor(w, e)
    BY <1>1, <2>1, <2>2, SettleBooksRow DEF Claim, ClaimFor
  <2>3. CASE ClaimUpTo(w, e)
    BY <1>1, <2>1, <2>3, CatchUpBooksRow
  <2>4. QED
    BY <1>4, <2>2, <2>3
<1>5. ASSUME NEW e \in DOMAIN epochs, NEW d \in SUBSET SwitchWallets, ClaimForMany(e, d)
      PROVE  AuthorInv'
  BY <1>2, <1>5 DEF ClaimForMany
<1>6. ASSUME NEW w \in Wallets, DeliverOne(w) PROVE AuthorInv'
  <2>1. UNCHANGED epochs
    BY <1>6 DEF DeliverOne
  <2>2. CASE Settle(w, batch.epoch)
    BY <1>1, <2>1, <2>2, SettleBooksRow
  <2>3. CASE UNCHANGED <<vaultVars, claimed, lastClaimed>>
    BY <1>2, <2>1, <2>3
  <2>4. QED
    BY <1>6, <2>2, <2>3 DEF DeliverOne
<1>7. ASSUME NEW t \in Tokens, NEW amount \in Amounts \ {0}, Recover(t, amount) PROVE AuthorInv'
  BY <1>2, <1>7 DEF Recover, distributorVars
<1>8. ASSUME RegistryStep PROVE AuthorInv'
  BY <1>2, <1>8 DEF RegistryStep, distributorVars
<1>9. QED
  BY <1>3, <1>4, <1>5, <1>6, <1>7, <1>8 DEF Others, ClaimStep

LEMMA DepositKeepsAuthor ==
  ASSUME TypeOK, AuthorInv, NEW t \in Tokens, NEW amount \in Amounts \ {0}, RailDeposit(t, amount)
  PROVE  AuthorInv'
<1>1. UNCHANGED <<epochs, claimed, entitled, due>>
  BY DEF RailDeposit, Deposit, distributorVars
<1>2. unlumped' \in [Tokens -> Nat]
  BY AmountsAreNats DEF RailDeposit, AuthorInv, AuthorTypeOK
<1>3. AuthorTypeOK' /\ WithinDue' /\ UnlistedIsZero'
  BY <1>1, <1>2 DEF AuthorInv, AuthorTypeOK, WithinDue, UnlistedIsZero, Leaf
<1>4. NewestIsEntitled' /\ NothingForgotten' /\ LeavesGrow' /\ RowsAreWhole'
  BY <1>1 DEF AuthorInv, NewestIsEntitled, NothingForgotten, LeavesGrow, RowsAreWhole, RowOf,
              Leaf, SameListAlways
<1>5. QED
  BY <1>3, <1>4 DEF AuthorInv

-----------------------------------------------------------------------------
(* Publication. *)

\* What one build does to the books: shares are added, and the new root's
\* leaves are the new map.
LEMMA BuildFacts ==
  ASSUME TypeOK, AuthorInv, NEW holders \in SUBSET Wallets, NEW d \in AllSplits(holders),
         BuildAndPublish(holders, d)
  PROVE  LET n == Len(epochs) + 1
         IN  /\ AuthorTypeOK' /\ DOMAIN epochs = 1 .. Len(epochs) /\ DOMAIN epochs' = 1 .. n
             /\ Len(epochs) \in Nat /\ Len(epochs') = n
             /\ \A e \in DOMAIN epochs : epochs'[e] = epochs[e]
             /\ epochs'[n].tokens = FundedAssets /\ epochs'[n].holders = holders
             /\ claimed' = claimed
             /\ \A w \in Wallets, t \in Tokens :
                  /\ epochs'[n].cumulative[w][t] = IF w \in holders THEN entitled'[w][t] ELSE 0
                  /\ due'[w][t] >= due[w][t]
                  /\ t \in FundedAssets => entitled'[w][t] - entitled[w][t] = due'[w][t] - due[w][t]
                  /\ t \notin FundedAssets => entitled'[w][t] = 0 /\ due'[w][t] = due[w][t]
<1> DEFINE next == ApplyCumulative(FundedAssets, d)
           m == ManifestOf(FundedAssets, holders, next)
           n == Len(epochs) + 1
<1>1. /\ m \in Manifest /\ PublishEpoch(m) /\ entitled' = next
      /\ due' = [w \in Wallets |-> [t \in Tokens |->
                   IF t \in FundedAssets THEN due[w][t] + d[t][w] ELSE due[w][t]]]
      /\ unlumped' = [t \in Tokens |-> 0]
  BY DEF BuildAndPublish
<1>2. \A t \in Tokens, w \in Wallets : d[t][w] \in Nat
  BY DEF AllSplits, Splits, AuthorInv, AuthorTypeOK
<1>3. \A w \in Wallets, t \in Tokens :
        /\ entitled[w][t] \in Nat /\ due[w][t] \in Nat
        /\ next[w][t] = IF t \in FundedAssets THEN entitled[w][t] + d[t][w] ELSE 0
        /\ due'[w][t] = IF t \in FundedAssets THEN due[w][t] + d[t][w] ELSE due[w][t]
  BY <1>1 DEF ApplyCumulative, AuthorInv, AuthorTypeOK
<1>4. /\ epochs' = Append(epochs, EpochOf(m)) /\ claimed' = claimed
      /\ Len(epochs) \in Nat /\ epochs \in Seq(EpochRecord)
  BY <1>1 DEF PublishEpoch, TypeOK
<1>5. /\ EpochOf(m).tokens = FundedAssets /\ EpochOf(m).holders = holders
      /\ EpochOf(m).cumulative = [w \in Wallets |-> [t \in Tokens |->
                                    IF w \in holders THEN next[w][t] ELSE 0]]
  BY DEF EpochOf, ManifestOf
<1>6. AuthorTypeOK'
  <2>1. entitled' \in [Wallets -> [Tokens -> Nat]]
    BY <1>1, <1>2, <1>3 DEF ApplyCumulative
  <2>2. due' \in [Wallets -> [Tokens -> Nat]]
    BY <1>1, <1>2, <1>3
  <2>3. QED
    BY <1>1, <2>1, <2>2 DEF AuthorTypeOK
<1> HIDE DEF m, next
<1>7. /\ DOMAIN epochs = 1 .. Len(epochs) /\ DOMAIN epochs' = 1 .. n /\ Len(epochs') = n
      /\ \A e \in DOMAIN epochs : epochs'[e] = epochs[e]
      /\ epochs'[n] = EpochOf(m)
  BY <1>4
<1>8. ASSUME NEW w \in Wallets, NEW t \in Tokens
      PROVE  /\ epochs'[n].cumulative[w][t] = IF w \in holders THEN entitled'[w][t] ELSE 0
             /\ due'[w][t] >= due[w][t]
             /\ t \in FundedAssets => entitled'[w][t] - entitled[w][t] = due'[w][t] - due[w][t]
             /\ t \notin FundedAssets => entitled'[w][t] = 0 /\ due'[w][t] = due[w][t]
  BY <1>1, <1>2, <1>3, <1>5, <1>7
<1>9. QED
  BY <1>4, <1>5, <1>6, <1>7, <1>8

LEMMA BuildKeepsAuthor ==
  ASSUME TypeOK, AuthorInv, NEW holders \in SUBSET Wallets, NEW d \in AllSplits(holders),
         BuildAndPublish(holders, d)
  PROVE  AuthorInv'
<1> DEFINE n == Len(epochs) + 1
<1>1. /\ AuthorTypeOK' /\ DOMAIN epochs = 1 .. Len(epochs) /\ DOMAIN epochs' = 1 .. n
      /\ Len(epochs) \in Nat /\ Len(epochs') = n
      /\ \A e \in DOMAIN epochs : epochs'[e] = epochs[e]
      /\ epochs'[n].tokens = FundedAssets /\ epochs'[n].holders = holders
      /\ claimed' = claimed
  BY BuildFacts
<1>2. \A w \in Wallets, t \in Tokens :
        /\ epochs'[n].cumulative[w][t] = IF w \in holders THEN entitled'[w][t] ELSE 0
        /\ due'[w][t] >= due[w][t]
        /\ t \in FundedAssets => entitled'[w][t] - entitled[w][t] = due'[w][t] - due[w][t]
        /\ t \notin FundedAssets => entitled'[w][t] = 0 /\ due'[w][t] = due[w][t]
  BY BuildFacts
<1>3. \A w \in Wallets, t \in Tokens :
        /\ entitled[w][t] \in Nat /\ entitled'[w][t] \in Nat
        /\ due[w][t] \in Nat /\ due'[w][t] \in Nat
        /\ entitled[w][t] <= due[w][t]
  BY <1>1 DEF AuthorInv, AuthorTypeOK, WithinDue
<1>4. \A w \in Wallets, t \in Tokens : entitled'[w][t] <= due'[w][t]
  BY <1>2, <1>3
<1>5. \A e \in DOMAIN epochs' : e = n \/ e \in DOMAIN epochs
  BY <1>1
<1>6. WithinDue'
  <2>1. SUFFICES ASSUME NEW w \in Wallets, NEW t \in Tokens, NEW e \in DOMAIN epochs'
                 PROVE  epochs'[e].cumulative[w][t] <= due'[w][t]
    BY <1>4 DEF WithinDue, Leaf
  <2>2. CASE e = n
    BY <1>2, <1>3, <1>4, <2>2
  <2>3. CASE e \in DOMAIN epochs
    <3>1. epochs[e].cumulative[w][t] \in Nat
      BY <2>3, EpochFields
    <3>2. epochs[e].cumulative[w][t] <= due[w][t]
      BY <2>3 DEF AuthorInv, WithinDue, Leaf
    <3>3. QED
      BY <1>1, <1>2, <1>3, <2>3, <3>1, <3>2
  <2>4. QED
    BY <1>5, <2>2, <2>3
<1>7. UnlistedIsZero'
  BY <1>1, <1>2 DEF AuthorInv, UnlistedIsZero
<1>8. NewestIsEntitled'
  BY <1>1, <1>2 DEF NewestIsEntitled, Leaf
<1>9. SameListAlways' => SameListAlways
  BY <1>1 DEF SameListAlways
<1>10. NothingForgotten'
  <2>1. SUFFICES ASSUME SameListAlways' PROVE entitled' = due'
    BY DEF NothingForgotten
  <2>2. \A e \in DOMAIN epochs : epochs[e].tokens = FundedAssets
    BY <1>1, <2>1 DEF SameListAlways
  <2>3. entitled = due
    BY <1>9, <2>1 DEF AuthorInv, NothingForgotten
  <2>4. ASSUME NEW w \in Wallets, NEW t \in Tokens PROVE entitled'[w][t] = due'[w][t]
    <3>1. CASE t \in FundedAssets
      BY <1>2, <1>3, <2>3, <3>1
    <3>2. CASE t \notin FundedAssets
      BY <1>2, <2>2, <3>2 DEF AuthorInv, UnlistedIsZero
    <3>3. QED
      BY <3>1, <3>2
  <2>5. QED
    BY <1>1, <2>4 DEF AuthorTypeOK
<1>11. LeavesGrow'
  <2>1. SUFFICES ASSUME SameListAlways', NEW e \in DOMAIN epochs', NEW f \in DOMAIN epochs', e <= f,
                        NEW w \in epochs'[f].holders, NEW t \in Tokens
                 PROVE  epochs'[e].cumulative[w][t] <= epochs'[f].cumulative[w][t]
    BY DEF LeavesGrow, Leaf
  <2>2. CASE f \in DOMAIN epochs
    <3>1. e \in DOMAIN epochs
      BY <1>1, <2>1, <2>2
    <3>2. QED
      BY <1>1, <1>9, <2>1, <2>2, <3>1 DEF AuthorInv, LeavesGrow, Leaf
  <2>3. CASE f = n
    <3>1. w \in Wallets /\ w \in holders
      BY <1>1, <2>1, <2>3
    <3>2. epochs'[f].cumulative[w][t] = due'[w][t]
      BY <1>2, <1>10, <2>1, <2>3, <3>1 DEF NothingForgotten
    <3>3. QED
      BY <1>6, <2>1, <3>1, <3>2 DEF WithinDue, Leaf
  <2>4. QED
    BY <1>5, <2>2, <2>3
<1>12. RowsAreWhole'
  BY <1>1, <1>9 DEF AuthorInv, RowsAreWhole, RowOf, Leaf
<1>13. QED
  BY <1>1, <1>6, <1>7, <1>8, <1>10, <1>11, <1>12 DEF AuthorInv

-----------------------------------------------------------------------------
\* Every step of the rail is a step of the distributor.
LEMMA RailStepsDistribute == [RailNext]_railVars => [Next]_vars
  BY DEF RailNext, Next, BuildAndPublish, RailDeposit, railVars

\* Every behaviour of the rail is one of the distributor: what is proved of
\* vault, registry and distributor for any manifest holds with the author.
THEOREM RailIsDistributor == RailSpec => Spec
<1>1. RailInit => DistributorInit
  BY DEF RailInit
<1>2. QED
  BY <1>1, RailStepsDistribute, PTL DEF RailSpec, Spec

LEMMA RailKeepsInv == IInv /\ AuthorInv /\ [RailNext]_railVars => IInv' /\ AuthorInv'
<1> SUFFICES ASSUME IInv, AuthorInv, [RailNext]_railVars PROVE IInv' /\ AuthorInv'
  OBVIOUS
<1>1. IInv'
  BY RailStepsDistribute, NextKeepsInv
<1>2. TypeOK
  BY DEF IInv
<1>3. CASE \E holders \in SUBSET Wallets : \E d \in AllSplits(holders) : BuildAndPublish(holders, d)
  BY <1>1, <1>2, <1>3, BuildKeepsAuthor
<1>4. CASE \E t \in Tokens, amount \in Amounts \ {0} : RailDeposit(t, amount)
  BY <1>1, <1>2, <1>4, DepositKeepsAuthor
<1>5. CASE Others /\ UNCHANGED authorVars
  BY <1>1, <1>2, <1>5, OthersKeepAuthor
<1>6. CASE UNCHANGED railVars
  <2>1. UNCHANGED <<epochs, claimed>> /\ UNCHANGED authorVars
    BY <1>6 DEF railVars, vars, distributorVars
  <2>2. QED
    BY <1>1, <1>2, <2>1, SameEpochs, QuietKeepsAuthor DEF RowMoves
<1>7. QED
  BY <1>3, <1>4, <1>5, <1>6 DEF RailNext

-----------------------------------------------------------------------------
(* The money: what the books, the record and the payments add up to. *)

Allocated(t) == [w \in Wallets |-> due[w][t]]
Received(t) == [w \in Wallets |-> holdings[w][t]]

\* Every recorded unit was allocated or waits above the watermark.
BooksBalance ==
  \A t \in Tokens : SumOf(Allocated(t)) + unlumped[t] = lifetimeDeposits[t]

\* What left by redeem is what the wallets received.
PaymentsAddUp == \A t \in Tokens : SumOf(Received(t)) = redeemed[t]

MoneyInv == CustodyCoversRecord /\ BooksBalance /\ PaymentsAddUp

LEMMA TotalIsSum == ASSUME NEW f PROVE Total(f) = SumOf(f)
  BY DEF Total, SumOf

LEMMA MoneyInitInv == RailInit => MoneyInv
<1> SUFFICES ASSUME RailInit PROVE MoneyInv
  OBVIOUS
<1>1. /\ \A t \in Tokens : /\ vaultBalance[t] = 0 /\ redeemed[t] = 0 /\ lifetimeDeposits[t] = 0
                           /\ unlumped[t] = 0
      /\ \A w \in Wallets, t \in Tokens : due[w][t] = 0 /\ holdings[w][t] = 0
  BY DEF RailInit, DistributorInit, ZeroRows
<1>2. ASSUME NEW t \in Tokens PROVE SumOf(Allocated(t)) = 0 /\ SumOf(Received(t)) = 0
  <2>1. \A w \in Wallets : Allocated(t)[w] = 0 /\ Received(t)[w] = 0
    BY <1>1 DEF Allocated, Received
  <2>2. SumOn(Allocated(t), Wallets) = 0 /\ SumOn(Received(t), Wallets) = 0
    BY <2>1, RailAssumption, SumOfZeros
  <2>3. DOMAIN Allocated(t) = Wallets /\ DOMAIN Received(t) = Wallets
    BY DEF Allocated, Received
  <2>4. QED
    BY <2>2, <2>3, SumOfOn
<1>3. CustodyCoversRecord
  BY <1>1 DEF CustodyCoversRecord
<1>4. BooksBalance /\ PaymentsAddUp
  BY <1>1, <1>2 DEF BooksBalance, PaymentsAddUp
<1>5. QED
  BY <1>3, <1>4 DEF MoneyInv

LEMMA AllocatedIsSum ==
  ASSUME AuthorInv, NEW t \in Tokens
  PROVE  /\ SumOf(Allocated(t)) \in Int
         /\ SumOf(Allocated(t)) = SumOn(Allocated(t), Wallets)
         /\ Integral(Allocated(t), Wallets)
<1>1. Integral(Allocated(t), Wallets) /\ DOMAIN Allocated(t) = Wallets
  BY DEF AuthorInv, AuthorTypeOK, Allocated, Integral
<1>2. SumOn(Allocated(t), Wallets) \in Int
  BY <1>1, RailAssumption, SumTakesAny
<1>3. QED
  BY <1>1, <1>2, SumOfOn

\* A payment: some wallet receives an amount of every token.
Pays == \E w \in Wallets : \E paid \in [Tokens -> Nat] : RedeemEach(Distributor, w, paid)

LEMMA PayRowPays ==
  ASSUME TypeOK, NEW w \in Wallets, NEW row \in [Tokens -> Nat], PayRow(w, row)
  PROVE  Pays
<1> DEFINE paid == [t \in Tokens |-> row[t] - claimed[w][t]]
<1>1. claimed[w] \in [Tokens -> Nat] /\ \A t \in Tokens : row[t] >= claimed[w][t]
  BY DEF PayRow, TypeOK
<1>2. paid \in [Tokens -> Nat]
  BY <1>1
<1>3. RedeemEach(Distributor, w, paid)
  BY DEF PayRow
<1>4. QED
  BY <1>2, <1>3 DEF Pays

LEMMA SettlePays ==
  ASSUME TypeOK, NEW w \in Wallets, NEW e, Settle(w, e)
  PROVE  Pays
<1>1. e \in DOMAIN epochs /\ PayRow(w, RowAfter(w, e))
  BY DEF Settle, Entitled, IsEpochActive
<1>2. RowAfter(w, e) \in [Tokens -> Nat]
  BY <1>1, EpochFields DEF RowAfter, TypeOK
<1>3. QED
  BY <1>1, <1>2, PayRowPays

\* A payment moves from the vault to the wallet what it adds to the payments.
LEMMA PayKeepsMoney ==
  ASSUME TypeOK, MoneyInv, Pays, UNCHANGED <<unlumped, due>>
  PROVE  MoneyInv'
<1>1. PICK w \in Wallets, paid \in [Tokens -> Nat] : RedeemEach(Distributor, w, paid)
  BY DEF Pays
<1>2. /\ vaultBalance \in [Tokens -> Nat] /\ redeemed \in [Tokens -> Nat]
      /\ lifetimeDeposits' = lifetimeDeposits /\ lifetimeDeposits \in [Tokens -> Nat]
      /\ holdings \in [Wallets -> [Tokens -> Nat]]
  BY <1>1 DEF TypeOK, VaultTypeOK, RedeemEach
<1>3. \A t \in Tokens : /\ vaultBalance'[t] = vaultBalance[t] - paid[t]
                        /\ redeemed'[t] = redeemed[t] + paid[t]
                        /\ paid[t] \in Nat
  BY <1>1 DEF RedeemEach
<1>4. CustodyCoversRecord'
  BY <1>2, <1>3 DEF MoneyInv, CustodyCoversRecord
<1>5. BooksBalance'
  BY <1>2 DEF MoneyInv, BooksBalance, Allocated
<1>6. ASSUME NEW t \in Tokens PROVE SumOf(Received(t)') = redeemed'[t]
  <2>1. /\ Received(t) \in [Wallets -> Int] /\ Received(t)[w] \in Nat
        /\ Received(t)[w] + paid[t] \in Int
    BY <1>2 DEF Received
  <2>2. Received(t)' = [Received(t) EXCEPT ![w] = Received(t)[w] + paid[t]]
    BY <1>1, <1>2 DEF RedeemEach, Received
  <2>3. \A f \in [Wallets -> Int], v \in Int : SumOf([f EXCEPT ![w] = v]) = SumOf(f) - f[w] + v
    BY RailAssumption, SumExcept
  <2>4. SumOf(Received(t)') = SumOf(Received(t)) - Received(t)[w] + (Received(t)[w] + paid[t])
    BY <2>1, <2>2, <2>3
  <2>5. SumOf(Received(t)) = redeemed[t] /\ redeemed[t] \in Nat
    BY <1>2 DEF MoneyInv, PaymentsAddUp
  <2>6. QED
    BY <1>3, <2>1, <2>4, <2>5
<1>7. PaymentsAddUp'
  BY <1>6 DEF PaymentsAddUp
<1>8. QED
  BY <1>4, <1>5, <1>7 DEF MoneyInv

\* Nothing is paid and custody stays ahead of the record.
QuietMoney ==
  UNCHANGED <<lifetimeDeposits, holdings, redeemed>>
  /\ \A t \in Tokens : lifetimeDeposits[t] = 0 \/ vaultBalance'[t] >= vaultBalance[t]

LEMMA QuietKeepsMoney ==
  ASSUME TypeOK, VaultTypeOK', MoneyInv, QuietMoney, UNCHANGED <<unlumped, due>>
  PROVE  MoneyInv'
<1>1. CustodyCoversRecord'
  <2>1. SUFFICES ASSUME NEW t \in Tokens
                 PROVE  vaultBalance'[t] + redeemed[t] >= lifetimeDeposits[t]
    BY DEF CustodyCoversRecord, QuietMoney
  <2>2. /\ vaultBalance[t] \in Nat /\ vaultBalance'[t] \in Nat
        /\ redeemed[t] \in Nat /\ lifetimeDeposits[t] \in Nat
    BY DEF TypeOK, VaultTypeOK
  <2>3. vaultBalance[t] + redeemed[t] >= lifetimeDeposits[t]
    BY DEF MoneyInv, CustodyCoversRecord
  <2>4. lifetimeDeposits[t] = 0 \/ vaultBalance'[t] >= vaultBalance[t]
    BY DEF QuietMoney
  <2>5. QED
    BY <2>2, <2>3, <2>4
<1>2. BooksBalance' /\ PaymentsAddUp'
  BY DEF MoneyInv, BooksBalance, PaymentsAddUp, Allocated, Received, QuietMoney
<1>3. QED
  BY <1>1, <1>2 DEF MoneyInv

\* Whatever neither deposits nor publishes is a payment or leaves the money be.
LEMMA OthersPayOrRest ==
  ASSUME TypeOK, Others
  PROVE  Pays \/ QuietMoney
<1>1. ASSUME UNCHANGED vaultVars PROVE QuietMoney
  BY <1>1 DEF vaultVars, QuietMoney, TypeOK, VaultTypeOK
<1>2. ASSUME NEW e \in DOMAIN epochs, CancelEpoch(e) PROVE QuietMoney
  BY <1>1, <1>2 DEF CancelEpoch
<1>3. ASSUME NEW w \in Wallets, NEW e \in DOMAIN epochs, Claim(w, e) \/ ClaimFor(w, e) PROVE Pays
  BY <1>3, SettlePays DEF Claim, ClaimFor
<1>4. ASSUME NEW w \in Wallets, NEW e \in DOMAIN epochs, ClaimUpTo(w, e) PROVE Pays
  BY <1>4, SpanRow, PayRowPays DEF ClaimUpTo
<1>5. ASSUME NEW e \in DOMAIN epochs, NEW d \in SUBSET SwitchWallets, ClaimForMany(e, d)
      PROVE  QuietMoney
  BY <1>1, <1>5 DEF ClaimForMany
<1>6. ASSUME NEW w \in Wallets, DeliverOne(w) PROVE Pays \/ QuietMoney
  BY <1>1, <1>6, SettlePays DEF DeliverOne
<1>7. ASSUME NEW t \in Tokens, NEW amount \in Amounts \ {0}, Recover(t, amount) PROVE QuietMoney
  <2>1. amount \in Nat /\ vaultBalance \in [Tokens -> Nat] /\ lifetimeDeposits \in [Tokens -> Nat]
    BY AmountsAreNats DEF TypeOK, VaultTypeOK
  <2>2. UNCHANGED <<lifetimeDeposits, holdings, redeemed>>
    BY <1>7 DEF Recover, RecoverAccidental, AccidentalTransfer
  <2>3. ASSUME NEW u \in Tokens PROVE lifetimeDeposits[u] = 0 \/ vaultBalance'[u] >= vaultBalance[u]
    <3>1. CASE RecoverAccidental(t, amount)
      BY <2>1, <3>1 DEF RecoverAccidental, Recoverable
    <3>2. CASE AccidentalTransfer(t, amount)
      BY <2>1, <3>2 DEF AccidentalTransfer
    <3>3. QED
      BY <1>7, <3>1, <3>2 DEF Recover
  <2>4. QED
    BY <2>2, <2>3 DEF QuietMoney
<1>8. ASSUME RegistryStep PROVE QuietMoney
  BY <1>1, <1>8 DEF RegistryStep
<1>9. QED
  BY <1>2, <1>3, <1>4, <1>5, <1>6, <1>7, <1>8 DEF Others, ClaimStep

\* A deposit is recorded, held and above the watermark in the same amount.
LEMMA DepositKeepsMoney ==
  ASSUME TypeOK, AuthorInv, MoneyInv,
         NEW t \in Tokens, NEW amount \in Amounts \ {0}, RailDeposit(t, amount)
  PROVE  MoneyInv'
<1>1. /\ vaultBalance' = [vaultBalance EXCEPT ![t] = @ + amount]
      /\ lifetimeDeposits' = [lifetimeDeposits EXCEPT ![t] = @ + amount]
      /\ unlumped' = [unlumped EXCEPT ![t] = @ + amount]
      /\ UNCHANGED <<holdings, redeemed, due>>
  BY DEF RailDeposit, Deposit, ReceiveRewardAsset
<1>2. /\ vaultBalance \in [Tokens -> Nat] /\ lifetimeDeposits \in [Tokens -> Nat]
      /\ redeemed \in [Tokens -> Nat] /\ unlumped \in [Tokens -> Nat] /\ amount \in Nat
  BY AmountsAreNats DEF TypeOK, VaultTypeOK, AuthorInv, AuthorTypeOK
<1>3. CustodyCoversRecord'
  BY <1>1, <1>2 DEF MoneyInv, CustodyCoversRecord
<1>4. PaymentsAddUp'
  BY <1>1 DEF MoneyInv, PaymentsAddUp, Received
<1>5. ASSUME NEW u \in Tokens
      PROVE  SumOf(Allocated(u)') + unlumped'[u] = lifetimeDeposits'[u]
  <2>1. Allocated(u)' = Allocated(u)
    BY <1>1 DEF Allocated
  <2>2. SumOf(Allocated(u)) \in Int /\ SumOf(Allocated(u)) + unlumped[u] = lifetimeDeposits[u]
    BY AllocatedIsSum DEF MoneyInv, BooksBalance
  <2>3. QED
    BY <1>1, <1>2, <2>1, <2>2
<1>6. QED
  BY <1>3, <1>4, <1>5 DEF MoneyInv, BooksBalance

\* A build allocates all that is above the watermark.
LEMMA BuildKeepsMoney ==
  ASSUME TypeOK, AuthorInv, MoneyInv, NEW holders \in SUBSET Wallets, NEW d \in AllSplits(holders),
         BuildAndPublish(holders, d)
  PROVE  MoneyInv'
<1>1. /\ UNCHANGED <<vaultBalance, lifetimeDeposits, holdings, redeemed>>
      /\ due' = [w \in Wallets |-> [t \in Tokens |->
                   IF t \in FundedAssets THEN due[w][t] + d[t][w] ELSE due[w][t]]]
      /\ unlumped' = [t \in Tokens |-> 0]
  BY DEF BuildAndPublish, PublishEpoch, vaultVars
<1>2. CustodyCoversRecord' /\ PaymentsAddUp'
  BY <1>1 DEF MoneyInv, CustodyCoversRecord, PaymentsAddUp, Received
<1>3. ASSUME NEW t \in Tokens
      PROVE  SumOf(Allocated(t)') + unlumped'[t] = lifetimeDeposits'[t]
  <2>1. /\ d[t] \in [Wallets -> Nat] /\ SumOf(d[t]) = unlumped[t]
        /\ unlumped[t] \in Nat /\ due \in [Wallets -> [Tokens -> Nat]]
    BY TotalIsSum DEF AllSplits, Splits, AuthorInv, AuthorTypeOK
  <2>2. SumOf(Allocated(t)) \in Int /\ SumOf(Allocated(t)) + unlumped[t] = lifetimeDeposits[t]
    BY AllocatedIsSum DEF MoneyInv, BooksBalance
  <2>3. CASE t \notin FundedAssets
    <3>1. unlumped[t] = 0 /\ Allocated(t)' = Allocated(t)
      BY <1>1, <2>1, <2>3 DEF FundedAssets, Allocated
    <3>2. QED
      BY <1>1, <2>2, <3>1
  <2>4. CASE t \in FundedAssets
    <3> DEFINE h == Allocated(t)'
    <3>1. /\ Integral(Allocated(t), Wallets) /\ Integral(d[t], Wallets)
          /\ \A w \in Wallets : h[w] = Allocated(t)[w] + 1 * d[t][w]
          /\ DOMAIN h = Wallets /\ DOMAIN Allocated(t) = Wallets /\ DOMAIN d[t] = Wallets
      BY <1>1, <2>1, <2>4 DEF Allocated, Integral
    <3> HIDE DEF h
    <3>2. SumOn(h, Wallets) = SumOn(Allocated(t), Wallets) + 1 * SumOn(d[t], Wallets)
      BY <3>1, RailAssumption, SumIsLinear
    <3>3. /\ SumOf(h) = SumOn(h, Wallets) /\ SumOf(d[t]) = SumOn(d[t], Wallets)
          /\ SumOf(Allocated(t)) = SumOn(Allocated(t), Wallets)
      BY <3>1, SumOfOn
    <3>4. SumOf(h) = SumOf(Allocated(t)) + unlumped[t]
      BY <2>1, <2>2, <3>2, <3>3
    <3>5. unlumped'[t] = 0 /\ lifetimeDeposits'[t] = lifetimeDeposits[t]
      BY <1>1
    <3>6. SumOf(h) + unlumped'[t] = lifetimeDeposits'[t]
      BY <2>1, <2>2, <3>4, <3>5
    <3>7. QED
      BY <3>6 DEF h
  <2>5. QED
    BY <2>3, <2>4
<1>4. QED
  BY <1>2, <1>3 DEF MoneyInv, BooksBalance

LEMMA RailKeepsMoney ==
  IInv /\ AuthorInv /\ MoneyInv /\ IInv' /\ [RailNext]_railVars => MoneyInv'
<1> SUFFICES ASSUME IInv, AuthorInv, MoneyInv, IInv', [RailNext]_railVars PROVE MoneyInv'
  OBVIOUS
<1>1. TypeOK /\ VaultTypeOK'
  BY DEF IInv, TypeOK
<1>2. CASE \E holders \in SUBSET Wallets : \E d \in AllSplits(holders) : BuildAndPublish(holders, d)
  BY <1>1, <1>2, BuildKeepsMoney
<1>3. CASE \E t \in Tokens, amount \in Amounts \ {0} : RailDeposit(t, amount)
  BY <1>1, <1>3, DepositKeepsMoney
<1>4. CASE Others /\ UNCHANGED authorVars
  BY <1>1, <1>4, OthersPayOrRest, PayKeepsMoney, QuietKeepsMoney DEF authorVars
<1>5. CASE UNCHANGED railVars
  <2>1. QuietMoney /\ UNCHANGED <<unlumped, due>>
    BY <1>1, <1>5 DEF railVars, vars, vaultVars, authorVars, QuietMoney, TypeOK, VaultTypeOK
  <2>2. QED
    BY <1>1, <2>1, QuietKeepsMoney
<1>6. QED
  BY <1>2, <1>3, <1>4, <1>5 DEF RailNext

LEMMA RailInvariant == RailSpec => [](IInv /\ AuthorInv /\ MoneyInv)
<1>1. RailInit => IInv /\ AuthorInv /\ MoneyInv
  BY InitInv, AuthorInitInv, MoneyInitInv DEF RailInit
<1>2. IInv /\ AuthorInv /\ MoneyInv /\ [RailNext]_railVars => IInv' /\ AuthorInv' /\ MoneyInv'
  BY RailKeepsInv, RailKeepsMoney
<1>3. QED
  BY <1>1, <1>2, PTL DEF RailSpec

LEMMA WithinAllocation == IInv /\ AuthorInv => PaidWithinAllocation
<1> SUFFICES ASSUME IInv, AuthorInv, NEW w \in Wallets, NEW t \in Tokens
             PROVE  claimed[w][t] <= due[w][t]
  BY DEF PaidWithinAllocation
<1>1. claimed[w][t] \in Nat /\ due[w][t] \in Nat
  BY DEF IInv, TypeOK, AuthorInv, AuthorTypeOK
<1>2. CASE claimed[w][t] > 0
  <2>1. PICK e \in DOMAIN epochs : epochs[e].cumulative[w][t] = claimed[w][t]
    BY <1>2 DEF IInv, ClaimedRestsOnActiveRoot
  <2>2. QED
    BY <2>1 DEF AuthorInv, WithinDue, Leaf
<1>3. QED
  BY <1>1, <1>2

\* No wallet is ever paid more than the deposits allocated to it, whatever
\* lists, holders and cancellations there were.
THEOREM PaymentsStayWithinAllocation == RailSpec => []PaidWithinAllocation
  BY WithinAllocation, RailInvariant, PTL

-----------------------------------------------------------------------------
(* The rail implements the payout ledger. *)

LEMMA DepositIsReceived ==
  ASSUME AuthorInv, AuthorInv',
         NEW t \in Tokens, NEW amount \in Amounts \ {0}, RailDeposit(t, amount)
  PROVE  Payout!LedgerNext
<1>1. /\ unlumped' = [unlumped EXCEPT ![t] = @ + amount]
      /\ UNCHANGED <<due, holdings>>
  BY DEF RailDeposit, Deposit, ReceiveRewardAsset
<1>2. unlumped \in [Tokens -> Nat] /\ unlumped' \in [Tokens -> Nat] /\ amount \in Nat \ {0}
  BY AmountsAreNats DEF AuthorInv, AuthorTypeOK
<1>3. Payout!Receive(t)
  BY <1>1, <1>2 DEF Payout!Receive
<1>4. QED
  BY <1>3 DEF Payout!LedgerNext

LEMMA LedgerSum ==
  ASSUME NEW f PROVE Payout!FoldFunction(LAMBDA x, y : x + y, 0, f) = SumOf(f)
  BY DEF Payout!FoldFunction, Payout!FoldFunctionOnSet, Payout!MapThenFoldSet,
         SumOf, FoldFunction, FoldFunctionOnSet, MapThenFoldSet

\* What a build adds to the books of t is exactly the split of t.
LEMMA BuildDivides ==
  ASSUME AuthorInv, AuthorInv', NEW holders \in SUBSET Wallets, NEW d \in AllSplits(holders),
         BuildAndPublish(holders, d)
  PROVE  Payout!LedgerNext
<1>1. /\ due' = [w \in Wallets |-> [t \in Tokens |->
                   IF t \in FundedAssets THEN due[w][t] + d[t][w] ELSE due[w][t]]]
      /\ unlumped' = [t \in Tokens |-> 0]
      /\ UNCHANGED holdings
  BY DEF BuildAndPublish, PublishEpoch, vaultVars
<1>2. /\ due \in Payout!Rows /\ due' \in Payout!Rows
      /\ unlumped \in [Tokens -> Nat]
  BY DEF AuthorInv, AuthorTypeOK, Payout!Rows
<1>3. ASSUME NEW t \in Tokens
      PROVE  /\ \A w \in Wallets : due'[w][t] >= due[w][t]
             /\ Payout!SharedOut(t) = unlumped[t]
  <2>1. d[t] \in [Wallets -> 0 .. unlumped[t]] /\ SumOf(d[t]) = unlumped[t]
    BY TotalIsSum DEF AllSplits, Splits
  <2>2. ASSUME NEW w \in Wallets
        PROVE  due[w][t] \in Nat /\ due'[w][t] - due[w][t] = d[t][w] /\ d[t][w] \in Nat
    <3>1. due[w][t] \in Nat /\ unlumped[t] \in Nat /\ d[t][w] \in 0 .. unlumped[t]
      BY <1>2, <2>1 DEF Payout!Rows
    <3>2. due'[w][t] = IF t \in FundedAssets THEN due[w][t] + d[t][w] ELSE due[w][t]
      BY <1>1
    <3>3. t \in FundedAssets \/ d[t][w] = 0
      BY <3>1 DEF FundedAssets
    <3>4. QED
      BY <3>1, <3>2, <3>3
  <2>3. [w \in Wallets |-> due'[w][t] - due[w][t]] = d[t]
    BY <2>1, <2>2
  <2>4. \A w \in Wallets : due'[w][t] >= due[w][t]
    <3> TAKE w \in Wallets
    <3>1. due'[w][t] \in Nat
      BY <1>2 DEF Payout!Rows
    <3>2. QED
      BY <2>2, <3>1
  <2>5. QED
    BY <2>1, <2>3, <2>4, LedgerSum DEF Payout!SharedOut
<1>4. Payout!Divide
  BY <1>1, <1>2, <1>3 DEF Payout!Divide
<1>5. QED
  BY <1>4 DEF Payout!LedgerNext

\* A claim pays its wallet what a root allocated to it, so never more than due.
LEMMA ClaimPays ==
  ASSUME IInv, IInv', AuthorInv', Pays, UNCHANGED <<unlumped, due>>
  PROVE  Payout!LedgerNext
<1>1. PICK w \in Wallets, row \in [Tokens -> Nat] : RedeemEach(Distributor, w, row)
  BY DEF Pays
<1>2. holdings \in Payout!Rows /\ holdings' \in Payout!Rows
  BY DEF IInv, TypeOK, VaultTypeOK, Payout!Rows
<1>3. /\ \A v \in Wallets \ {w} : holdings'[v] = holdings[v]
      /\ \A t \in Tokens : holdings'[w][t] = holdings[w][t] + row[t]
  BY <1>1, <1>2 DEF RedeemEach, Payout!Rows
<1>4. \A t \in Tokens : holdings'[w][t] <= due[w][t]
  <2>1. (IInv /\ AuthorInv => PaidWithinAllocation)'
    BY WithinAllocation, PTL
  <2>2. QED
    BY <2>1 DEF IInv, PaidIsClaimed, PaidWithinAllocation
<1>5. \A t \in Tokens : holdings[w][t] <= holdings'[w][t]
  BY <1>2, <1>3 DEF Payout!Rows
<1>6. Payout!Pay(w)
  BY <1>2, <1>3, <1>4, <1>5 DEF Payout!Pay
<1>7. QED
  BY <1>6 DEF Payout!LedgerNext

LEMMA RailStepsPayout ==
  ASSUME IInv, IInv', AuthorInv, AuthorInv', [RailNext]_railVars
  PROVE  [Payout!LedgerNext]_<<unlumped, due, holdings>>
<1>1. CASE \E holders \in SUBSET Wallets : \E d \in AllSplits(holders) : BuildAndPublish(holders, d)
  BY <1>1, BuildDivides
<1>2. CASE \E t \in Tokens, amount \in Amounts \ {0} : RailDeposit(t, amount)
  BY <1>2, DepositIsReceived
<1>3. CASE Others /\ UNCHANGED authorVars
  <2>1. UNCHANGED <<unlumped, due>>
    BY <1>3 DEF authorVars
  <2>2. Pays \/ QuietMoney
    BY <1>3, OthersPayOrRest DEF IInv
  <2>3. QED
    BY <2>1, <2>2, ClaimPays DEF QuietMoney
<1>4. CASE UNCHANGED railVars
  BY <1>4 DEF railVars, vars, vaultVars, authorVars
<1>5. QED
  BY <1>1, <1>2, <1>3, <1>4 DEF RailNext

\* Deposits, roots, cancellations, claims, batches and catch-ups together are
\* the payout ledger: money is pending, then owed, then paid, and moves in no
\* other way.
THEOREM RailImplementsPayout == RailSpec => ImplementsPayout
<1>1. RailInit => Payout!LedgerInit
  BY DEF RailInit, DistributorInit, ZeroRows, Payout!LedgerInit, Payout!NothingYet
<1>2. IInv /\ AuthorInv /\ IInv' /\ AuthorInv' /\ [RailNext]_railVars
        => [Payout!LedgerNext]_<<unlumped, due, holdings>>
  BY RailStepsPayout
<1>3. QED
  BY <1>1, <1>2, RailInvariant, PTL DEF RailSpec, ImplementsPayout, Payout!LedgerSpec

\* The largest of a finite set of integers.
LEMMA LargestExists ==
  ASSUME NEW S \in SUBSET Int, IsFiniteSet(S), S # {}
  PROVE  \E b \in S : \A c \in S : c <= b
<1> DEFINE P == {T \in SUBSET S : T # {} => \E b \in T : \A c \in T : c <= b}
<1>1. {} \in P
  OBVIOUS
<1>2. ASSUME NEW T \in SUBSET S, NEW x \in S, T \in P, x \notin T PROVE T \cup {x} \in P
  <2>1. CASE T = {}
    <3>1. \A c \in T \cup {x} : c <= x
      BY <2>1
    <3>2. QED
      BY <3>1
  <2>2. CASE T # {}
    <3>1. PICK b \in T : \A c \in T : c <= b
      BY <1>2, <2>2
    <3>2. CASE x <= b
      BY <3>1, <3>2
    <3>3. CASE ~(x <= b)
      <4>1. \A c \in T \cup {x} : c <= x
        BY <3>1, <3>3
      <4>2. QED
        BY <4>1
    <3>4. QED
      BY <3>2, <3>3
  <2>3. QED
    BY <2>1, <2>2
<1>3. S \in P
  <2> HIDE DEF P
  <2>1. QED
    BY <1>1, <1>2, FiniteInductive
<1>4. QED
  BY <1>3

\* No root lets a wallet draw more than was allocated to it and not paid.
LEMMA OutstandingIsDue ==
  ASSUME IInv, AuthorInv, PaidWithinAllocation, NEW w \in Wallets, NEW t \in Tokens
  PROVE  Outstanding(w, t) \in Int /\ Outstanding(w, t) <= due[w][t] - claimed[w][t]
<1> DEFINE drawn == {epochs[e].cumulative[w][t] : e \in Offers(w, t)}
           best == drawn \cup {claimed[w][t]}
           top == CHOOSE b \in best : \A c \in best : c <= b
<1>1. /\ TypeOK /\ due[w][t] \in Nat /\ claimed[w][t] \in Nat /\ claimed[w][t] <= due[w][t]
      /\ Len(epochs) \in Nat /\ DOMAIN epochs = 1 .. Len(epochs)
      /\ Offers(w, t) \subseteq DOMAIN epochs
  BY DEF IInv, TypeOK, AuthorInv, AuthorTypeOK, PaidWithinAllocation, Offers
<1>2. \A e \in DOMAIN epochs : /\ epochs[e].cumulative[w][t] \in Nat
                               /\ epochs[e].cumulative[w][t] <= due[w][t]
  BY <1>1, EpochFields DEF AuthorInv, WithinDue, Leaf
<1>3. best \subseteq Int /\ best # {} /\ \A b \in best : b <= due[w][t]
  BY <1>1, <1>2
<1>4. IsFiniteSet(best)
  <2>1. IsFiniteSet(1 .. Len(epochs))
    BY <1>1, FS_Interval
  <2>2. IsFiniteSet(Offers(w, t))
    BY <1>1, <2>1, FS_Subset
  <2> DEFINE drawnIn == [e \in Offers(w, t) |-> epochs[e].cumulative[w][t]]
  <2>3. IsFiniteSet({drawnIn[e] : e \in Offers(w, t)})
    <3> HIDE DEF drawnIn
    <3>1. QED
      BY <2>2, ImageIsFinite
  <2>4. drawn = {drawnIn[e] : e \in Offers(w, t)}
    OBVIOUS
  <2>5. QED
    BY <2>3, <2>4, FS_AddElement
<1>5. top \in best
  <2> HIDE DEF best
  <2>1. \E b \in best : \A c \in best : c <= b
    BY <1>3, <1>4, LargestExists
  <2>2. QED
    BY <2>1
<1>6. Outstanding(w, t) = top - claimed[w][t]
  BY DEF Outstanding
<1> HIDE DEF top, best
<1>7. QED
  BY <1>1, <1>3, <1>5, <1>6

\* The vault can pay all that any root will ever let anyone draw and holds
\* what no epoch has distributed: the deposits are what was allocated and what
\* was not, the payments are what was claimed, and nobody can draw more than
\* was allocated to him.
THEOREM VaultIsSolvent == RailSpec => []Solvent
<1>1. ASSUME IInv, AuthorInv, MoneyInv, PaidWithinAllocation PROVE Solvent
  <2> SUFFICES ASSUME NEW t \in Tokens
               PROVE  Total([w \in Wallets |-> Outstanding(w, t)]) + unlumped[t] <= vaultBalance[t]
    BY DEF Solvent
  <2> DEFINE out == [w \in Wallets |-> Outstanding(w, t)]
             rest == [w \in Wallets |-> due[w][t] - claimed[w][t]]
  <2>1. /\ Integral(out, Wallets) /\ Integral(rest, Wallets)
        /\ \A w \in Wallets : out[w] <= rest[w]
    BY <1>1, OutstandingIsDue DEF Integral, IInv, TypeOK, AuthorInv, AuthorTypeOK
  <2>2. /\ Integral(Allocated(t), Wallets) /\ Integral(Received(t), Wallets)
        /\ \A w \in Wallets : rest[w] = Allocated(t)[w] + (-1) * Received(t)[w]
    BY <1>1 DEF IInv, TypeOK, AuthorInv, AuthorTypeOK, PaidIsClaimed, Allocated, Received, Integral
  <2>3. Total(out) = SumOn(out, Wallets)
    BY TotalIsSum, SumOfOn
  <2> HIDE DEF out, rest
  <2>4. /\ SumOn(out, Wallets) \in Int /\ SumOn(out, Wallets) <= SumOn(rest, Wallets)
    BY <2>1, RailAssumption, SumIsMonotone
  <2>5. SumOn(rest, Wallets) = SumOn(Allocated(t), Wallets) + (-1) * SumOn(Received(t), Wallets)
    BY <2>2, RailAssumption, SumIsLinear
  <2>6. /\ SumOn(Allocated(t), Wallets) + unlumped[t] = lifetimeDeposits[t]
        /\ SumOn(Allocated(t), Wallets) \in Int
    BY <1>1, AllocatedIsSum DEF MoneyInv, BooksBalance
  <2>7. SumOn(Received(t), Wallets) = redeemed[t]
    <3>1. DOMAIN Received(t) = Wallets
      BY DEF Received
    <3>2. QED
      BY <1>1, <3>1, SumOfOn DEF MoneyInv, PaymentsAddUp
  <2>8. /\ vaultBalance[t] + redeemed[t] >= lifetimeDeposits[t]
        /\ vaultBalance[t] \in Nat /\ redeemed[t] \in Nat /\ lifetimeDeposits[t] \in Nat
        /\ unlumped[t] \in Nat
    BY <1>1 DEF MoneyInv, CustodyCoversRecord, IInv, TypeOK, VaultTypeOK, AuthorInv, AuthorTypeOK
  <2>9. SumOn(out, Wallets) + unlumped[t] <= vaultBalance[t]
    BY <2>4, <2>5, <2>6, <2>7, <2>8
  <2>10. QED
    BY <2>3, <2>9 DEF out
<1>2. QED
  BY <1>1, RailInvariant, PaymentsStayWithinAllocation, PTL

\* Under one token list the newest leaf of a wallet is all it was ever
\* allocated, cancelled roots and absences included.
THEOREM StableListsKeepTotals == RailSpec => []StableListKeepsTotals
<1>1. IInv /\ AuthorInv => StableListKeepsTotals
  <2> SUFFICES ASSUME IInv, AuthorInv, SameListAlways, epochs # <<>>,
                      NEW w \in epochs[Len(epochs)].holders, NEW t \in epochs[Len(epochs)].tokens
               PROVE  epochs[Len(epochs)].cumulative[w][t] = due[w][t]
    BY DEF StableListKeepsTotals, LeavesAreGenesisTotals
  <2>1. TypeOK /\ Len(epochs) \in DOMAIN epochs
    BY DEF IInv, TypeOK
  <2>2. w \in Wallets /\ t \in Tokens
    BY <2>1, EpochFields
  <2>3. QED
    BY <2>2 DEF AuthorInv, NewestIsEntitled, NothingForgotten, Leaf
<1>2. QED
  BY <1>1, RailInvariant, PTL

\* Under one token list a leaf above what was paid is always claimable: what
\* was paid is one row of an older root, and leaves only grow.
THEOREM StableListsNeverStrand == RailSpec => []StableListNeverStrands
<1>1. IInv /\ AuthorInv => StableListNeverStrands
  <2> SUFFICES ASSUME IInv, AuthorInv, SameListAlways, NEW w \in Wallets, NEW t \in Tokens,
                      NEW e \in Offers(w, t), epochs[e].cumulative[w][t] > claimed[w][t]
               PROVE  \E f \in Offers(w, t) :
                        epochs[f].cumulative[w][t] >= epochs[e].cumulative[w][t] /\ InClaimOrder(w, f)
    BY DEF StableListNeverStrands, NeverStranded
  <2>1. TypeOK /\ e \in DOMAIN epochs /\ w \in epochs[e].holders /\ t \in epochs[e].tokens
    BY DEF IInv, Offers
  <2>2. /\ epochs[e].tokens \subseteq Tokens /\ epochs[e].cumulative \in [Wallets -> [Tokens -> Nat]]
        /\ claimed \in [Wallets -> [Tokens -> Nat]] /\ e \in Nat
    BY <2>1, EpochFields DEF TypeOK
  <2>3. InClaimOrder(w, e)
    <3>1. CASE \A u \in Tokens : claimed[w][u] = 0
      BY <2>2, <3>1 DEF InClaimOrder
    <3>2. CASE \E g \in DOMAIN epochs : RowOf(w, g, claimed[w])
      <4>1. PICK g \in DOMAIN epochs : RowOf(w, g, claimed[w])
        BY <3>2
      <4>2. epochs[g].tokens = epochs[e].tokens /\ w \in epochs[g].holders /\ g \in Nat
        BY <2>1, <4>1, EpochFields DEF SameListAlways, RowOf
      <4>3. \A u \in epochs[e].tokens : claimed[w][u] = Leaf(g, w, u)
        BY <4>1, <4>2 DEF RowOf
      <4>4. ~(e <= g)
        <5>1. SUFFICES ASSUME e <= g PROVE FALSE
          OBVIOUS
        <5>2. Leaf(e, w, t) <= Leaf(g, w, t)
          BY <2>1, <4>2, <5>1 DEF AuthorInv, LeavesGrow
        <5>3. Leaf(g, w, t) = claimed[w][t]
          BY <2>1, <4>3
        <5>4. QED
          BY <2>2, <5>2, <5>3 DEF Leaf
      <4>5. g <= e
        BY <2>2, <4>2, <4>4
      <4>6. \A u \in epochs[e].tokens : Leaf(g, w, u) <= Leaf(e, w, u)
        BY <2>1, <2>2, <4>5 DEF AuthorInv, LeavesGrow
      <4>7. ASSUME NEW u \in epochs[e].tokens PROVE epochs[e].cumulative[w][u] >= claimed[w][u]
        BY <2>2, <4>3, <4>6 DEF Leaf
      <4>8. QED
        BY <4>7 DEF InClaimOrder
    <3>3. QED
      BY <3>1, <3>2 DEF AuthorInv, RowsAreWhole
  <2>4. QED
    BY <2>2, <2>3
<1>2. QED
  BY <1>1, RailInvariant, PTL
-----------------------------------------------------------------------------
(* The split RewardRail leaves open is one the indexer's allocate makes. *)

\* The rows of allocate by wallet: order is the eligible wallets by address.
ByWallet(order, split) ==
  [w \in Wallets |-> IF \E i \in DOMAIN order : order[i] = w
                     THEN split[CHOOSE i \in DOMAIN order : order[i] = w] ELSE 0]

AllocatedBy(order, balance) ==
  [t \in Tokens |-> ByWallet(order, IndexerSplit(unlumped[t], balance))]

LEMMA ByWalletIsSplit ==
  ASSUME NEW n \in Nat, NEW order \in [1 .. n -> Wallets],
         \A i, j \in 1 .. n : order[i] = order[j] => i = j,
         NEW split \in [1 .. n -> Nat]
  PROVE  /\ ByWallet(order, split) \in [Wallets -> 0 .. SumOf(split)]
         /\ Total(ByWallet(order, split)) = SumOf(split)
         /\ \A w \in Wallets \ {order[i] : i \in 1 .. n} : ByWallet(order, split)[w] = 0
<1> DEFINE f == ByWallet(order, split)
<1>1. /\ DOMAIN f = Wallets
      /\ \A i \in 1 .. n : f[order[i]] = split[i]
      /\ \A w \in Wallets : (\A i \in 1 .. n : order[i] # w) => f[w] = 0
  BY DEF ByWallet
<1>2. \A w \in Wallets : f[w] \in Nat
  <2> TAKE w \in Wallets
  <2>1. CASE \E i \in 1 .. n : order[i] = w
    BY <1>1, <2>1
  <2>2. CASE \A i \in 1 .. n : order[i] # w
    BY <1>1, <2>2
  <2>3. QED
    BY <2>1, <2>2
<1> HIDE DEF f
<1>3. Integral(f, Wallets) /\ IsFiniteSet(1 .. n)
  BY <1>2, FS_Interval DEF Integral
<1>4. SumOn([i \in 1 .. n |-> f[order[i]]], 1 .. n) = SumOn(f, Wallets)
  BY <1>1, <1>3, RailAssumption, SumReindexed
<1>5. [i \in 1 .. n |-> f[order[i]]] = split
  BY <1>1
<1>6. Total(f) = SumOf(split) /\ SumOn(f, Wallets) = SumOf(split)
  BY <1>1, <1>4, <1>5, SumOfOn, TotalIsSum
<1>7. \A w \in Wallets : f[w] \in 0 .. SumOf(split)
  <2> TAKE w \in Wallets
  <2>1. SumOn(f, Wallets) = f[w] + SumOn(f, Wallets \ {w})
    BY <1>3, RailAssumption, SumTakesAny
  <2>2. SumOn(f, Wallets \ {w}) \in Nat
    BY <1>2, RailAssumption, FS_RemoveElement, SumIsNat
  <2>3. QED
    BY <1>2, <1>6, <2>1, <2>2
<1>8. \A w \in Wallets \ {order[i] : i \in 1 .. n} : f[w] = 0
  BY <1>1
<1>9. f \in [Wallets -> 0 .. SumOf(split)]
  BY <1>1, <1>7 DEF f, ByWallet
<1>10. QED
  BY <1>6, <1>8, <1>9 DEF f

\* Whatever wallets are eligible with whatever balances, not all zero, what
\* allocate gives them of every token (snapshot.ts:64-102, called by buildEpoch,
\* indexer.ts:160-168) is among the splits a build of the rail may use: it
\* covers the funding exactly and gives nothing to anybody else.
THEOREM AllocateIsASplit ==
  ASSUME AuthorTypeOK, NEW n \in Nat, NEW order \in [1 .. n -> Wallets],
         \A i, j \in 1 .. n : order[i] = order[j] => i = j,
         NEW balance \in [1 .. n -> Nat], SumOf(balance) > 0
  PROVE  AllocatedBy(order, balance) \in AllSplits({order[i] : i \in 1 .. n})
<1> DEFINE holders == {order[i] : i \in 1 .. n}
<1>1. ASSUME NEW t \in Tokens PROVE AllocatedBy(order, balance)[t] \in Splits(holders, t)
  <2> DEFINE split == IndexerSplit(unlumped[t], balance)
  <2>1. unlumped[t] \in Nat
    BY DEF AuthorTypeOK
  <2>2. split \in [1 .. n -> Nat] /\ SumOf(split) = unlumped[t]
    <3> DEFINE buyer == BuyerSplit(unlumped[t], balance, SumOf(balance))
    <3>1. /\ buyer \in [1 .. n -> Nat] /\ split = buyer
          /\ IsExactSplit(buyer, unlumped[t], balance, SumOf(balance))
      BY <2>1, SplitsAreExact
    <3> HIDE DEF buyer, split
    <3>2. QED
      BY <3>1 DEF IsExactSplit
  <2>3. AllocatedBy(order, balance)[t] = ByWallet(order, split)
    BY DEF AllocatedBy
  <2> HIDE DEF split
  <2>4. QED
    BY <2>2, <2>3, ByWalletIsSplit DEF Splits
<1>2. AllocatedBy(order, balance) \in [Tokens -> UNION {Splits(holders, t) : t \in Tokens}]
  BY <1>1 DEF AllocatedBy
<1>3. QED
  BY <1>1, <1>2 DEF AllSplits
=============================================================================
