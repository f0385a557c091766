------------------------ MODULE MCRewardDistributor ------------------------
\* Wallets and tokens are model values; the cfg files say how many of each.
EXTENDS RewardDistributor, TLC

CONSTANTS w1, w2, t1, t2, s1, buyer, dist

OneWallet == {w1}
TwoWallets == {w1, w2}
OneToken == {t1}
TwoTokens == {t1, t2}
NoWallets == {}
NoTokens == {}
MCSymmetry == Permutations(Wallets) \cup Permutations(Tokens)
MCSigners == {s1}
MCAccounts == {buyer, dist}
MCScopes == 1 .. MaxEpochs
MCExpiries == {MaxNow}
=============================================================================
