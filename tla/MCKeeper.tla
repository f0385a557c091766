------------------------------ MODULE MCKeeper ------------------------------
EXTENDS Keeper, TLC

CONSTANTS w1, w2

MCWallets == {w1, w2}
MCSymmetry == Permutations(MCWallets)
=============================================================================
