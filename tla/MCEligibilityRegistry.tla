----------------------- MODULE MCEligibilityRegistry -----------------------
\* Two wallets, one of which signs and switches everything the registry has.
EXTENDS EligibilityRegistry

CONSTANTS w1, w2, s1

MCWallets == {w1, w2}
MCSwitchWallets == {w1}
MCSigners == {s1}
MCScopes == 1 .. 1
MCExpiries == {1}
=============================================================================
