---------------------------- MODULE MCStandalone ----------------------------
(***************************************************************************)
(* The parts that are checked by themselves, in one run: a behaviour       *)
(* begins by choosing a part and only that part moves, so the reachable    *)
(* states are those of each part, side by side.                            *)
(*                                                                         *)
(* vault: a wallet, a Stock Token and WETH, two contracts and a stranger.  *)
(* registry: two wallets, one of which signs and switches everything.      *)
(* rotation: one founding stock and a ceiling of three, four stocks.       *)
(* step store: two puts and two allocations in flight at once.             *)
(* ledger: two jobs, cycles that die before or between their records.      *)
(* algorithms: every input up to the bounds.                               *)
(***************************************************************************)
EXTENDS RewardVault, EligibilityRegistry, RebalanceController, PgStepStore, StepLedger,
        MCAlgorithms, TLC

CONSTANTS w1, w2, stock, weth9, buyer, dist, stranger, s1, a, b, c, d

VARIABLE part

MCWallets == {w1, w2}
MCSwitchWallets == {w1}
MCTokens == {stock, weth9}
MCProtected == {weth9}
MCAccounts == {buyer, dist, stranger}
MCSigners == {s1}
MCScopes == 1 .. 1
MCExpiries == {1}
MCStocks == {a, b, c, d}
MCFounding == <<a>>
MCOutputs == {0} \cup 60 .. 80 \cup 130 .. 170
MCSymmetry == Permutations({b, c, d})

StandaloneInit ==
  /\ part \in {"vault", "registry", "rotation", "step store", "ledger", "algorithms"}
  /\ VaultInit /\ RegistryInit /\ RebalanceInit /\ PgInit /\ StepInit /\ AlgorithmInit
  /\ (part = "step store" \/ ~client) /\ (part = "ledger" \/ ~durable)

StandaloneNext ==
  \/ /\ part = "vault" /\ VaultNext
     /\ UNCHANGED <<registryVars, rebalanceVars, pgVars, stepVars, algorithmVars, part>>
  \/ /\ part = "registry" /\ RegistryChange
     /\ UNCHANGED <<vaultVars, rebalanceVars, pgVars, stepVars, algorithmVars, part>>
  \/ /\ part = "rotation" /\ RebalanceNext
     /\ UNCHANGED <<vaultVars, registryVars, pgVars, stepVars, algorithmVars, part>>
  \/ /\ part = "step store" /\ PgNext
     /\ UNCHANGED <<vaultVars, registryVars, rebalanceVars, stepVars, algorithmVars, part>>
  \/ /\ part = "ledger" /\ StepNext
     /\ UNCHANGED <<vaultVars, registryVars, rebalanceVars, pgVars, algorithmVars, part>>
  \/ /\ part = "algorithms" /\ AlgorithmNext
     /\ UNCHANGED <<vaultVars, registryVars, rebalanceVars, pgVars, stepVars, part>>

StandaloneSpec ==
  StandaloneInit
  /\ [][StandaloneNext]_<<vaultVars, registryVars, rebalanceVars, pgVars, stepVars, algorithmVars, part>>
=============================================================================
