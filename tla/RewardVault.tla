---------------------------- MODULE RewardVault ----------------------------
(***************************************************************************)
(* RewardVault.sol: the pooled custody of the reward Stock Tokens.  The    *)
(* reward source (the basket buyer) is the only ingress, the distributor   *)
(* the only egress, both wired once; the owner may only take out tokens    *)
(* that were never a reward asset.                                         *)
(*                                                                         *)
(* vaultBalance is the vault's ERC-20 balance.  holdings (what each wallet *)
(* has received from the vault) and redeemed (the sum of the payments of a *)
(* token) are history variables.                                           *)
(***************************************************************************)
EXTENDS Integers, FiniteSets

CONSTANTS
  Wallets,          \* holders that may receive rewards
  Tokens,           \* ERC-20 tokens the vault may hold
  ProtectedTokens,  \* WETH and PENNY: never recoverable
  Accounts,         \* contracts and users that call the vault
  StrayTokens,      \* bound: tokens somebody sends to the vault by accident
  None,             \* the zero address
  MaxDeposit        \* bound: units of one token that ever enter the vault

ASSUME VaultAssumption ==
  /\ ProtectedTokens \subseteq Tokens /\ StrayTokens \subseteq Tokens
  /\ None \notin Accounts
  /\ MaxDeposit \in Nat

VARIABLES
  rewardSource, distributor,  \* set-once wiring
  lifetimeDeposits,           \* what was recorded as deposited, per token
  vaultBalance,               \* the vault's ERC-20 balances
  holdings, redeemed          \* history: units paid, per wallet and in all

vaultVars == <<rewardSource, distributor, lifetimeDeposits, vaultBalance, holdings, redeemed>>

Amounts == 0 .. MaxDeposit

\* Bound on what enters: units in the vault and units paid out.
HasRoom(t, amount) == vaultBalance[t] + redeemed[t] + amount <= MaxDeposit

VaultInit ==
  /\ rewardSource = None /\ distributor = None
  /\ lifetimeDeposits = [t \in Tokens |-> 0]
  /\ vaultBalance = [t \in Tokens |-> 0]
  /\ holdings = [w \in Wallets |-> [t \in Tokens |-> 0]]
  /\ redeemed = [t \in Tokens |-> 0]

SetRewardSource(source) ==
  /\ rewardSource = None
  /\ rewardSource' = source
  /\ UNCHANGED <<distributor, lifetimeDeposits, vaultBalance, holdings, redeemed>>

SetDistributor(account) ==
  /\ distributor = None
  /\ distributor' = account
  /\ UNCHANGED <<rewardSource, lifetimeDeposits, vaultBalance, holdings, redeemed>>

\* Mutant: the measured amount is not compared.
RecordsUnmeasured(amount, received) == TRUE

\* `received` is what the transfer really moved: a token that keeps a fee
\* would move less than `amount`, and the call then fails closed.
Records(amount, received) == received = amount

ReceiveRewardAsset(sender, t, amount, received) ==
  /\ sender = rewardSource
  /\ amount > 0
  /\ Records(amount, received)
  /\ HasRoom(t, amount)
  /\ lifetimeDeposits[t] + amount <= MaxDeposit \* bound
  /\ vaultBalance' = [vaultBalance EXCEPT ![t] = @ + received]
  /\ lifetimeDeposits' = [lifetimeDeposits EXCEPT ![t] = @ + amount]
  /\ UNCHANGED <<rewardSource, distributor, holdings, redeemed>>

\* Mutant: redeem does not look at the balance.
RedeemUncovered(sender, to, amount) ==
  /\ sender = distributor
  /\ vaultBalance' = [t \in Tokens |-> vaultBalance[t] - amount[t]]
  /\ redeemed' = [t \in Tokens |-> redeemed[t] + amount[t]]
  /\ holdings' = [holdings EXCEPT ![to] = [t \in Tokens |-> @[t] + amount[t]]]
  /\ UNCHANGED <<rewardSource, distributor, lifetimeDeposits>>

\* The redeem calls of one claim: amount[t] of every token t goes to `to`.
\* redeem itself refuses zero; the distributor only calls it for amount[t] > 0.
RedeemEach(sender, to, amount) ==
  /\ sender = distributor
  /\ \A t \in Tokens : amount[t] <= vaultBalance[t]
  /\ vaultBalance' = [t \in Tokens |-> vaultBalance[t] - amount[t]]
  /\ redeemed' = [t \in Tokens |-> redeemed[t] + amount[t]]
  /\ holdings' = [holdings EXCEPT ![to] = [t \in Tokens |-> @[t] + amount[t]]]
  /\ UNCHANGED <<rewardSource, distributor, lifetimeDeposits>>

Redeem(sender, t, to, amount) ==
  /\ amount > 0
  /\ RedeemEach(sender, to, [u \in Tokens |-> IF u = t THEN amount ELSE 0])

\* Mutant: reward assets are not excepted from recovery.
RecoverableIfUnprotected(t) == t \notin ProtectedTokens

Recoverable(t) == t \notin ProtectedTokens /\ lifetimeDeposits[t] = 0

RecoverAccidental(t, amount) ==
  /\ Recoverable(t)
  /\ amount <= vaultBalance[t]
  /\ vaultBalance' = [vaultBalance EXCEPT ![t] = @ - amount]
  /\ UNCHANGED <<rewardSource, distributor, lifetimeDeposits, holdings, redeemed>>

\* Anyone may send tokens to the vault without recording them.
AccidentalTransfer(t, amount) ==
  /\ t \in StrayTokens \* bound
  /\ HasRoom(t, amount)
  /\ vaultBalance' = [vaultBalance EXCEPT ![t] = @ + amount]
  /\ UNCHANGED <<rewardSource, distributor, lifetimeDeposits, holdings, redeemed>>

VaultNext ==
  \/ \E a \in Accounts : SetRewardSource(a) \/ SetDistributor(a)
  \/ \E a \in Accounts, t \in Tokens, amount, received \in Amounts :
       ReceiveRewardAsset(a, t, amount, received)
  \/ \E a \in Accounts, t \in Tokens, w \in Wallets, amount \in Amounts :
       Redeem(a, t, w, amount)
  \/ \E t \in Tokens, amount \in Amounts \ {0} :
       RecoverAccidental(t, amount) \/ AccidentalTransfer(t, amount)

VaultSpec == VaultInit /\ [][VaultNext]_vaultVars

-----------------------------------------------------------------------------
\* Types of the vault's state (RewardVault.sol state variables).
VaultTypeOK ==
  /\ rewardSource \in Accounts \cup {None}
  /\ distributor \in Accounts \cup {None}
  /\ lifetimeDeposits \in [Tokens -> Nat]
  /\ vaultBalance \in [Tokens -> Nat]
  /\ holdings \in [Wallets -> [Tokens -> Nat]]
  /\ redeemed \in [Tokens -> Nat]

\* The record never exceeds custody: whatever is recorded as deposited is
\* still in the vault or went to a claimant through redeem.  It needs the
\* received = amount check and the recoverAccidental guard together.
CustodyCoversRecord ==
  \A t \in Tokens : vaultBalance[t] + redeemed[t] >= lifetimeDeposits[t]

\* WETH, PENNY and every token that ever was a reward asset leave the vault
\* only through redeem, whoever sent them in (D013).
RewardAssetsLeaveByRedeem ==
  [][\A t \in Tokens :
       (t \in ProtectedTokens \/ lifetimeDeposits[t] > 0) =>
         vaultBalance[t] - vaultBalance'[t] <= redeemed'[t] - redeemed[t]]_vaultVars
=============================================================================
