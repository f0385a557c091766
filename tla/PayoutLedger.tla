---------------------------- MODULE PayoutLedger ----------------------------
(***************************************************************************)
(* What the reward rail promises its holders, without roots, leaves,       *)
(* proofs or a vault: money comes in, all that is pending of a token is    *)
(* divided among wallets and owed to them from then on, and a wallet is    *)
(* paid what it is owed, in any order and any parts.  Nothing is owed or   *)
(* paid otherwise, and nothing is ever taken back.  RewardRail is shown to *)
(* implement it.                                                           *)
(***************************************************************************)
EXTENDS Integers, Functions

CONSTANTS Wallets, Tokens

VARIABLES pending, due, paid

Rows == [Wallets -> [Tokens -> Nat]]
NothingYet == [w \in Wallets |-> [t \in Tokens |-> 0]]

LedgerInit == pending = [t \in Tokens |-> 0] /\ due = NothingYet /\ paid = NothingYet

\* Money of one token comes in.
Receive(t) ==
  /\ pending' \in [Tokens -> Nat]
  /\ pending'[t] > pending[t] /\ \A u \in Tokens \ {t} : pending'[u] = pending[u]
  /\ UNCHANGED <<due, paid>>

SharedOut(t) == FoldFunction(+, 0, [w \in Wallets |-> due'[w][t] - due[w][t]])

\* All that is pending is divided: what the wallets are owed grows by just that.
Divide ==
  /\ pending' = [t \in Tokens |-> 0]
  /\ due' \in Rows
  /\ \A t \in Tokens :
       /\ \A w \in Wallets : due'[w][t] >= due[w][t]
       /\ SharedOut(t) = pending[t]
  /\ UNCHANGED paid

\* w is paid some of what it is owed; nobody else is paid.
Pay(w) ==
  /\ paid' \in Rows
  /\ \A t \in Tokens : paid[w][t] <= paid'[w][t] /\ paid'[w][t] <= due[w][t]
  /\ \A v \in Wallets \ {w} : paid'[v] = paid[v]
  /\ UNCHANGED <<pending, due>>

LedgerNext ==
  \/ \E t \in Tokens : Receive(t)
  \/ Divide
  \/ \E w \in Wallets : Pay(w)

LedgerSpec == LedgerInit /\ [][LedgerNext]_<<pending, due, paid>>
=============================================================================
