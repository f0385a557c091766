------------------------ MODULE RebalanceController ------------------------
(***************************************************************************)
(* RebalanceController.sol: the rotating basket (D033).  One change at a   *)
(* time may be pending; it was proposed under the conditions of that       *)
(* moment and anyone applies it once the timelock has run out.  Nothing    *)
(* cancels a pending change, so one that could no longer be applied would  *)
(* block the basket for good.                                              *)
(*                                                                         *)
(* Roles are not modelled: a proposal may come at any time.  The verdict   *)
(* of the verifier on a token (StockTokenVerifier, a call into the token)  *)
(* is external and may change.                                             *)
(***************************************************************************)
EXTENDS Integers, Sequences, Functions

CONSTANTS
  Stocks,           \* the tokens governance may consider
  Founding,         \* the launch basket, a sequence
  MaxConstituents,  \* MAX_CONSTITUENTS
  TimelockDelay,    \* seconds between proposal and activation
  LastTimestamp     \* bound: last timestamp

ASSUME BasketAssumption ==
  /\ Founding \in Seq(Stocks)
  /\ Len(Founding) \in 1 .. MaxConstituents
  /\ \A i, j \in DOMAIN Founding : Founding[i] = Founding[j] => i = j
  /\ MaxConstituents \in Nat
  /\ TimelockDelay \in Nat \ {0}
  /\ LastTimestamp \in Nat

VARIABLES
  clock,        \* block.timestamp
  basket, isActive, wasAdmitted, admittedAt, pending,
  verified      \* external: isVerifiedCanonicalToken

basketVars == <<basket, isActive, wasAdmitted, admittedAt, pending>>
rebalanceVars == <<clock, basketVars, verified>>

TargetTotalBps == 10000
MinConstituents == Len(Founding)
Holds(t) == \E i \in DOMAIN basket : basket[i] = t

\* _pending: none, or the addition or removal proposed last.
NoChange == [kind |-> "none"]
Additions == [kind : {"add"}, token : Stocks, submittedAt : Nat]
Removals == [kind : {"remove"}, index : Nat \ {0}, token : Stocks, submittedAt : Nat]

RebalanceInit ==
  /\ clock = 1
  /\ basket = Founding
  /\ isActive = [t \in Stocks |-> Holds(t)]
  /\ wasAdmitted = isActive
  /\ admittedAt = [t \in Stocks |-> IF isActive[t] THEN 1 ELSE 0]
  /\ pending = NoChange
  /\ verified = [t \in Stocks |-> TRUE]

\* weights(): equal shares of 10,000 bps, the first ones a point more.
Weights ==
  LET n == Len(basket)
  IN  [i \in DOMAIN basket |->
         TargetTotalBps \div n + (IF i <= TargetTotalBps % n THEN 1 ELSE 0)]

\* Mutant: an active stock may be proposed again.
ProposeActive(t) ==
  /\ Len(basket) < MaxConstituents
  /\ verified[t]
  /\ pending = NoChange
  /\ pending' = [kind |-> "add", token |-> t, submittedAt |-> clock]
  /\ UNCHANGED <<clock, basket, isActive, wasAdmitted, admittedAt, verified>>

ProposeAddition(t) ==
  /\ ~isActive[t]
  /\ Len(basket) < MaxConstituents
  /\ verified[t]
  /\ pending = NoChange
  /\ pending' = [kind |-> "add", token |-> t, submittedAt |-> clock]
  /\ UNCHANGED <<clock, basket, isActive, wasAdmitted, admittedAt, verified>>

\* Mutant: no floor.
ProposeAnyRemoval(i) ==
  /\ i \in DOMAIN basket
  /\ pending = NoChange
  /\ pending' = [kind |-> "remove", index |-> i, token |-> basket[i], submittedAt |-> clock]
  /\ UNCHANGED <<clock, basket, isActive, wasAdmitted, admittedAt, verified>>

ProposeRemoval(i) ==
  /\ i \in DOMAIN basket
  /\ Len(basket) > MinConstituents
  /\ pending = NoChange
  /\ pending' = [kind |-> "remove", index |-> i, token |-> basket[i], submittedAt |-> clock]
  /\ UNCHANGED <<clock, basket, isActive, wasAdmitted, admittedAt, verified>>

\* Mutant: a second too early.
RipeEarly == clock + 1 >= pending.submittedAt + TimelockDelay

Ripe == clock >= pending.submittedAt + TimelockDelay

\* _pushConstituent; the token is not verified again.
Admit(t) ==
  /\ basket' = Append(basket, t)
  /\ isActive' = [isActive EXCEPT ![t] = TRUE]
  /\ wasAdmitted' = [wasAdmitted EXCEPT ![t] = TRUE]
  /\ admittedAt' = [admittedAt EXCEPT ![t] = clock]

\* Mutant: the array is popped without the swap.
WithoutLast(s, i) == SubSeq(s, 1, Len(s) - 1)

\* The last constituent takes the place of the removed one.
WithoutIndex(s, i) == SubSeq([s EXCEPT ![i] = s[Len(s)]], 1, Len(s) - 1)

Remove(i, t) ==
  /\ i \in DOMAIN basket /\ basket[i] = t \* else: stale removal
  /\ basket' = WithoutIndex(basket, i)
  /\ isActive' = [isActive EXCEPT ![t] = FALSE]
  /\ UNCHANGED <<wasAdmitted, admittedAt>>

ActivateChange ==
  /\ pending # NoChange
  /\ Ripe
  /\ \/ pending.kind = "add" /\ Admit(pending.token)
     \/ pending.kind = "remove" /\ Remove(pending.index, pending.token)
  /\ pending' = NoChange
  /\ UNCHANGED <<clock, verified>>

VerdictChanges(t) ==
  /\ verified' = [verified EXCEPT ![t] = ~@]
  /\ UNCHANGED <<clock, basketVars>>

ClockTicks ==
  /\ clock < LastTimestamp \* bound
  /\ clock' = clock + 1
  /\ UNCHANGED <<basketVars, verified>>

Governance ==
  \/ \E t \in Stocks : ProposeAddition(t) \/ VerdictChanges(t)
  \/ \E i \in DOMAIN basket : ProposeRemoval(i)
  \/ ActivateChange

RebalanceNext == Governance \/ ClockTicks

RebalanceSpec == RebalanceInit /\ [][RebalanceNext]_rebalanceVars

-----------------------------------------------------------------------------
\* Types of the controller's state (RebalanceController.sol:30-48).
RebalanceTypeOK ==
  /\ clock \in Nat
  /\ basket \in Seq(Stocks)
  /\ isActive \in [Stocks -> BOOLEAN]
  /\ wasAdmitted \in [Stocks -> BOOLEAN]
  /\ admittedAt \in [Stocks -> Nat]
  /\ pending \in Additions \cup Removals \cup {NoChange}
  /\ verified \in [Stocks -> BOOLEAN]

\* The array that is bought and the flag that guards admission agree through
\* additions, swaps with the last place, removals and re-admissions: no stock
\* is bought twice, none is active without being bought.
BasketIsActiveSet ==
  /\ \A i, j \in DOMAIN basket : basket[i] = basket[j] => i = j
  /\ \A t \in Stocks : isActive[t] <=> Holds(t)
  /\ \A t \in Stocks : isActive[t] => wasAdmitted[t]

\* The basket never rotates below its founding size or above the ceiling,
\* although both are checked when a change is proposed and not when it is
\* applied.
BasketWithinBounds == Len(basket) \in MinConstituents .. MaxConstituents

\* A pending change stays applicable until it is applied: its removal is never
\* stale, its addition never a duplicate and never breaks the ceiling.  There
\* is no cancellation: were it otherwise, no change could ever be made again.
PendingNeverStuck ==
  /\ pending # NoChange /\ pending.kind = "remove" =>
       /\ pending.index \in DOMAIN basket
       /\ basket[pending.index] = pending.token
       /\ Len(basket) > MinConstituents
  /\ pending # NoChange /\ pending.kind = "add" =>
       ~isActive[pending.token] /\ Len(basket) < MaxConstituents

\* Weights of every basket the rotation reaches sum to 10,000 bps, and no two
\* differ by more than one.
WeightsAreWhole ==
  /\ FoldFunction(+, 0, Weights) = TargetTotalBps
  /\ \A i, j \in DOMAIN basket : Weights[i] - Weights[j] \in -1 .. 1

\* The basket changes only by applying a change that was public for the whole
\* timelock, and then by that one stock; the others keep being bought.
OnlyTimelockedRotation ==
  [][basket' # basket =>
       /\ pending # NoChange /\ clock - pending.submittedAt >= TimelockDelay
       /\ \A t \in Stocks : t # pending.token => (isActive'[t] <=> isActive[t])
       /\ isActive'[pending.token] # isActive[pending.token]]_rebalanceVars
=============================================================================
