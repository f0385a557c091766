------------------------------ MODULE EpochLog ------------------------------
(***************************************************************************)
(* What the keeper promises (D030, reward-accounting): a growing log of    *)
(* epochs in which every deposit is shared out once, in the order of its   *)
(* block, among the wallets eligible at one snapshot, and keeps that       *)
(* sharing in every later epoch.  No process, no crash, no ledger: Keeper  *)
(* is shown to implement it.                                               *)
(*                                                                         *)
(* minedIn[d] is the block of deposit d, 0 until it is made.               *)
(* allocations[e][d] is the sequence of the sets of wallets that d was     *)
(* shared among: empty or of length one.                                   *)
(***************************************************************************)
EXTENDS Integers, Sequences

CONSTANTS Wallets, Deposits, MaxBlock

VARIABLES minedIn, allocations

Unshared == [d \in Deposits |-> <<>>]

\* The sharing that the next epoch builds on.
Latest(log) == IF log = <<>> THEN Unshared ELSE log[Len(log)]

LogInit == minedIn = [d \in Deposits |-> 0] /\ allocations = <<>>

\* A deposit is made, or one that is not shared yet moves to a later block.
Arrive(d, b) ==
  /\ Latest(allocations)[d] = <<>>
  /\ \A other \in Deposits : minedIn[other] < b
  /\ minedIn' = [minedIn EXCEPT ![d] = b]
  /\ UNCHANGED allocations

\* Everything deposited up to block w and not shared yet is shared among S.
Share(S, w) ==
  LET a == Latest(allocations)
      new == {d \in Deposits : a[d] = <<>> /\ minedIn[d] \in 1 .. w}
  IN  /\ new # {}
      /\ allocations' = Append(allocations,
                               [d \in Deposits |-> IF d \in new THEN <<S>> ELSE a[d]])
      /\ UNCHANGED minedIn

LogNext ==
  \/ \E d \in Deposits, b \in 1 .. MaxBlock : Arrive(d, b)
  \/ \E S \in (SUBSET Wallets) \ {{}}, w \in 1 .. MaxBlock : Share(S, w)

LogSpec == LogInit /\ [][LogNext]_<<minedIn, allocations>>
=============================================================================
