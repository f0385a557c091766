------------------------------ MODULE Merkle ------------------------------
(***************************************************************************)
(* merkle.ts: the trees the epoch author builds and the proofs it hands    *)
(* out, against MerkleProof.verify as the distributor calls it.            *)
(*                                                                         *)
(* The hash of a sorted pair is the set of the two: commutative and, as    *)
(* keccak256 is taken to be, injective.  Levels are kept by their distance *)
(* from the leaves; a level of one node stays what it is.                  *)
(***************************************************************************)
EXTENDS Integers, Sequences

HashPair(a, b) == {a, b}

Smaller(m, n) == IF m < n THEN m ELSE n

\* The nodes above a level: an odd last node is paired with itself.
Above(level) ==
  [i \in 1 .. (Len(level) + 1) \div 2 |->
     HashPair(level[2 * i - 1], level[Smaller(2 * i, Len(level))])]

LevelOf(leaves) ==
  LET level[k \in 0 .. Len(leaves)] ==
        IF k = 0 THEN leaves
        ELSE IF Len(level[k - 1]) = 1 THEN level[k - 1] ELSE Above(level[k - 1])
  IN  level

RootOf(leaves) == LevelOf(leaves)[Len(leaves)][1]

\* Mutant: a last node without a partner has no sibling in the proof.
LoneSibling(level, place) ==
  IF place % 2 = 0 THEN <<level[place - 1]>>
  ELSE IF place < Len(level) THEN <<level[place + 1]>> ELSE <<>>

Sibling(level, place) ==
  <<IF place % 2 = 0 THEN level[place - 1] ELSE level[Smaller(place + 1, Len(level))]>>

\* One level up: the sibling joins the proof, the place is halved.
Climb(level, at) ==
  IF Len(level) = 1 THEN at
  ELSE [place |-> (at.place + 1) \div 2, proof |-> at.proof \o Sibling(level, at.place)]

ProofFor(leaves, index) ==
  LET climb[k \in 0 .. Len(leaves)] ==
        IF k = 0 THEN [place |-> index, proof |-> <<>>]
                 ELSE Climb(LevelOf(leaves)[k - 1], climb[k - 1])
  IN  climb[Len(leaves)].proof

\* The leaf hashed with the elements of a proof, one after the other.
Computed(proof, leaf) ==
  LET computed[k \in 0 .. Len(proof)] ==
        IF k = 0 THEN leaf ELSE HashPair(computed[k - 1], proof[k])
  IN  computed[Len(proof)]

Verify(proof, root, leaf) == Computed(proof, leaf) = root
=============================================================================
