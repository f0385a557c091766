--------------------------- MODULE AlgorithmProofs ---------------------------
(***************************************************************************)
(* Theorems of the pure algorithms: the Merkle proofs of trees of any      *)
(* number of leaves, the price gate for any amounts, and from these and    *)
(* SplitsAreExact the invariants of AlgorithmSpec for every bound.         *)
(*                                                                         *)
(* A recursive definition is a CHOOSE of a function that satisfies it, and *)
(* before anything can be said of the definition one must be shown to      *)
(* exist.  StepOf collects the recursions, so that this is done once.      *)
(***************************************************************************)
EXTENDS MCAlgorithms, AllocationProofs

Upper(level) == IF Len(level) = 1 THEN level ELSE Above(level)

\* The k-th step of a recursion from x.
StepOf(kind, context, k, x) ==
  IF kind = "level" THEN Upper(x)
  ELSE IF kind = "climb" THEN Climb(context[k - 1], x)
  ELSE IF kind = "computed" THEN HashPair(x, context[k])
  ELSE 10 * x

IsRecursion(h, kind, context, start, n) ==
  h = [k \in 0 .. n |-> IF k = 0 THEN start ELSE StepOf(kind, context, k, h[k - 1])]

LEMMA RecursionExists ==
  ASSUME NEW kind, NEW context, NEW start, NEW n \in Nat
  PROVE  \E h : IsRecursion(h, kind, context, start, n)
<1> DEFINE P == {m \in Nat : \E h : IsRecursion(h, kind, context, start, m)}
<1>1. 0 \in P
  <2>1. IsRecursion([k \in 0 .. 0 |-> start], kind, context, start, 0)
    BY DEF IsRecursion
  <2>2. QED
    BY <2>1
<1>2. ASSUME NEW m \in Nat, m \in P PROVE m + 1 \in P
  <2>1. PICK h : IsRecursion(h, kind, context, start, m)
    BY <1>2
  <2> DEFINE g == [k \in 0 .. m + 1 |-> IF k <= m THEN h[k]
                                          ELSE StepOf(kind, context, k, h[k - 1])]
  <2>2. ASSUME NEW k \in 0 .. m + 1
        PROVE  g[k] = IF k = 0 THEN start ELSE StepOf(kind, context, k, g[k - 1])
    <3>1. CASE k <= m
      <4>1. h[k] = IF k = 0 THEN start ELSE StepOf(kind, context, k, h[k - 1])
        BY <2>1, <3>1 DEF IsRecursion
      <4>2. g[k] = h[k] /\ (k # 0 => g[k - 1] = h[k - 1])
        BY <3>1
      <4>3. QED
        BY <4>1, <4>2
    <3>2. CASE ~(k <= m)
      <4>1. k # 0 /\ g[k] = StepOf(kind, context, k, h[k - 1]) /\ g[k - 1] = h[k - 1]
        BY <3>2
      <4>2. QED
        BY <4>1
    <3>3. QED
      BY <3>1, <3>2
  <2>3. g = [k \in 0 .. m + 1 |-> g[k]]
    OBVIOUS
  <2>4. IsRecursion(g, kind, context, start, m + 1)
    <3> HIDE DEF g
    <3>1. QED
      BY <2>2, <2>3 DEF IsRecursion
  <2>5. QED
    BY <2>4
<1>3. Nat \subseteq P
  <2> HIDE DEF P
  <2>1. QED
    BY <1>1, <1>2, Inductive
<1>4. QED
  BY <1>3

-----------------------------------------------------------------------------
(* Merkle trees. *)

LEMMA LevelsAre ==
  ASSUME NEW leaves, Len(leaves) \in Nat
  PROVE  /\ LevelOf(leaves)[0] = leaves
         /\ \A k \in 1 .. Len(leaves) : LevelOf(leaves)[k] = Upper(LevelOf(leaves)[k - 1])
<1> DEFINE n == Len(leaves)
           Is(h) == h = [k \in 0 .. n |-> IF k = 0 THEN leaves
                                          ELSE IF Len(h[k - 1]) = 1 THEN h[k - 1]
                                                                    ELSE Above(h[k - 1])]
<1>1. \E h : Is(h)
  <2>1. PICK h : IsRecursion(h, "level", 0, leaves, n)
    BY RecursionExists
  <2>2. h = [k \in 0 .. n |-> IF k = 0 THEN leaves ELSE StepOf("level", 0, k, h[k - 1])]
    BY <2>1 DEF IsRecursion
  <2>3. Is(h)
    BY <2>2 DEF StepOf, Upper
  <2>4. QED
    BY <2>3
<1>2. LevelOf(leaves) = CHOOSE h : Is(h)
  BY DEF LevelOf
<1>3. Is(LevelOf(leaves))
  BY <1>1, <1>2
<1>4. QED
  BY <1>3 DEF Upper

LEMMA ClimbsAre ==
  ASSUME NEW leaves, Len(leaves) \in Nat, NEW index
  PROVE  \E climb : /\ climb[0] = [place |-> index, proof |-> <<>>]
                    /\ \A k \in 1 .. Len(leaves) :
                         climb[k] = Climb(LevelOf(leaves)[k - 1], climb[k - 1])
                    /\ ProofFor(leaves, index) = climb[Len(leaves)].proof
<1> DEFINE n == Len(leaves)
           Is(h) == h = [k \in 0 .. n |->
                           IF k = 0 THEN [place |-> index, proof |-> <<>>]
                           ELSE Climb(LevelOf(leaves)[k - 1], h[k - 1])]
           climb == CHOOSE h : Is(h)
<1>1. \E h : Is(h)
  <2>1. PICK h : IsRecursion(h, "climb", LevelOf(leaves), [place |-> index, proof |-> <<>>], n)
    BY RecursionExists
  <2>2. h = [k \in 0 .. n |-> IF k = 0 THEN [place |-> index, proof |-> <<>>] ELSE StepOf("climb", LevelOf(leaves), k, h[k - 1])]
    BY <2>1 DEF IsRecursion
  <2>3. Is(h)
    BY <2>2 DEF StepOf
  <2>4. QED
    BY <2>3
<1>2. Is(climb)
  BY <1>1
<1>3. ProofFor(leaves, index) = climb[n].proof
  BY DEF ProofFor
<1> HIDE DEF climb
<1>4. QED
  BY <1>2, <1>3, SMTT(30)

LEMMA ComputedIs ==
  ASSUME NEW proof, Len(proof) \in Nat, NEW leaf
  PROVE  \E computed : /\ computed[0] = leaf
                       /\ \A k \in 1 .. Len(proof) :
                            computed[k] = HashPair(computed[k - 1], proof[k])
                       /\ Computed(proof, leaf) = computed[Len(proof)]
<1> DEFINE n == Len(proof)
           Is(h) == h = [k \in 0 .. n |->
                           IF k = 0 THEN leaf ELSE HashPair(h[k - 1], proof[k])]
           computed == CHOOSE h : Is(h)
<1>1. \E h : Is(h)
  <2>1. PICK h : IsRecursion(h, "computed", proof, leaf, n)
    BY RecursionExists
  <2>2. h = [k \in 0 .. n |-> IF k = 0 THEN leaf ELSE StepOf("computed", proof, k, h[k - 1])]
    BY <2>1 DEF IsRecursion
  <2>3. Is(h)
    BY <2>2 DEF StepOf
  <2>4. QED
    BY <2>3
<1>2. Is(computed)
  BY <1>1
<1>3. Computed(proof, leaf) = computed[n]
  BY DEF Computed
<1> HIDE DEF computed
<1>4. QED
  BY <1>2, <1>3, SMTT(30)

\* A level: a sequence of at least one node.
IsLevel(level) ==
  /\ Len(level) \in Nat \ {0}
  /\ level = [i \in 1 .. Len(level) |-> level[i]]

LEMMA LengthIs ==
  ASSUME NEW m \in Nat, NEW f, f = [i \in 1 .. m |-> f[i]]
  PROVE  Len(f) = m
<1> DEFINE T == {f[i] : i \in 1 .. m}
<1>1. f \in [1 .. m -> T]
  OBVIOUS
<1>2. f \in Seq(T)
  BY <1>1, SMTT(30)
<1>3. QED
  BY <1>1, <1>2

LEMMA ComputedEmpty == \A leaf : Computed(<<>>, leaf) = leaf
<1> SUFFICES ASSUME NEW leaf PROVE Computed(<<>>, leaf) = leaf
  OBVIOUS
<1>1. Len(<<>>) = 0
  OBVIOUS
<1>2. QED
  BY <1>1, ComputedIs

LEMMA ComputedAppend ==
  ASSUME NEW T, NEW proof \in Seq(T), NEW node \in T, NEW leaf
  PROVE  Computed(proof \o <<node>>, leaf) = HashPair(Computed(proof, leaf), node)
<1> DEFINE n == Len(proof)
           longer == proof \o <<node>>
<1>1. /\ n \in Nat /\ Len(longer) = n + 1 /\ longer[n + 1] = node
      /\ \A k \in 1 .. n : longer[k] = proof[k]
  OBVIOUS
<1>2. PICK h : /\ h[0] = leaf
               /\ \A k \in 1 .. n : h[k] = HashPair(h[k - 1], proof[k])
               /\ Computed(proof, leaf) = h[n]
  BY <1>1, ComputedIs
<1> HIDE DEF longer
<1>3. PICK g : /\ g[0] = leaf
               /\ \A k \in 1 .. n + 1 : g[k] = HashPair(g[k - 1], longer[k])
               /\ Computed(longer, leaf) = g[n + 1]
  <2>1. Len(longer) \in Nat
    BY <1>1
  <2>2. PICK g : /\ g[0] = leaf
                 /\ \A k \in 1 .. Len(longer) : g[k] = HashPair(g[k - 1], longer[k])
                 /\ Computed(longer, leaf) = g[Len(longer)]
    BY <2>1, ComputedIs
  <2>3. QED
    BY <1>1, <2>2
<1> HIDE DEF n
<1> DEFINE P == {k \in Nat : k <= n => g[k] = h[k]}
<1>4. 0 \in P
  BY <1>2, <1>3
<1>5. ASSUME NEW k \in Nat, k \in P PROVE k + 1 \in P
  <2>1. SUFFICES ASSUME k + 1 <= n PROVE g[k + 1] = h[k + 1]
    OBVIOUS
  <2>2. /\ k + 1 \in 1 .. n /\ k + 1 \in 1 .. n + 1 /\ (k + 1) - 1 = k /\ g[k] = h[k]
    BY <1>1, <1>5, <2>1
  <2>3. g[k + 1] = HashPair(g[k], longer[k + 1]) /\ h[k + 1] = HashPair(h[k], proof[k + 1])
    BY <1>2, <1>3, <2>2
  <2>4. QED
    BY <1>1, <2>2, <2>3
<1>6. Nat \subseteq P
  <2> HIDE DEF P
  <2>1. QED
    BY <1>4, <1>5, Inductive
<1>7. g[n] = h[n]
  BY <1>1, <1>6
<1>8. g[n + 1] = HashPair(g[n], longer[n + 1])
  <2>1. n + 1 \in 1 .. n + 1 /\ (n + 1) - 1 = n
    BY <1>1
  <2>2. QED
    BY <1>3, <2>1
<1>9. QED
  BY <1>1, <1>2, <1>3, <1>7, <1>8 DEF longer

\* A node, hashed with its sibling, is the node above it.
LEMMA SiblingLeadsUp ==
  ASSUME NEW level, IsLevel(level), Len(level) # 1, NEW place \in 1 .. Len(level)
  PROVE  /\ IsLevel(Above(level)) /\ Len(Above(level)) < Len(level)
         /\ (place + 1) \div 2 \in 1 .. Len(Above(level))
         /\ \E node : /\ Sibling(level, place) = <<node>>
                      /\ Above(level)[(place + 1) \div 2] = HashPair(level[place], node)
<1> DEFINE m == Len(level)
           n == (m + 1) \div 2
           q == (place + 1) \div 2
           up == Above(level)
           Leads == \E node : /\ Sibling(level, place) = <<node>>
                              /\ up[q] = HashPair(level[place], node)
<1>1. /\ m \in Nat /\ m >= 2 /\ n \in Nat /\ n >= 1 /\ n < m /\ q \in 1 .. n /\ place \in 1 .. m
  BY DEF IsLevel
<1>2. up = [i \in 1 .. n |-> HashPair(level[2 * i - 1], level[Smaller(2 * i, m)])]
  BY DEF Above
<1>3. up[q] = HashPair(level[2 * q - 1], level[Smaller(2 * q, m)])
  BY <1>1, <1>2
<1>4. ASSUME place % 2 = 0 PROVE Leads
  <2>1. 2 * q = place /\ 2 * q - 1 = place - 1 /\ Smaller(2 * q, m) = place
    BY <1>1, <1>4 DEF Smaller
  <2>2. Sibling(level, place) = <<level[place - 1]>>
    BY <1>4 DEF Sibling
  <2>3. up[q] = HashPair(level[place], level[place - 1])
    BY <1>3, <2>1 DEF HashPair
  <2>4. QED
    BY <2>2, <2>3
<1>5. ASSUME place % 2 # 0 PROVE Leads
  <2>1. 2 * q = place + 1 /\ 2 * q - 1 = place
    BY <1>1, <1>5
  <2>2. Sibling(level, place) = <<level[Smaller(place + 1, m)]>>
    BY <1>5 DEF Sibling
  <2>3. up[q] = HashPair(level[place], level[Smaller(place + 1, m)])
    BY <1>3, <2>1
  <2>4. QED
    BY <2>2, <2>3
<1>6. up = [i \in 1 .. n |-> up[i]]
  BY <1>2
<1> HIDE DEF up, n
<1>7. Len(up) = n
  BY <1>1, <1>6, LengthIs
<1>8. IsLevel(up) /\ Len(up) < m /\ q \in 1 .. Len(up)
  BY <1>1, <1>6, <1>7 DEF IsLevel
<1>9. Leads
  BY <1>4, <1>5
<1>10. QED
  BY <1>8, <1>9 DEF up

\* k levels up: the proof so far leads the leaf, and only it, to its node, and
\* what is left of the tree is one node or shrinks with every level.
Reached(level, at, leaf, k, n) ==
  /\ IsLevel(level) /\ (Len(level) = 1 \/ Len(level) + k <= n)
  /\ at.place \in 1 .. Len(level)
  /\ \E T : at.proof \in Seq(T)
  /\ \A x : Computed(at.proof, x) = level[at.place] <=> x = leaf

LEMMA ClimbReaches ==
  ASSUME NEW level, NEW at, NEW leaf, NEW k \in Nat, NEW n \in Nat,
         Reached(level, at, leaf, k, n)
  PROVE  Reached(Upper(level), Climb(level, at), leaf, k + 1, n)
<1>1. CASE Len(level) = 1
  BY <1>1 DEF Reached, Upper, Climb
<1>2. CASE Len(level) # 1
  <2> DEFINE up == Above(level)
             q == (at.place + 1) \div 2
  <2>1. /\ IsLevel(level) /\ at.place \in 1 .. Len(level) /\ Len(level) + k <= n
        /\ \A x : Computed(at.proof, x) = level[at.place] <=> x = leaf
    BY <1>2 DEF Reached
  <2>2. IsLevel(up) /\ Len(up) < Len(level) /\ q \in 1 .. Len(up)
    BY <1>2, <2>1, SiblingLeadsUp
  <2>3. PICK node : /\ Sibling(level, at.place) = <<node>>
                    /\ up[q] = HashPair(level[at.place], node)
    BY <1>2, <2>1, SiblingLeadsUp
  <2>4. PICK T : at.proof \in Seq(T)
    BY DEF Reached
  <2> DEFINE U == T \cup {node}
             longer == at.proof \o <<node>>
  <2>5. at.proof \in Seq(U) /\ node \in U /\ longer \in Seq(U)
    BY <2>4
  <2>6. Upper(level) = up /\ Climb(level, at) = [place |-> q, proof |-> longer]
    BY <1>2, <2>3 DEF Upper, Climb
  <2>7. ASSUME NEW x PROVE Computed(longer, x) = up[q] <=> x = leaf
    <3> HIDE DEF up, q, U
    <3>1. Computed(longer, x) = HashPair(Computed(at.proof, x), node)
      BY <2>5, ComputedAppend
    <3>2. HashPair(Computed(at.proof, x), node) = HashPair(level[at.place], node)
            <=> Computed(at.proof, x) = level[at.place]
      BY DEF HashPair
    <3>3. QED
      BY <2>1, <2>3, <3>1, <3>2
  <2>8. Len(up) + (k + 1) <= n
    BY <2>1, <2>2 DEF IsLevel
  <2> HIDE DEF up, q, longer
  <2>9. Reached(up, [place |-> q, proof |-> longer], leaf, k + 1, n)
    BY <2>2, <2>5, <2>7, <2>8 DEF Reached
  <2>10. QED
    BY <2>6, <2>9
<1>3. QED
  BY <1>1, <1>2

\* For trees of any number of leaves: with the proof of a leaf that leaf is
\* accepted and nothing else is, no matter what it is (merkle.ts:47-78).
THEOREM ProofsAreSound ==
  ASSUME NEW S, NEW leaves \in Seq(S), NEW i \in DOMAIN leaves
  PROVE  \A x : Verify(ProofFor(leaves, i), RootOf(leaves), x) <=> x = leaves[i]
<1> DEFINE n == Len(leaves)
           level == LevelOf(leaves)
<1>1. n \in Nat \ {0} /\ i \in 1 .. n /\ leaves = [j \in 1 .. n |-> leaves[j]]
  OBVIOUS
<1>2. level[0] = leaves /\ \A k \in 1 .. n : level[k] = Upper(level[k - 1])
  BY <1>1, LevelsAre
<1>3. PICK climb : /\ climb[0] = [place |-> i, proof |-> <<>>]
                   /\ \A k \in 1 .. n : climb[k] = Climb(level[k - 1], climb[k - 1])
                   /\ ProofFor(leaves, i) = climb[n].proof
  BY <1>1, ClimbsAre
<1> HIDE DEF level
<1> DEFINE P == {k \in Nat : k <= n => Reached(level[k], climb[k], leaves[i], k, n)}
<1>4. 0 \in P
  <2>1. \A x : Computed(<<>>, x) = leaves[i] <=> x = leaves[i]
    BY ComputedEmpty
  <2>2. <<>> \in Seq(S) /\ IsLevel(leaves) /\ Len(leaves) + 0 <= n
    BY <1>1 DEF IsLevel
  <2>3. Reached(leaves, [place |-> i, proof |-> <<>>], leaves[i], 0, n)
    BY <1>1, <2>1, <2>2 DEF Reached
  <2>4. QED
    BY <1>2, <1>3, <2>3
<1>5. ASSUME NEW k \in Nat, k \in P PROVE k + 1 \in P
  <2>1. SUFFICES ASSUME k + 1 <= n PROVE Reached(level[k + 1], climb[k + 1], leaves[i], k + 1, n)
    OBVIOUS
  <2>2. k + 1 \in 1 .. n /\ (k + 1) - 1 = k /\ k <= n
    BY <1>1, <2>1
  <2>3. Reached(level[k], climb[k], leaves[i], k, n)
    BY <1>5, <2>2
  <2>4. Reached(Upper(level[k]), Climb(level[k], climb[k]), leaves[i], k + 1, n)
    BY <1>1, <2>3, ClimbReaches
  <2>5. level[k + 1] = Upper(level[k]) /\ climb[k + 1] = Climb(level[k], climb[k])
    BY <1>2, <1>3, <2>2
  <2>6. QED
    BY <2>4, <2>5
<1>6. Nat \subseteq P
  <2> HIDE DEF P
  <2>1. QED
    BY <1>4, <1>5, Inductive
<1>7. Reached(level[n], climb[n], leaves[i], n, n)
  BY <1>1, <1>6
<1>8. climb[n].place = 1
  BY <1>1, <1>7 DEF Reached, IsLevel
<1>9. RootOf(leaves) = level[n][1]
  BY DEF RootOf, level
<1>10. QED
  BY <1>3, <1>7, <1>8, <1>9 DEF Reached, Verify

-----------------------------------------------------------------------------
(* The price gate. *)

LEMMA TenToIsPositive == ASSUME NEW n \in Nat PROVE TenTo(n) \in Nat \ {0}
<1> DEFINE Is(h) == h = [k \in 0 .. n |-> IF k = 0 THEN 1 ELSE 10 * h[k - 1]]
           power == CHOOSE h : Is(h)
<1>1. \E h : Is(h)
  <2>1. PICK h : IsRecursion(h, "power", 0, 1, n)
    BY RecursionExists
  <2>2. h = [k \in 0 .. n |-> IF k = 0 THEN 1 ELSE StepOf("power", 0, k, h[k - 1])]
    BY <2>1 DEF IsRecursion
  <2>3. Is(h)
    BY <2>2 DEF StepOf
  <2>4. QED
    BY <2>3
<1>2. Is(power)
  BY <1>1
<1>3. TenTo(n) = power[n]
  BY DEF TenTo
<1> HIDE DEF power
<1> DEFINE P == {k \in Nat : k <= n => power[k] \in Nat \ {0}}
<1>4. 0 \in P
  BY <1>2
<1>5. ASSUME NEW k \in Nat, k \in P PROVE k + 1 \in P
  <2>1. SUFFICES ASSUME k + 1 <= n PROVE power[k + 1] \in Nat \ {0}
    OBVIOUS
  <2>2. power[k] \in Nat \ {0} /\ power[k + 1] = 10 * power[k]
    BY <1>2, <1>5, <2>1
  <2>3. QED
    BY <2>2
<1>6. Nat \subseteq P
  <2> HIDE DEF P
  <2>1. QED
    BY <1>4, <1>5, Inductive
<1>7. QED
  BY <1>3, <1>6

LEMMA PriceIsNat == ASSUME NEW feed \in Feed, NEW now PROVE PriceWad(feed, now) \in Nat
<1>1. CASE IsLive(feed, now)
  <2>1. /\ feed.answer \in Nat /\ feed.decimals \in Nat /\ WadDecimals \in Nat
    BY <1>1, QuotesAssumption DEF QuotesAssumption, IsLive, Feed
  <2>2. CASE feed.decimals <= WadDecimals
    <3>1. TenTo(WadDecimals - feed.decimals) \in Nat
      BY <2>1, <2>2, TenToIsPositive
    <3>2. feed.answer * TenTo(WadDecimals - feed.decimals) \in Nat
      BY <2>1, <3>1, ProductIsNat
    <3>3. QED
      BY <1>1, <2>2, <3>2 DEF PriceWad, PriceOf
  <2>3. CASE ~(feed.decimals <= WadDecimals)
    <3>1. TenTo(feed.decimals - WadDecimals) \in Nat \ {0}
      BY <2>1, <2>3, TenToIsPositive
    <3>2. feed.answer \div TenTo(feed.decimals - WadDecimals) \in Nat
      BY <2>1, <3>1, Division
    <3>3. QED
      BY <1>1, <2>3, <3>2 DEF PriceWad, PriceOf
  <2>4. QED
    BY <2>2, <2>3
<1>2. CASE ~IsLive(feed, now)
  BY <1>2 DEF PriceWad
<1>3. QED
  BY <1>1, <1>2

LEMMA TimesKeepsOrder ==
  \A a, b \in Int, c \in Nat : a <= b => a * c <= b * c
  OBVIOUS

\* A quotient bounds its dividend.
LEMMA QuotientBounds ==
  ASSUME NEW a \in Nat, NEW b \in Nat \ {0}, NEW c \in Nat, a \div b <= c
  PROVE  a <= c * b + b - 1
<1>1. a \div b \in Nat /\ a % b \in 0 .. b - 1 /\ a = b * (a \div b) + (a % b)
  BY Division
<1>2. (a \div b) * b <= c * b
  BY <1>1, TimesKeepsOrder
<1>3. b * (a \div b) = (a \div b) * b /\ (a \div b) * b \in Int /\ c * b \in Int
  BY <1>1
<1> DEFINE x == a \div b
           r == a % b
<1> HIDE DEF x, r
<1>4. QED
  BY <1>1, <1>2, <1>3 DEF x, r

LEMMA QuotientBelow ==
  ASSUME NEW a \in Nat, NEW b \in Nat \ {0}, NEW c \in Nat, a < (c + 1) * b
  PROVE  a \div b <= c
<1>1. a \div b \in Nat /\ a % b \in 0 .. b - 1 /\ a = b * (a \div b) + (a % b)
  BY Division
<1>2. SUFFICES ASSUME c + 1 <= a \div b PROVE FALSE
  BY <1>1
<1>3. (c + 1) * b <= (a \div b) * b
  BY <1>1, <1>2, TimesKeepsOrder
<1>4. (a \div b) * b = b * (a \div b) /\ b * (a \div b) \in Int /\ (c + 1) * b \in Int
  BY <1>1
<1>5. QED
  BY <1>1, <1>3, <1>4

\* The price a route was quoted at, times the whole, stays under the cap.
LEMMA DeviationBounds ==
  ASSUME NEW exec \in Nat, NEW price \in Nat \ {0}, NEW whole \in Nat \ {0},
         NEW cap \in Nat, NEW slip \in Nat, cap < slip,
         NEW diff, diff = (IF exec > price THEN exec - price ELSE price - exec),
         (diff * whole) \div price <= cap
  PROVE  exec * whole <= price * whole + slip * price - 1
<1>1. diff \in Nat /\ exec <= price + diff
  OBVIOUS
<1>2. diff * whole \in Nat
  BY <1>1, ProductIsNat
<1>3. diff * whole <= cap * price + price - 1
  BY <1>2, QuotientBounds
<1>4. (cap + 1) * price <= slip * price
  BY TimesKeepsOrder
<1>5. (cap + 1) * price = cap * price + price /\ slip * price \in Int /\ cap * price \in Int
  OBVIOUS
<1>6. exec * whole <= (price + diff) * whole
  BY <1>1, TimesKeepsOrder
<1>7. (price + diff) * whole = price * whole + diff * whole
      /\ exec * whole \in Int /\ price * whole \in Int
  BY <1>1
<1>8. QED
  BY <1>2, <1>3, <1>4, <1>5, <1>6, <1>7

\* What was offered for value v at a unit price within the cap is no less than
\* the minimum: rounding dollars loses less than a unit, rounding the unit
\* price less than the difference of cap and slippage.
LEMMA GateLeavesRoom ==
  ASSUME NEW v \in Nat, NEW wad \in Nat \ {0}, NEW t \in Nat \ {0}, NEW exec \in Nat,
         NEW p \in Nat \ {0}, NEW whole \in Nat \ {0}, NEW slip \in Nat \ {0}, slip < whole,
         v <= exec * t + t - 1 + wad - 1,
         exec * whole <= p * whole + slip * p - 1,
         p >= wad, p * slip * slip >= whole * (whole - slip)
  PROVE  (v * (whole - slip)) \div (p * whole) <= t
<1> DEFINE c == whole - slip
           z == c * whole
<1>1. c \in Nat \ {0} /\ c <= whole /\ slip = whole - c
  OBVIOUS
<1>2. z \in Nat \ {0} /\ z <= whole * whole
  <2>1. c * whole <= whole * whole
    BY <1>1, TimesKeepsOrder
  <2>2. c * whole \in Nat \ {0}
    BY <1>1
  <2>3. QED
    BY <2>1, <2>2
<1> HIDE DEF c
<1>3. v * z <= (exec * t + t + wad - 2) * z
  BY <1>2, TimesKeepsOrder
<1>4. (exec * t + t + wad - 2) * z = (exec * whole) * (t * c) + t * z + wad * z - 2 * z
  BY <1>1
<1>5. (exec * whole) * (t * c) <= (p * whole + slip * p - 1) * (t * c)
  BY <1>1, TimesKeepsOrder, ProductIsNat
<1>6. (p * whole + slip * p - 1) * (t * c)
        = (p * t) * (whole * whole) - (p * slip * slip) * t - t * c
  <2>1. (whole + slip) * c = whole * whole - slip * slip
    BY <1>1
  <2>2. (p * whole + slip * p - 1) * (t * c) = (p * t) * ((whole + slip) * c) - t * c
    BY <1>1
  <2>3. (p * t) * (whole * whole - slip * slip)
          = (p * t) * (whole * whole) - (p * slip * slip) * t
    OBVIOUS
  <2>4. QED
    BY <2>1, <2>2, <2>3
<1>7. (whole * c) * t <= (p * slip * slip) * t /\ (whole * c) * t = t * z
  <2>1. whole * c \in Int /\ p * slip * slip \in Int /\ whole * c <= p * slip * slip
    BY <1>1 DEF c
  <2>2. (whole * c) * t <= (p * slip * slip) * t
    BY <2>1, TimesKeepsOrder
  <2>3. (whole * c) * t = t * z
    BY <1>1
  <2>4. QED
    BY <2>2, <2>3
<1>8. wad * z <= p * z /\ z * p <= (whole * whole) * p /\ z * p = p * z
  BY <1>2, TimesKeepsOrder
<1>9. ((t + 1) * (p * whole)) * whole = (p * t) * (whole * whole) + (whole * whole) * p
  OBVIOUS
<1>10. v * z = (v * c) * whole
  BY <1>1
<1>11. /\ v * z \in Int /\ t * z \in Int /\ wad * z \in Int /\ p * z \in Int /\ t * c \in Nat
       /\ (exec * whole) * (t * c) \in Int /\ (p * t) * (whole * whole) \in Int
       /\ (p * slip * slip) * t \in Int /\ (whole * whole) * p \in Int
  BY <1>1, <1>2
<1> HIDE DEF z
<1>12. (v * c) * whole < ((t + 1) * (p * whole)) * whole
  <2> DEFINE A == v * z
             E == (exec * whole) * (t * c)
             F == t * z
             G == wad * z
             H == p * z
             J == (p * t) * (whole * whole)
             K == (p * slip * slip) * t
             L == (whole * whole) * p
             M == t * c
  <2>1. /\ A \in Int /\ E \in Int /\ F \in Int /\ G \in Int /\ H \in Int
        /\ J \in Int /\ K \in Int /\ L \in Int /\ M \in Nat
    BY <1>11
  <2>2. A <= E + F + G - 2 * z
    BY <1>3, <1>4
  <2>3. E <= J - K - M
    BY <1>5, <1>6
  <2>4. F <= K
    BY <1>7
  <2>5. G <= H /\ H <= L
    BY <1>8
  <2>6. (v * c) * whole = A /\ ((t + 1) * (p * whole)) * whole = J + L
    BY <1>9, <1>10
  <2> HIDE DEF A, E, F, G, H, J, K, L, M
  <2>7. A < J + L
    BY <1>2, <2>1, <2>2, <2>3, <2>4, <2>5
  <2>8. QED
    BY <2>6, <2>7
<1>13. v * c < (t + 1) * (p * whole)
  <2>1. SUFFICES ASSUME (t + 1) * (p * whole) <= v * c PROVE FALSE
    BY <1>1
  <2>2. ((t + 1) * (p * whole)) * whole <= (v * c) * whole
    BY <1>1, <2>1, TimesKeepsOrder
  <2>3. ((t + 1) * (p * whole)) * whole \in Int /\ (v * c) * whole \in Int
    BY <1>1
  <2>4. QED
    BY <1>12, <2>2, <2>3
<1>14. v * c \in Nat /\ p * whole \in Nat \ {0}
  BY <1>1
<1>15. (v * c) \div (p * whole) <= t
  BY <1>13, <1>14, QuotientBelow
<1>16. QED
  BY <1>15 DEF c

\* One leg that passes a gate stricter than the slippage cap.
LEMMA PassingLegIsEnough ==
  ASSUME NEW leg \in Leg, NEW wethUsd \in Nat, NEW now,
         MaxDeviationBps < MaxSlippageBps, Passes(leg, wethUsd, now),
         Precise(PriceWad(leg.feed, now))
  PROVE  leg.toAmount >= MinTokenOut(leg.fromAmount, wethUsd, PriceWad(leg.feed, now))
<1> DEFINE p == PriceWad(leg.feed, now)
           wad == TenTo(WadDecimals)
           t == leg.toAmount
           v == leg.fromAmount * wethUsd
           usdIn == v \div wad
           exec == (usdIn * wad) \div t
           diff == IF exec > p THEN exec - p ELSE p - exec
<1>1. /\ WadDecimals \in Nat /\ MaxDeviationBps \in Nat /\ MaxSlippageBps \in Nat \ {0}
      /\ Bps \in Nat \ {0} /\ MaxSlippageBps < Bps
  BY QuotesAssumption DEF QuotesAssumption
<1>2. /\ leg.fromAmount \in Nat /\ t \in Nat /\ leg.feed \in Feed
  BY DEF Leg
<1>3. p > 0 /\ t # 0 /\ DeviationBps(leg, wethUsd, p) <= MaxDeviationBps
  BY DEF Passes, NoRoute
<1>4. p \in Nat \ {0} /\ wad \in Nat \ {0} /\ v \in Nat /\ t \in Nat \ {0}
  BY <1>1, <1>2, <1>3, PriceIsNat, TenToIsPositive, ProductIsNat
<1>5. (diff * Bps) \div p <= MaxDeviationBps
  BY <1>3 DEF DeviationBps
<1>6. p >= wad /\ p * MaxSlippageBps * MaxSlippageBps >= Bps * (Bps - MaxSlippageBps)
  BY DEF Precise
<1>7. MinTokenOut(leg.fromAmount, wethUsd, p) = (v * (Bps - MaxSlippageBps)) \div (p * Bps)
  BY DEF MinTokenOut
<1> HIDE DEF p, wad, t, v
<1>8. usdIn \in Nat /\ usdIn * wad \in Nat
  BY <1>4, Division, ProductIsNat
<1>9. exec \in Nat
  BY <1>4, <1>8, Division
<1>10. v <= usdIn * wad + wad - 1
  BY <1>4, <1>8, QuotientBounds
<1>11. usdIn * wad <= exec * t + t - 1
  BY <1>4, <1>8, <1>9, QuotientBounds
<1> HIDE DEF usdIn, exec
<1>12. exec * Bps <= p * Bps + MaxSlippageBps * p - 1
  BY <1>1, <1>4, <1>5, <1>9, DeviationBounds
<1>13. exec * t \in Nat
  BY <1>4, <1>9, ProductIsNat
<1>14. v <= exec * t + t - 1 + wad - 1
  BY <1>4, <1>8, <1>10, <1>11, <1>13
<1>15. (v * (Bps - MaxSlippageBps)) \div (p * Bps) <= t
  BY <1>1, <1>4, <1>6, <1>9, <1>12, <1>14, GateLeavesRoom
<1>16. (v * (Bps - MaxSlippageBps)) \div (p * Bps) \in Int
  <2>1. v * (Bps - MaxSlippageBps) \in Nat /\ p * Bps \in Nat \ {0}
    BY <1>1, <1>4, ProductIsNat
  <2>2. QED
    BY <2>1, Division
<1>17. QED
  BY <1>4, <1>7, <1>15, <1>16 DEF p, t

-----------------------------------------------------------------------------
(* The inputs of AlgorithmSpec are inputs of the algorithms. *)

AlgorithmInv ==
  /\ amount \in Nat /\ weights \in [1 .. Places -> Nat]
  /\ tree \in Seq(Leaves) /\ \A i, j \in DOMAIN tree : tree[i] = tree[j] => i = j
  /\ weth \in Feed /\ legs \in Seq(Leg)

LEMMA WethIsFeed == WethFeeds \subseteq Feed
<1>1. Fresh \in Feed
  BY DEF Fresh, Feed
<1>2. ASSUME NEW feed \in Feed, NEW a \in Int PROVE [feed EXCEPT !.answer = a] \in Feed
  BY DEF Feed
<1>3. QED
  BY <1>1, <1>2 DEF WethFeeds

LEMMA AlgorithmInitInv == AlgorithmInit => AlgorithmInv
<1> SUFFICES ASSUME AlgorithmInit PROVE AlgorithmInv
  OBVIOUS
<1>1. weth \in Feed
  BY WethIsFeed DEF AlgorithmInit, WethFeeds
<1>2. QED
  BY <1>1 DEF AlgorithmInit, AlgorithmInv

LEMMA AlgorithmNextInv == AlgorithmInv /\ [AlgorithmNext]_algorithmVars => AlgorithmInv'
<1> SUFFICES ASSUME AlgorithmInv, [AlgorithmNext]_algorithmVars PROVE AlgorithmInv'
  OBVIOUS
<1>1. CASE MoreAmount
  BY <1>1 DEF MoreAmount, AlgorithmInv
<1>2. ASSUME NEW i \in 1 .. Places, MoreWeight(i) PROVE AlgorithmInv'
  <2>1. weights' \in [1 .. Places -> Nat]
    BY <1>2 DEF MoreWeight, AlgorithmInv
  <2>2. QED
    BY <1>2, <2>1 DEF MoreWeight, AlgorithmInv
<1>3. CASE MoreLeaves
  <2> DEFINE leaf == CHOOSE x \in Leaves : x \notin Range(tree)
  <2>1. leaf \in Leaves /\ leaf \notin Range(tree) /\ tree' = Append(tree, leaf)
    BY <1>3 DEF MoreLeaves
  <2> HIDE DEF leaf
  <2>2. /\ tree \in Seq(Leaves) /\ \A i \in DOMAIN tree : tree[i] # leaf
        /\ \A i, j \in DOMAIN tree : tree[i] = tree[j] => i = j
    BY <2>1 DEF AlgorithmInv, Range
  <2>3. tree' \in Seq(Leaves) /\ \A i, j \in DOMAIN tree' : tree'[i] = tree'[j] => i = j
    BY <2>1, <2>2
  <2>4. QED
    BY <1>3, <2>3 DEF MoreLeaves, AlgorithmInv
<1>4. CASE MoreLegs
  <2>1. legs' \in Seq(Leg)
    <3>1. PICK leg : leg \in Leg /\ legs' = Append(legs, leg)
      BY <1>4 DEF MoreLegs
    <3>2. QED
      BY <3>1 DEF AlgorithmInv
  <2>2. weth' \in Feed
    BY <1>4, WethIsFeed DEF MoreLegs, AlgorithmInv
  <2>3. QED
    BY <1>4, <2>1, <2>2 DEF MoreLegs, AlgorithmInv
<1>5. CASE UNCHANGED algorithmVars
  BY <1>5 DEF algorithmVars, AlgorithmInv
<1>6. QED
  BY <1>1, <1>2, <1>3, <1>4, <1>5 DEF AlgorithmNext

LEMMA AlgorithmInvariant == AlgorithmSpec => []AlgorithmInv
  BY AlgorithmInitInv, AlgorithmNextInv, PTL DEF AlgorithmSpec

LEMMA SplitsOfInputs ==
  ASSUME AlgorithmInv
  PROVE  BuyerSplitsExactly /\ IndexerSplitsExactly /\ SplitsAgree
<1>1. Places \in Nat
  BY AlgorithmAssumption DEF AlgorithmAssumption
<1>2. amount \in Nat /\ weights \in [1 .. Places -> Nat]
  BY DEF AlgorithmInv
<1>3. Whole > 0 =>
        /\ IsExactSplit(BuyerSplit(amount, weights, Whole), amount, weights, Whole)
        /\ IsOrderly(BuyerSplit(amount, weights, Whole), weights)
        /\ IndexerSplit(amount, weights) = BuyerSplit(amount, weights, Whole)
  BY <1>1, <1>2, SplitsAreExact DEF Whole
<1>4. QED
  BY <1>3 DEF BuyerSplitsExactly, IndexerSplitsExactly, SplitsAgree

\* The buyer spends all WETH, each leg within a wei of its weight, the heavier
\* or earlier constituent first (BasketBuyer.sol:101-125, ADR 0008).
THEOREM BuyerSplitIsExact == AlgorithmSpec => []BuyerSplitsExactly
<1>1. AlgorithmInv => BuyerSplitsExactly
  BY SplitsOfInputs
<1>2. QED
  BY AlgorithmInvariant, <1>1, PTL

\* allocate leaves no residual, and ties go to the lower address (D029).
THEOREM IndexerSplitIsExact == AlgorithmSpec => []IndexerSplitsExactly
<1>1. AlgorithmInv => IndexerSplitsExactly
  BY SplitsOfInputs
<1>2. QED
  BY AlgorithmInvariant, <1>1, PTL

\* The loop of the contract and the sort of the indexer are one algorithm.
THEOREM LoopAndSortAgree == AlgorithmSpec => []SplitsAgree
<1>1. AlgorithmInv => SplitsAgree
  BY SplitsOfInputs
<1>2. QED
  BY AlgorithmInvariant, <1>1, PTL

\* A proof verifies its leaf and no other leaf of the tree (merkle.ts:3-13).
THEOREM ProofsVerifyTheirLeaf == AlgorithmSpec => []ProofsVerify
<1>1. AlgorithmInv => ProofsVerify
  <2> SUFFICES ASSUME AlgorithmInv, NEW i \in DOMAIN tree, NEW j \in DOMAIN tree
               PROVE  Verify(ProofFor(tree, i), RootOf(tree), tree[j]) <=> i = j
    BY DEF ProofsVerify
  <2>1. tree \in Seq(Leaves) /\ (tree[j] = tree[i] => j = i)
    BY DEF AlgorithmInv
  <2>2. Verify(ProofFor(tree, i), RootOf(tree), tree[j]) <=> tree[j] = tree[i]
    BY <2>1, ProofsAreSound
  <2>3. QED
    BY <2>1, <2>2
<1>2. QED
  BY AlgorithmInvariant, <1>1, PTL

\* A cycle that a gate stricter than the buyer's cap lets through meets every
\* minimum output if its routes deliver (quotes.ts:11, BasketBuyer.sol:127-132).
THEOREM GatedCycleMeetsMinimum == AlgorithmSpec => []GatedQuoteMeetsMinimum
<1>1. AlgorithmInv => GatedQuoteMeetsMinimum
  <2> SUFFICES ASSUME AlgorithmInv, MaxDeviationBps < MaxSlippageBps,
                      CycleViable(legs, weth, Now),
                      NEW i \in DOMAIN legs, Precise(PriceWad(legs[i].feed, Now))
               PROVE  legs[i].toAmount >= MinTokenOut(legs[i].fromAmount, PriceWad(weth, Now),
                                                      PriceWad(legs[i].feed, Now))
    BY DEF GatedQuoteMeetsMinimum
  <2>1. legs[i] \in Leg /\ PriceWad(weth, Now) \in Nat
    BY PriceIsNat DEF AlgorithmInv
  <2>2. Passes(legs[i], PriceWad(weth, Now), Now)
    BY DEF CycleViable
  <2>3. QED
    BY <2>1, <2>2, PassingLegIsEnough
<1>2. QED
  BY AlgorithmInvariant, <1>1, PTL
=============================================================================
