-------------------------- MODULE AllocationProofs --------------------------
(***************************************************************************)
(* Sums over finite sets, and theorems of the two splits for every amount  *)
(* and all weights.                                                        *)
(*                                                                         *)
(* The library's induction theorems take an operator; the lemmas here take *)
(* the set of the elements a formula holds of instead.  A sum is a fold,   *)
(* and the fold a recursive function over the subsets of its domain:       *)
(* IterExists shows that the recursion has a solution, IterAgree that it   *)
(* has one, and from SumTakesAny on the order of the terms is forgotten.   *)
(***************************************************************************)
EXTENDS Allocation, FiniteSetTheorems, WellFoundedInduction, TLAPS

\* Induction on the natural numbers: WFMin on what is not in P.
LEMMA Inductive ==
  ASSUME NEW P, 0 \in P, \A n \in Nat : n \in P => n + 1 \in P
  PROVE  Nat \subseteq P
<1> DEFINE T == Nat \ P
<1>1. SUFFICES ASSUME T # {} PROVE FALSE
  OBVIOUS
<1>2. T \subseteq Nat
  OBVIOUS
<1>3. PICK n \in T : \A y \in T : ~(<<y, n>> \in OpToRel(<, Nat))
  <2> HIDE DEF T
  <2>1. QED
    BY <1>1, <1>2, NatLessThanWellFounded, WFMin
<1>4. \A y \in T : ~(y < n)
  BY <1>2, <1>3 DEF OpToRel
<1>5. n # 0 /\ n - 1 \in Nat /\ n - 1 < n
  OBVIOUS
<1>6. n - 1 \in P
  BY <1>4, <1>5
<1>7. QED
  BY <1>5, <1>6

LEMMA OneLess ==
  ASSUME NEW T, IsFiniteSet(T), NEW x \in T
  PROVE  /\ IsFiniteSet(T \ {x})
         /\ Cardinality(T) \in Nat /\ Cardinality(T \ {x}) = Cardinality(T) - 1
  BY FS_RemoveElement, FS_CardinalityType

\* Induction on the subsets of a finite set.
LEMMA FiniteInductive ==
  ASSUME NEW S, IsFiniteSet(S), NEW P, {} \in P,
         \A T \in SUBSET S, x \in S : T \in P /\ x \notin T => T \cup {x} \in P
  PROVE  S \in P
<1> DEFINE N == {n \in Nat : \A T \in SUBSET S : Cardinality(T) = n => T \in P}
<1>1. \A T \in SUBSET S : IsFiniteSet(T) /\ Cardinality(T) \in Nat
  BY FS_Subset, FS_CardinalityType
<1>2. 0 \in N
  BY <1>1, FS_EmptySet
<1>3. ASSUME NEW n \in Nat, n \in N PROVE n + 1 \in N
  <2>1. SUFFICES ASSUME NEW T \in SUBSET S, Cardinality(T) = n + 1 PROVE T \in P
    OBVIOUS
  <2>2. PICK x \in T : TRUE
    BY <1>1, <2>1, FS_EmptySet
  <2>3. Cardinality(T \ {x}) = n
    <3>1. IsFiniteSet(T)
      BY <1>1
    <3>2. Cardinality(T \ {x}) = Cardinality(T) - 1
      BY <2>2, <3>1, FS_RemoveElement
    <3>3. QED
      BY <2>1, <3>2
  <2>4. T \ {x} \in P
    BY <1>3, <2>3
  <2>5. (T \ {x}) \cup {x} = T
    BY <2>2
  <2>6. QED
    BY <2>4, <2>5
<1>4. Nat \subseteq N
  <2> HIDE DEF N
  <2>1. QED
    BY <1>2, <1>3, Inductive
<1>5. QED
  BY <1>1, <1>4

LEMMA ImageIsFinite ==
  ASSUME NEW S, IsFiniteSet(S), NEW f
  PROVE  IsFiniteSet({f[x] : x \in S})
<1> DEFINE P == {T \in SUBSET S : IsFiniteSet({f[x] : x \in T})}
<1>1. {} \in P
  BY FS_EmptySet, {f[x] : x \in {}} = {}
<1>2. ASSUME NEW T \in SUBSET S, NEW x \in S, T \in P, x \notin T PROVE T \cup {x} \in P
  <2>1. {f[y] : y \in T \cup {x}} = {f[y] : y \in T} \cup {f[x]}
    OBVIOUS
  <2>2. IsFiniteSet({f[y] : y \in T} \cup {f[x]})
    BY <1>2, FS_AddElement
  <2>3. IsFiniteSet({f[y] : y \in T \cup {x}})
    BY <2>1, <2>2, Zenon
  <2>4. T \cup {x} \in SUBSET S
    OBVIOUS
  <2>5. QED
    BY <2>3, <2>4
<1>3. S \in P
  <2> HIDE DEF P
  <2>1. QED
    BY <1>1, <1>2, FiniteInductive
<1>4. QED
  BY <1>3

-----------------------------------------------------------------------------
Pick(s) == CHOOSE x \in s : TRUE

\* g is the recursion of the fold over the subsets of S.
IsIter(g, f, S) ==
  g = [s \in SUBSET S |-> IF s = {} THEN 0 ELSE f[Pick(s)] + g[s \ {Pick(s)}]]

Iter(f, S) == CHOOSE g : IsIter(g, f, S)

SumOn(f, S) == Iter(f, S)[S]

LEMMA SumOfOn == ASSUME NEW f PROVE SumOf(f) = SumOn(f, DOMAIN f)
  BY DEF SumOf, FoldFunction, FoldFunctionOnSet, MapThenFoldSet, SumOn, Iter, IsIter, Pick

LEMMA PickIn == \A s : s # {} => Pick(s) \in s
  BY DEF Pick

LEMMA IterExists ==
  ASSUME NEW S, IsFiniteSet(S), NEW f
  PROVE  IsIter(Iter(f, S), f, S)
<1> DEFINE D(n) == {s \in SUBSET S : Cardinality(s) <= n}
           Fits(g, n) == g = [s \in D(n) |->
                                IF s = {} THEN 0 ELSE f[Pick(s)] + g[s \ {Pick(s)}]]
           P == {n \in Nat : \E g : Fits(g, n)}
<1>1. \A s \in SUBSET S : IsFiniteSet(s) /\ Cardinality(s) \in Nat
  BY FS_Subset, FS_CardinalityType
<1>2. \A s \in SUBSET S : Cardinality(s) = 0 <=> s = {}
  BY <1>1, FS_EmptySet
<1>3. ASSUME NEW s \in SUBSET S, s # {}
      PROVE  s \ {Pick(s)} \in SUBSET S /\ Cardinality(s \ {Pick(s)}) = Cardinality(s) - 1
  BY <1>1, <1>3, PickIn, FS_RemoveElement
<1>4. 0 \in P
  <2>1. D(0) = {{}}
    BY <1>1, <1>2
  <2>2. Fits([s \in {{}} |-> 0], 0)
    BY <2>1
  <2>3. QED
    BY <2>2
<1>5. ASSUME NEW n \in Nat, n \in P PROVE n + 1 \in P
  <2>1. PICK g : Fits(g, n)
    BY <1>5
  <2> DEFINE h == [s \in D(n + 1) |-> IF Cardinality(s) <= n THEN g[s]
                                        ELSE f[Pick(s)] + g[s \ {Pick(s)}]]
  <2>2. ASSUME NEW s \in D(n + 1)
        PROVE  h[s] = IF s = {} THEN 0 ELSE f[Pick(s)] + h[s \ {Pick(s)}]
    <3>1. CASE s = {}
      <4>1. s \in D(n) /\ g[s] = 0
        BY <1>2, <2>1, <3>1
      <4>2. QED
        BY <3>1, <4>1
    <3>2. CASE s # {}
      <4>1. s \ {Pick(s)} \in D(n) /\ s \ {Pick(s)} \in D(n + 1)
        <5>1. s \in SUBSET S /\ Cardinality(s) \in Nat /\ Cardinality(s) <= n + 1
          BY <1>1
        <5>2. s \ {Pick(s)} \in SUBSET S /\ Cardinality(s \ {Pick(s)}) = Cardinality(s) - 1
          BY <1>3, <3>2, <5>1
        <5>3. QED
          BY <5>1, <5>2
      <4>2. h[s \ {Pick(s)}] = g[s \ {Pick(s)}]
        BY <4>1
      <4>3. h[s] = f[Pick(s)] + g[s \ {Pick(s)}]
        <5>1. CASE Cardinality(s) <= n
          BY <2>1, <3>2, <5>1
        <5>2. CASE ~(Cardinality(s) <= n)
          BY <5>2
        <5>3. QED
          BY <5>1, <5>2
      <4>4. QED
        BY <3>2, <4>2, <4>3
    <3>3. QED
      BY <3>1, <3>2
  <2>3. h = [s \in D(n + 1) |-> h[s]]
    OBVIOUS
  <2>4. Fits(h, n + 1)
    <3> HIDE DEF h
    <3>1. QED
      BY <2>2, <2>3
  <2>5. QED
    <3> HIDE DEF h, Fits
    <3>1. QED
      BY <2>4
<1>6. Nat \subseteq P
  <2> HIDE DEF P
  <2>1. QED
    BY <1>4, <1>5, Inductive
<1>7. Cardinality(S) \in P /\ D(Cardinality(S)) = SUBSET S
  BY <1>1, <1>6, FS_Subset, FS_CardinalityType
<1>8. \E g : IsIter(g, f, S)
  BY <1>7 DEF IsIter
<1>9. QED
  BY <1>8 DEF Iter

\* Two recursions agree where their functions do.
LEMMA IterAgree ==
  ASSUME NEW S, NEW T, NEW f, NEW e, NEW g, NEW h, IsIter(g, f, S), IsIter(h, e, T),
         NEW s \in SUBSET S, s \in SUBSET T, IsFiniteSet(s), \A x \in s : f[x] = e[x]
  PROVE  g[s] = h[s]
<1> DEFINE N == {n \in Nat : \A r \in SUBSET s : Cardinality(r) = n => g[r] = h[r]}
<1>1. \A r \in SUBSET s : IsFiniteSet(r) /\ Cardinality(r) \in Nat
  BY FS_Subset, FS_CardinalityType
<1>2. ASSUME NEW r \in SUBSET s
      PROVE  /\ g[r] = IF r = {} THEN 0 ELSE f[Pick(r)] + g[r \ {Pick(r)}]
             /\ h[r] = IF r = {} THEN 0 ELSE e[Pick(r)] + h[r \ {Pick(r)}]
  BY DEF IsIter
<1>3. 0 \in N
  BY <1>1, <1>2, FS_EmptySet
<1>4. ASSUME NEW n \in Nat, n \in N PROVE n + 1 \in N
  <2>1. SUFFICES ASSUME NEW r \in SUBSET s, Cardinality(r) = n + 1 PROVE g[r] = h[r]
    OBVIOUS
  <2>2. r # {} /\ Pick(r) \in r
    BY <2>1, PickIn, FS_EmptySet
  <2>3. Cardinality(r \ {Pick(r)}) = n
    <3>1. IsFiniteSet(r)
      BY <1>1
    <3>2. Cardinality(r \ {Pick(r)}) = Cardinality(r) - 1
      BY <2>2, <3>1, OneLess
    <3>3. QED
      BY <2>1, <3>2
  <2>4. g[r \ {Pick(r)}] = h[r \ {Pick(r)}]
    BY <1>4, <2>3
  <2>5. QED
    BY <1>2, <2>2, <2>4
<1>5. Nat \subseteq N
  <2> HIDE DEF N
  <2>1. QED
    BY <1>3, <1>4, Inductive
<1>6. QED
  BY <1>1, <1>5

LEMMA SumAgree ==
  ASSUME NEW S, IsFiniteSet(S), NEW f, NEW e, \A x \in S : f[x] = e[x]
  PROVE  SumOn(f, S) = SumOn(e, S)
  BY IterExists, IterAgree, S \in SUBSET S DEF SumOn

LEMMA SumOnEmpty == ASSUME NEW f PROVE SumOn(f, {}) = 0
<1>1. IsIter(Iter(f, {}), f, {})
  BY IterExists, FS_EmptySet
<1>2. QED
  BY <1>1 DEF SumOn, IsIter

LEMMA SumPick ==
  ASSUME NEW S, IsFiniteSet(S), S # {}, NEW f
  PROVE  SumOn(f, S) = f[Pick(S)] + SumOn(f, S \ {Pick(S)})
<1> DEFINE R == S \ {Pick(S)}
<1>1. IsFiniteSet(R) /\ R \in SUBSET S
  BY FS_Subset
<1>2. Iter(f, S)[S] = f[Pick(S)] + Iter(f, S)[R]
  <2>1. IsIter(Iter(f, S), f, S) /\ S \in SUBSET S
    BY IterExists
  <2>2. QED
    BY <2>1 DEF IsIter
<1>3. Iter(f, S)[R] = Iter(f, R)[R]
  BY <1>1, IterExists, IterAgree
<1>4. QED
  BY <1>2, <1>3 DEF SumOn

-----------------------------------------------------------------------------
Integral(f, S) == \A x \in S : f[x] \in Int

\* Any element may be taken out first.
LEMMA SumTakesAny ==
  ASSUME NEW S, IsFiniteSet(S), NEW f, Integral(f, S)
  PROVE  /\ SumOn(f, S) \in Int
         /\ \A x \in S : SumOn(f, S) = f[x] + SumOn(f, S \ {x})
<1> DEFINE Good(T) == /\ SumOn(f, T) \in Int
                      /\ \A x \in T : SumOn(f, T) = f[x] + SumOn(f, T \ {x})
           N == {n \in Nat : \A T \in SUBSET S : Cardinality(T) <= n => Good(T)}
<1>1. \A T \in SUBSET S : IsFiniteSet(T) /\ Cardinality(T) \in Nat
  BY FS_Subset, FS_CardinalityType
<1>2. 0 \in N
  <2>1. \A T \in SUBSET S : Cardinality(T) <= 0 => T = {}
    BY <1>1, FS_EmptySet
  <2>2. Good({})
    BY SumOnEmpty
  <2>3. QED
    BY <2>1, <2>2
<1>3. ASSUME NEW n \in Nat, n \in N PROVE n + 1 \in N
  <2>1. SUFFICES ASSUME NEW T \in SUBSET S, Cardinality(T) = n + 1 PROVE Good(T)
    BY <1>1, <1>3
  <2>2. IsFiniteSet(T) /\ T # {}
    BY <1>1, <2>1, FS_EmptySet
  <2> DEFINE p == Pick(T)
  <2>3. p \in T
    BY <2>2, PickIn
  <2> HIDE DEF p
  <2>4. \A x \in T : /\ T \ {x} \in SUBSET S /\ IsFiniteSet(T \ {x})
                     /\ Cardinality(T \ {x}) = n
    <3>1. SUFFICES ASSUME NEW x \in T
                   PROVE  IsFiniteSet(T \ {x}) /\ Cardinality(T \ {x}) = n
      OBVIOUS
    <3>2. QED
      BY <2>1, <2>2, OneLess
  <2>5. \A x \in T : Good(T \ {x})
    <3>1. SUFFICES ASSUME NEW x \in T PROVE Good(T \ {x})
      OBVIOUS
    <3>2. T \ {x} \in SUBSET S /\ Cardinality(T \ {x}) <= n
      BY <2>4, SMTT(30)
    <3>3. QED
      BY <1>3, <3>2
  <2>6. SumOn(f, T) = f[p] + SumOn(f, T \ {p})
    BY <2>2, SumPick DEF p
  <2>7. f[p] \in Int /\ \A x \in T : f[x] \in Int /\ SumOn(f, T \ {x}) \in Int
    BY <2>3, <2>5 DEF Integral
  <2>8. ASSUME NEW x \in T, x # p PROVE SumOn(f, T) = f[x] + SumOn(f, T \ {x})
    <3>1. SumOn(f, T \ {p}) = f[x] + SumOn(f, (T \ {p}) \ {x})
      BY <2>3, <2>5, <2>8
    <3>2. SumOn(f, T \ {x}) = f[p] + SumOn(f, (T \ {x}) \ {p})
      BY <2>3, <2>5, <2>8
    <3>3. (T \ {p}) \ {x} = (T \ {x}) \ {p}
      OBVIOUS
    <3>4. SumOn(f, (T \ {x}) \ {p}) \in Int
      <4>1. IsFiniteSet(T \ {x}) /\ Cardinality(T \ {x}) = n /\ p \in T \ {x}
        BY <2>3, <2>4, <2>8
      <4>2. (T \ {x}) \ {p} \in SUBSET S /\ Cardinality((T \ {x}) \ {p}) = n - 1
        BY <4>1, OneLess
      <4>3. Good((T \ {x}) \ {p})
        BY <1>1, <1>3, <4>2
      <4>4. QED
        BY <4>3
    <3>5. f[x] \in Int /\ f[p] \in Int
      BY <2>7, <2>8
    <3>6. /\ SumOn(f, T) = f[p] + (f[x] + SumOn(f, (T \ {x}) \ {p}))
          /\ f[x] + SumOn(f, T \ {x}) = f[x] + (f[p] + SumOn(f, (T \ {x}) \ {p}))
      BY <2>6, <3>1, <3>2, <3>3
    <3>7. QED
      BY <3>4, <3>5, <3>6
  <2>9. QED
    BY <2>3, <2>6, <2>7, <2>8, SMTT(30)
<1>4. Nat \subseteq N
  <2> HIDE DEF N
  <2>1. QED
    BY <1>2, <1>3, Inductive
<1>5. QED
  BY <1>1, <1>4

LEMMA SumGrows ==
  ASSUME NEW T, IsFiniteSet(T), NEW x, x \notin T, NEW f, Integral(f, T \cup {x})
  PROVE  SumOn(f, T) \in Int /\ SumOn(f, T \cup {x}) = SumOn(f, T) + f[x]
<1>1. IsFiniteSet(T \cup {x}) /\ (T \cup {x}) \ {x} = T /\ Integral(f, T) /\ f[x] \in Int
  BY FS_AddElement DEF Integral
<1>2. SumOn(f, T) \in Int
  BY <1>1, SumTakesAny
<1> DEFINE U == T \cup {x}
<1>3. x \in U /\ IsFiniteSet(U) /\ Integral(f, U) /\ U \ {x} = T
  BY <1>1
<1> HIDE DEF U
<1>4. SumOn(f, U) = f[x] + SumOn(f, U \ {x})
  BY <1>3, SumTakesAny
<1>5. SumOn(f, U) = f[x] + SumOn(f, T)
  BY <1>3, <1>4
<1>6. SumOn(f, U) = SumOn(f, T) + f[x]
  BY <1>1, <1>2, <1>5
<1>7. QED
  BY <1>2, <1>6 DEF U

LEMMA SumIsNat ==
  ASSUME NEW S, IsFiniteSet(S), NEW f, \A x \in S : f[x] \in Nat
  PROVE  SumOn(f, S) \in Nat
<1> DEFINE P == {T \in SUBSET S : SumOn(f, T) \in Nat}
<1>1. {} \in P
  BY SumOnEmpty
<1>2. ASSUME NEW T \in SUBSET S, NEW x \in S, T \in P, x \notin T PROVE T \cup {x} \in P
  <2>1. IsFiniteSet(T) /\ Integral(f, T \cup {x})
    BY FS_Subset DEF Integral
  <2>2. SumOn(f, T \cup {x}) = SumOn(f, T) + f[x]
    BY <1>2, <2>1, SumGrows
  <2>3. QED
    BY <1>2, <2>2
<1>3. S \in P
  <2> HIDE DEF P
  <2>1. QED
    BY <1>1, <1>2, FiniteInductive
<1>4. QED
  BY <1>3

\* A sum of sums, and of a sum and a multiple, element by element.
LEMMA SumIsLinear ==
  ASSUME NEW S, IsFiniteSet(S), NEW f, NEW g, NEW h, NEW c \in Int,
         Integral(f, S), Integral(g, S), \A x \in S : h[x] = f[x] + c * g[x]
  PROVE  SumOn(h, S) = SumOn(f, S) + c * SumOn(g, S)
<1> DEFINE P == {T \in SUBSET S : SumOn(h, T) = SumOn(f, T) + c * SumOn(g, T)}
<1>1. {} \in P
  BY SumOnEmpty
<1>2. ASSUME NEW T \in SUBSET S, NEW x \in S, T \in P, x \notin T PROVE T \cup {x} \in P
  <2>1. IsFiniteSet(T) /\ Integral(f, T \cup {x}) /\ Integral(g, T \cup {x})
    BY FS_Subset DEF Integral
  <2>2. Integral(h, T \cup {x}) /\ f[x] \in Int /\ g[x] \in Int
    BY <2>1 DEF Integral
  <2>3. /\ SumOn(f, T) \in Int /\ SumOn(f, T \cup {x}) = SumOn(f, T) + f[x]
        /\ SumOn(g, T) \in Int /\ SumOn(g, T \cup {x}) = SumOn(g, T) + g[x]
        /\ SumOn(h, T) \in Int /\ SumOn(h, T \cup {x}) = SumOn(h, T) + h[x]
    BY <1>2, <2>1, <2>2, SumGrows
  <2>4. c * (SumOn(g, T) + g[x]) = c * SumOn(g, T) + c * g[x]
    BY <2>2, <2>3
  <2>5. c * SumOn(g, T) \in Int /\ c * g[x] \in Int
    BY <2>2, <2>3
  <2>6. SumOn(h, T \cup {x}) = SumOn(f, T \cup {x}) + c * SumOn(g, T \cup {x})
    BY <1>2, <2>2, <2>3, <2>4, <2>5
  <2>7. QED
    BY <2>6
<1>3. S \in P
  <2> HIDE DEF P
  <2>1. QED
    BY <1>1, <1>2, FiniteInductive
<1>4. QED
  BY <1>3

LEMMA SumOfZeros ==
  ASSUME NEW S, IsFiniteSet(S), NEW f, \A x \in S : f[x] = 0
  PROVE  SumOn(f, S) = 0
<1>1. Integral(f, S) /\ SumOn(f, S) \in Int
  BY SumTakesAny DEF Integral
<1>2. SumOn(f, S) = SumOn(f, S) + 1 * SumOn(f, S)
  BY <1>1, SumIsLinear
<1>3. \A n \in Int : n = n + 1 * n => n = 0
  OBVIOUS
<1>4. QED
  BY <1>1, <1>2, <1>3

\* Sums keep the order of their terms, and equal sums leave no room between.
LEMMA SumIsMonotone ==
  ASSUME NEW S, IsFiniteSet(S), NEW f, NEW g, Integral(f, S), Integral(g, S),
         \A x \in S : f[x] <= g[x]
  PROVE  /\ SumOn(f, S) \in Int /\ SumOn(g, S) \in Int /\ SumOn(f, S) <= SumOn(g, S)
         /\ SumOn(f, S) = SumOn(g, S) => \A x \in S : f[x] = g[x]
<1> DEFINE d == [x \in S |-> g[x] - f[x]]
<1>1. /\ SumOn(f, S) \in Int /\ SumOn(g, S) \in Int
      /\ \A x \in S : d[x] \in Nat /\ f[x] \in Int /\ g[x] = f[x] + 1 * d[x]
  BY SumTakesAny DEF Integral
<1> HIDE DEF d
<1>2. Integral(d, S) /\ SumOn(d, S) \in Nat
  BY <1>1, SumIsNat DEF Integral
<1>3. SumOn(g, S) = SumOn(f, S) + 1 * SumOn(d, S)
  BY <1>1, <1>2, SumIsLinear
<1>4. ASSUME SumOn(f, S) = SumOn(g, S), NEW x \in S PROVE f[x] = g[x]
  <2>1. SumOn(d, S) = 0
    BY <1>1, <1>2, <1>3, <1>4
  <2>2. SumOn(d, S) = d[x] + SumOn(d, S \ {x})
    BY <1>2, SumTakesAny
  <2>3. SumOn(d, S \ {x}) \in Nat
    BY <1>1, SumIsNat, FS_Subset
  <2>4. d[x] = 0
    BY <1>1, <2>1, <2>2, <2>3
  <2>5. QED
    BY <1>1, <2>4
<1>5. QED
  BY <1>1, <1>2, <1>3, <1>4

LEMMA SumExcept ==
  ASSUME NEW S, IsFiniteSet(S), NEW f \in [S -> Int], NEW x \in S, NEW v \in Int
  PROVE  SumOf([f EXCEPT ![x] = v]) = SumOf(f) - f[x] + v
<1> DEFINE g == [f EXCEPT ![x] = v]
           R == S \ {x}
<1>1. g \in [S -> Int] /\ g[x] = v /\ \A y \in R : g[y] = f[y]
  OBVIOUS
<1> HIDE DEF g
<1>2. Integral(f, S) /\ Integral(g, S) /\ Integral(f, R) /\ IsFiniteSet(R)
  BY <1>1, FS_Subset DEF Integral
<1>3. SumOn(g, S) = g[x] + SumOn(g, R) /\ SumOn(f, S) = f[x] + SumOn(f, R)
  BY <1>2, SumTakesAny
<1>4. SumOn(g, R) = SumOn(f, R) /\ SumOn(f, R) \in Int
  BY <1>1, <1>2, SumAgree, SumTakesAny
<1>5. SumOf(g) = SumOn(g, S) /\ SumOf(f) = SumOn(f, S)
  BY <1>1, SumOfOn
<1>6. SumOf(g) = SumOf(f) - f[x] + v
  BY <1>1, <1>3, <1>4, <1>5
<1>7. QED
  BY <1>6 DEF g

\* A sum over the places of distinct elements is the sum over the elements,
\* and zeros elsewhere add nothing.
LEMMA SumReindexed ==
  ASSUME NEW S, IsFiniteSet(S), NEW f, Integral(f, S),
         NEW I, IsFiniteSet(I), NEW b \in [I -> S], \A i, j \in I : b[i] = b[j] => i = j,
         \A x \in S : (\A i \in I : b[i] # x) => f[x] = 0
  PROVE  SumOn([i \in I |-> f[b[i]]], I) = SumOn(f, S)
<1> DEFINE e == [i \in I |-> f[b[i]]]
           Img(J) == {x \in S : \E i \in J : b[i] = x}
           P == {J \in SUBSET I : SumOn(e, J) = SumOn(f, Img(J))}
<1>1. \A J \in SUBSET I : IsFiniteSet(J) /\ IsFiniteSet(Img(J)) /\ Integral(f, Img(J))
  BY FS_Subset DEF Integral
<1>2. \A i \in I : e[i] = f[b[i]] /\ e[i] \in Int
  BY DEF Integral
<1> HIDE DEF e
<1>3. {} \in P
  <2>1. Img({}) = {}
    OBVIOUS
  <2>2. QED
    BY <2>1, SumOnEmpty
<1>4. ASSUME NEW J \in SUBSET I, NEW i \in I, J \in P, i \notin J PROVE J \cup {i} \in P
  <2>1. Img(J \cup {i}) = Img(J) \cup {b[i]} /\ b[i] \notin Img(J) /\ b[i] \in S
    BY <1>4
  <2>2. SumOn(e, J \cup {i}) = SumOn(e, J) + e[i]
    <3>1. Integral(e, J \cup {i}) /\ IsFiniteSet(J)
      BY <1>1, <1>2 DEF Integral
    <3>2. QED
      BY <1>4, <3>1, SumGrows
  <2>3. SumOn(f, Img(J) \cup {b[i]}) = SumOn(f, Img(J)) + f[b[i]]
    <3>1. IsFiniteSet(Img(J)) /\ Integral(f, Img(J) \cup {b[i]})
      BY <1>1, <2>1 DEF Integral
    <3> HIDE DEF Img
    <3>2. QED
      BY <2>1, <3>1, SumGrows
  <2>4. QED
    BY <1>2, <1>4, <2>1, <2>2, <2>3
<1>5. I \in P
  <2> HIDE DEF P
  <2>1. QED
    BY <1>3, <1>4, FiniteInductive
<1> DEFINE Q == {T \in SUBSET S : SumOn(f, Img(I)) = SumOn(f, Img(I) \cup T)}
<1>6. {} \in Q
  BY Img(I) \cup {} = Img(I)
<1>7. ASSUME NEW T \in SUBSET S, NEW x \in S, T \in Q, x \notin T PROVE T \cup {x} \in Q
  <2> DEFINE U == Img(I) \cup T
  <2>1. IsFiniteSet(U) /\ Integral(f, U \cup {x}) /\ Img(I) \cup (T \cup {x}) = U \cup {x}
    BY FS_Subset DEF Integral
  <2>2. CASE x \in U
    BY <1>7, <2>1, <2>2, U \cup {x} = U
  <2>3. CASE x \notin U
    <3>1. f[x] = 0
      BY <2>3
    <3>2. SumOn(f, U) \in Int /\ SumOn(f, U \cup {x}) = SumOn(f, U) + f[x]
      <4> HIDE DEF U
      <4>1. QED
        BY <2>1, <2>3, SumGrows
    <3>3. SumOn(f, U) = SumOn(f, U \cup {x})
      <4> HIDE DEF U
      <4>1. QED
        BY <3>1, <3>2
    <3>4. SumOn(f, Img(I)) = SumOn(f, U)
      BY <1>7
    <3>5. QED
      BY <2>1, <3>3, <3>4
  <2>4. QED
    BY <2>2, <2>3
<1>8. S \in Q
  <2> HIDE DEF Q
  <2>1. QED
    BY <1>6, <1>7, FiniteInductive
<1>9. Img(I) \cup S = S
  OBVIOUS
<1>10. QED
  BY <1>5, <1>8, <1>9 DEF e

-----------------------------------------------------------------------------
(* The splits.  Places are numbers, weights are natural numbers and the    *)
(* whole is their sum, as for purchaseBasket and for allocate.             *)

\* Quotient and remainder.
LEMMA Division ==
  ASSUME NEW a \in Nat, NEW b \in Nat \ {0}
  PROVE  /\ a \div b \in Nat /\ a % b \in 0 .. b - 1
         /\ a = b * (a \div b) + (a % b)
  OBVIOUS

LEMMA ProductIsNat == \A a, b \in Nat : a * b \in Nat
  OBVIOUS

\* The first largest element is there and is what the scan finds.
LEMMA FirstLargestFinds ==
  ASSUME NEW D \in SUBSET Int, IsFiniteSet(D), D # {}, NEW r \in [D -> Int]
  PROVE  /\ FirstLargest(r) \in D
         /\ \A j \in D : r[j] < r[FirstLargest(r)]
                         \/ (r[j] = r[FirstLargest(r)] /\ FirstLargest(r) <= j)
<1> DEFINE Tops(T, i) == \A j \in T : r[j] < r[i] \/ (r[j] = r[i] /\ i <= j)
           P == {T \in SUBSET D : T # {} => \E i \in T : Tops(T, i)}
<1>1. {} \in P
  OBVIOUS
<1>2. ASSUME NEW T \in SUBSET D, NEW x \in D, T \in P, x \notin T PROVE T \cup {x} \in P
  <2>1. CASE T = {}
    <3>1. Tops(T \cup {x}, x)
      BY <2>1
    <3>2. QED
      BY <3>1
  <2>2. CASE T # {}
    <3>1. PICK i \in T : Tops(T, i)
      BY <1>2, <2>2
    <3>2. /\ i \in Int /\ x \in Int /\ r[i] \in Int /\ r[x] \in Int
          /\ \A j \in T : j \in Int /\ r[j] \in Int
      OBVIOUS
    <3>3. CASE r[x] < r[i] \/ (r[x] = r[i] /\ i <= x)
      <4>1. Tops(T \cup {x}, i)
        BY <3>1, <3>3
      <4>2. QED
        BY <4>1
    <3>4. CASE r[i] < r[x] \/ (r[x] = r[i] /\ x <= i)
      <4>1. Tops(T \cup {x}, x)
        BY <3>1, <3>2, <3>4
      <4>2. QED
        BY <4>1
    <3>5. QED
      BY <3>2, <3>3, <3>4
  <2>3. QED
    BY <2>1, <2>2
<1>3. D \in P
  <2> HIDE DEF P
  <2>1. QED
    BY <1>1, <1>2, FiniteInductive
<1>4. \E i \in D : Tops(D, i)
  BY <1>3
<1>5. DOMAIN r = D
  OBVIOUS
<1>6. QED
  BY <1>4, <1>5 DEF FirstLargest

\* The loop: its recursion has a solution.
IsHandout(h, start, owed) ==
  h = [k \in 0 .. owed |-> IF k = 0 THEN start ELSE HandOut(h[k - 1])]

LEMMA HandoutExists ==
  ASSUME NEW start, NEW owed \in Nat
  PROVE  \E h : IsHandout(h, start, owed)
<1> DEFINE P == {n \in Nat : \E h : IsHandout(h, start, n)}
<1>1. 0 \in P
  <2>1. IsHandout([k \in 0 .. 0 |-> start], start, 0)
    BY DEF IsHandout
  <2>2. QED
    BY <2>1
<1>2. ASSUME NEW n \in Nat, n \in P PROVE n + 1 \in P
  <2>1. PICK h : IsHandout(h, start, n)
    BY <1>2
  <2> DEFINE g == [k \in 0 .. n + 1 |-> IF k <= n THEN h[k] ELSE HandOut(h[k - 1])]
  <2>2. ASSUME NEW k \in 0 .. n + 1
        PROVE  g[k] = IF k = 0 THEN start ELSE HandOut(g[k - 1])
    <3>1. CASE k <= n
      <4>1. h[k] = IF k = 0 THEN start ELSE HandOut(h[k - 1])
        BY <2>1, <3>1 DEF IsHandout
      <4>2. g[k] = h[k] /\ (k # 0 => g[k - 1] = h[k - 1])
        BY <3>1
      <4>3. QED
        BY <4>1, <4>2
    <3>2. CASE ~(k <= n)
      <4>1. k # 0 /\ g[k] = HandOut(h[k - 1]) /\ g[k - 1] = h[k - 1]
        BY <3>2
      <4>2. QED
        BY <4>1
    <3>3. QED
      BY <3>1, <3>2
  <2>3. g = [k \in 0 .. n + 1 |-> g[k]]
    OBVIOUS
  <2>4. IsHandout(g, start, n + 1)
    <3> HIDE DEF g
    <3>1. QED
      BY <2>2, <2>3 DEF IsHandout
  <2>5. QED
    BY <2>4
<1>3. Nat \subseteq P
  <2> HIDE DEF P
  <2>1. QED
    BY <1>1, <1>2, Inductive
<1>4. QED
  BY <1>3

\* The state of the loop after k units: S got one each.
AfterUnits(state, S, D, floors, remainders, whole, k) ==
  /\ S \in SUBSET D /\ Cardinality(S) = k
  /\ state.spend = [i \in D |-> floors[i] + (IF i \in S THEN 1 ELSE 0)]
  /\ state.residue = [i \in D |-> IF i \in S THEN 0 ELSE remainders[i]]
  /\ \A i \in S : remainders[i] > 0
  /\ \A i \in S, j \in D \ S : Precedes(remainders, i, j)
  /\ SumOn(state.spend, D) = SumOn(floors, D) + k
  /\ SumOn(state.residue, D) + whole * k >= SumOn(remainders, D)

\* As long as a unit is owed a residue is left, so the largest one belongs to a
\* place that got none yet.
LEMMA HandOutGivesNext ==
  ASSUME NEW D \in SUBSET Int, IsFiniteSet(D), NEW whole \in Nat, NEW k \in Nat,
         NEW floors \in [D -> Nat], NEW remainders \in [D -> 0 .. whole - 1],
         NEW state, NEW S, AfterUnits(state, S, D, floors, remainders, whole, k),
         whole * k < SumOn(remainders, D)
  PROVE  \E T : AfterUnits(HandOut(state), T, D, floors, remainders, whole, k + 1)
<1> DEFINE spend == state.spend
           residue == state.residue
           best == FirstLargest(residue)
           T == S \cup {best}
           next == HandOut(state)
<1>1. /\ S \in SUBSET D /\ Cardinality(S) = k /\ IsFiniteSet(S)
      /\ spend \in [D -> Nat] /\ residue \in [D -> Nat]
      /\ \A i \in D : /\ spend[i] = floors[i] + (IF i \in S THEN 1 ELSE 0)
                      /\ residue[i] = IF i \in S THEN 0 ELSE remainders[i]
                      /\ remainders[i] \in Nat /\ remainders[i] < whole
      /\ \A i \in S : remainders[i] > 0
      /\ \A i \in S, j \in D \ S : Precedes(remainders, i, j)
  <2>1. S \in SUBSET D /\ Cardinality(S) = k /\ IsFiniteSet(S)
    BY FS_Subset DEF AfterUnits
  <2>2. /\ spend = [i \in D |-> floors[i] + (IF i \in S THEN 1 ELSE 0)]
        /\ residue = [i \in D |-> IF i \in S THEN 0 ELSE remainders[i]]
    BY DEF AfterUnits
  <2>3. \A i \in D : floors[i] \in Nat /\ remainders[i] \in Nat /\ remainders[i] < whole
    OBVIOUS
  <2> HIDE DEF spend, residue
  <2>4. spend \in [D -> Nat] /\ residue \in [D -> Nat]
    BY <2>2, <2>3
  <2>5. QED
    BY <2>1, <2>2, <2>3, <2>4 DEF AfterUnits
<1>2. /\ SumOn(spend, D) = SumOn(floors, D) + k
      /\ SumOn(residue, D) + whole * k >= SumOn(remainders, D)
      /\ SumOn(residue, D) \in Nat /\ SumOn(remainders, D) \in Nat /\ SumOn(floors, D) \in Nat
  BY <1>1, SumIsNat DEF AfterUnits
<1>3. next = [spend |-> [spend EXCEPT ![best] = spend[best] + 1],
              residue |-> [residue EXCEPT ![best] = 0]]
  BY DEF HandOut
<1> HIDE DEF spend, residue, next
<1>4. PICK p \in D : residue[p] # 0
  <2>1. SumOn(residue, D) # 0
    <3>1. whole * k \in Nat
      BY ProductIsNat
    <3>2. QED
      BY <1>2, <3>1
  <2>2. QED
    BY <2>1, SumOfZeros
<1>5. /\ best \in D
      /\ \A j \in D : residue[j] < residue[best] \/ (residue[j] = residue[best] /\ best <= j)
  <2>1. residue \in [D -> Int]
    BY <1>1
  <2>2. QED
    BY <1>4, <2>1, FirstLargestFinds
<1> HIDE DEF best
<1>6. residue[best] > 0
  BY <1>1, <1>4, <1>5
<1>7. best \notin S /\ residue[best] = remainders[best] /\ remainders[best] > 0
  BY <1>1, <1>5, <1>6
<1>8. T \in SUBSET D /\ Cardinality(T) = k + 1
  BY <1>1, <1>5, <1>7, FS_AddElement
<1>9. next.spend = [i \in D |-> floors[i] + (IF i \in T THEN 1 ELSE 0)]
  <2>1. ASSUME NEW i \in D
        PROVE  [spend EXCEPT ![best] = spend[best] + 1][i] = floors[i] + (IF i \in T THEN 1 ELSE 0)
    <3>1. floors[i] \in Nat
      OBVIOUS
    <3>2. CASE i = best
      BY <1>1, <1>5, <1>7, <3>1, <3>2
    <3>3. CASE i # best
      BY <1>1, <3>3
    <3>4. QED
      BY <3>2, <3>3
  <2>2. QED
    BY <1>1, <1>3, <2>1
<1>10. next.residue = [i \in D |-> IF i \in T THEN 0 ELSE remainders[i]]
  BY <1>1, <1>3
<1>11. \A i \in T : remainders[i] > 0
  BY <1>1, <1>7
<1>12. ASSUME NEW i \in T, NEW j \in D \ T PROVE Precedes(remainders, i, j)
  <2>1. CASE i \in S
    BY <1>1, <1>12, <2>1
  <2>2. CASE i = best
    <3>1. j # best /\ residue[j] = remainders[j] /\ j \in Int /\ best \in Int
      BY <1>1, <1>5, <1>12
    <3>2. remainders[j] < remainders[best] \/ (remainders[j] = remainders[best] /\ best <= j)
      BY <1>5, <1>7, <1>12, <3>1
    <3>3. QED
      BY <1>1, <1>5, <2>2, <3>1, <3>2 DEF Precedes
  <2>3. QED
    BY <1>12, <2>1, <2>2
<1>13. \A f \in [D -> Int], v \in Int : SumOf([f EXCEPT ![best] = v]) = SumOf(f) - f[best] + v
  BY <1>5, SumExcept
<1>14. SumOn(next.spend, D) = SumOn(floors, D) + (k + 1)
  <2>1. spend \in [D -> Int] /\ spend[best] \in Int /\ spend[best] + 1 \in Int
    BY <1>1, <1>5
  <2>2. SumOf([spend EXCEPT ![best] = spend[best] + 1]) = SumOf(spend) - spend[best] + (spend[best] + 1)
    BY <1>13, <2>1
  <2>3. SumOf(spend) = SumOn(spend, D) /\ SumOf(next.spend) = SumOn(next.spend, D)
    BY <1>1, <1>3, SumOfOn
  <2>4. SumOn(next.spend, D) = SumOn(spend, D) - spend[best] + (spend[best] + 1)
    BY <1>3, <2>2, <2>3
  <2>5. QED
    BY <1>2, <2>1, <2>4
<1>15. SumOn(next.residue, D) + whole * (k + 1) >= SumOn(remainders, D)
  <2>1. residue \in [D -> Int] /\ residue[best] \in Nat /\ residue[best] < whole
    BY <1>1, <1>5, <1>7
  <2> HIDE DEF T
  <2>2. SumOf([residue EXCEPT ![best] = 0]) = SumOf(residue) - residue[best] + 0
    BY <1>13, <2>1, 0 \in Int, Zenon
  <2>3. SumOf(residue) = SumOn(residue, D) /\ SumOf(next.residue) = SumOn(next.residue, D)
    BY <1>1, <1>3, SumOfOn
  <2>4. SumOn(next.residue, D) = SumOn(residue, D) - residue[best]
    BY <1>2, <1>3, <2>1, <2>2, <2>3
  <2>5. whole * (k + 1) = whole * k + whole /\ whole * k \in Nat
    BY ProductIsNat
  <2>6. QED
    BY <1>2, <2>1, <2>4, <2>5
<1>16. AfterUnits(next, T, D, floors, remainders, whole, k + 1)
  BY <1>8, <1>9, <1>10, <1>11, <1>12, <1>14, <1>15 DEF AfterUnits
<1>17. QED
  BY <1>16 DEF next

\* The exact shares are the floors and the remainders over the whole.
AddUp(floors, remainders, D, amount, weights, whole) ==
  /\ floors \in [D -> Nat] /\ remainders \in [D -> 0 .. whole - 1]
  /\ \A i \in D : amount * weights[i] = whole * floors[i] + remainders[i]
  /\ SumOn(floors, D) \in Nat /\ SumOn(remainders, D) \in Nat
  /\ amount * whole = whole * SumOn(floors, D) + SumOn(remainders, D)

LEMMA SharesAddUp ==
  ASSUME NEW D, IsFiniteSet(D), NEW weights \in [D -> Nat],
         NEW amount \in Nat, NEW whole \in Nat \ {0}, SumOf(weights) = whole
  PROVE  AddUp(Floors(amount, weights, whole), Remainders(amount, weights, whole),
               D, amount, weights, whole)
<1> DEFINE floors == Floors(amount, weights, whole)
           remainders == Remainders(amount, weights, whole)
           shares == [i \in D |-> amount * weights[i]]
           zeros == [i \in D |-> 0]
<1>1. /\ floors = [i \in D |-> (amount * weights[i]) \div whole]
      /\ remainders = [i \in D |-> (amount * weights[i]) % whole]
  BY DEF Floors, Remainders
<1> HIDE DEF floors, remainders
<1>2. ASSUME NEW i \in D
      PROVE  /\ amount * weights[i] \in Nat
             /\ (amount * weights[i]) \div whole \in Nat
             /\ (amount * weights[i]) % whole \in 0 .. whole - 1
             /\ amount * weights[i] = whole * ((amount * weights[i]) \div whole)
                                      + ((amount * weights[i]) % whole)
  BY ProductIsNat, Division
<1>3. /\ floors \in [D -> Nat] /\ remainders \in [D -> 0 .. whole - 1]
      /\ \A i \in D : amount * weights[i] = whole * floors[i] + remainders[i]
  BY <1>1, <1>2
<1>4. \A i \in D : floors[i] \in Nat /\ remainders[i] \in Nat
  BY <1>3
<1>5. /\ Integral(floors, D) /\ Integral(remainders, D)
      /\ Integral(weights, D) /\ Integral(zeros, D)
  BY <1>4 DEF Integral
<1>6. SumOn(floors, D) \in Nat /\ SumOn(remainders, D) \in Nat
  BY <1>4, SumIsNat
<1>7. \A i \in D : /\ shares[i] = remainders[i] + whole * floors[i]
                   /\ shares[i] = zeros[i] + amount * weights[i]
  <2>1. SUFFICES ASSUME NEW i \in D
                 PROVE  /\ amount * weights[i] = remainders[i] + whole * floors[i]
                        /\ amount * weights[i] = 0 + amount * weights[i]
    OBVIOUS
  <2>2. amount * weights[i] \in Nat /\ whole * floors[i] \in Nat /\ remainders[i] \in Nat
    BY <1>2, <1>4, ProductIsNat
  <2>3. QED
    BY <1>3, <2>2
<1>8. \A i \in D : zeros[i] = 0
  OBVIOUS
<1> HIDE DEF shares, zeros
<1>9. SumOn(shares, D) = SumOn(remainders, D) + whole * SumOn(floors, D)
  <2>1. \A c \in Int : (\A i \in D : shares[i] = remainders[i] + c * floors[i]) =>
          SumOn(shares, D) = SumOn(remainders, D) + c * SumOn(floors, D)
    BY <1>5, SumIsLinear
  <2>2. QED
    BY <1>7, <2>1
<1>10. SumOn(shares, D) = SumOn(zeros, D) + amount * SumOn(weights, D)
  <2>1. \A c \in Int : (\A i \in D : shares[i] = zeros[i] + c * weights[i]) =>
          SumOn(shares, D) = SumOn(zeros, D) + c * SumOn(weights, D)
    BY <1>5, SumIsLinear
  <2>2. QED
    BY <1>7, <2>1
<1>11. SumOn(zeros, D) = 0
  BY <1>8, SumOfZeros
<1>12. SumOn(weights, D) = whole
  BY SumOfOn
<1>13. amount * whole = whole * SumOn(floors, D) + SumOn(remainders, D)
  <2>1. whole * SumOn(floors, D) \in Nat /\ amount * whole \in Nat
    BY <1>6, ProductIsNat
  <2>2. SumOn(shares, D) = amount * whole
    BY <1>10, <1>11, <1>12, <2>1
  <2>3. QED
    BY <1>6, <1>9, <2>1, <2>2
<1>14. AddUp(floors, remainders, D, amount, weights, whole)
  BY <1>3, <1>6, <1>13 DEF AddUp
<1>15. QED
  BY <1>14 DEF floors, remainders

\* What the loop leaves: the places of a set that precedes all others have got
\* a unit on top of their floor, and everything is spent.
Favoured(S, D, amount, weights, whole) ==
  LET floors == Floors(amount, weights, whole)
      remainders == Remainders(amount, weights, whole)
      split == BuyerSplit(amount, weights, whole)
  IN  /\ S \in SUBSET D /\ Cardinality(S) = amount - SumOf(floors)
      /\ split = [i \in D |-> floors[i] + (IF i \in S THEN 1 ELSE 0)]
      /\ \A i \in S : remainders[i] > 0
      /\ \A i \in S, j \in D \ S : Precedes(remainders, i, j)
      /\ SumOf(split) = amount

\* Weights are indexed by numbers, finitely many.
ArePlaces(D) == D \in SUBSET Int /\ IsFiniteSet(D)

LEMMA BuyerSplitFavours ==
  ASSUME NEW D, ArePlaces(D), NEW weights \in [D -> Nat],
         NEW amount \in Nat, NEW whole \in Nat \ {0}, SumOf(weights) = whole
  PROVE  \E S : Favoured(S, D, amount, weights, whole)
<1> DEFINE floors == Floors(amount, weights, whole)
           remainders == Remainders(amount, weights, whole)
           owed == amount - SumOf(floors)
           start == [spend |-> floors, residue |-> remainders]
           h == CHOOSE g : IsHandout(g, start, owed)
           Done(k) == \E S : AfterUnits(h[k], S, D, floors, remainders, whole, k)
           N == {k \in Nat : k <= owed => Done(k)}
<1>0. IsFiniteSet(D)
  BY DEF ArePlaces
<1>1. /\ floors \in [D -> Nat] /\ remainders \in [D -> 0 .. whole - 1]
      /\ SumOn(floors, D) \in Nat /\ SumOn(remainders, D) \in Nat
      /\ amount * whole = whole * SumOn(floors, D) + SumOn(remainders, D)
  <2>1. AddUp(floors, remainders, D, amount, weights, whole)
    BY <1>0, SharesAddUp
  <2> HIDE DEF floors, remainders, N
  <2>2. QED
    BY <2>1 DEF AddUp
<1>2. BuyerSplit(amount, weights, whole) = h[owed].spend
  BY DEF BuyerSplit, IsHandout
<1> HIDE DEF floors, remainders
<1>3. SumOf(floors) = SumOn(floors, D)
  BY <1>1, SumOfOn
<1>4. /\ owed \in Nat /\ SumOn(remainders, D) = whole * owed
      /\ \A k \in Nat : k < owed => whole * k < SumOn(remainders, D)
  <2> DEFINE F == SumOn(floors, D)
             R == SumOn(remainders, D)
  <2>1. F \in Nat /\ R \in Nat /\ amount * whole = whole * F + R /\ owed = amount - F
    BY <1>1, <1>3
  <2> HIDE DEF F, R, owed
  <2>2. owed \in Int /\ amount = F + owed
    BY <2>1
  <2>3. amount * whole = whole * F + whole * owed
    BY <2>1, <2>2
  <2>4. whole * F \in Nat /\ whole * owed \in Int
    BY <2>1, <2>2
  <2>5. whole * owed = R
    BY <2>1, <2>3, <2>4
  <2>6. owed \in Nat
    <3>1. SUFFICES ASSUME owed <= -1 PROVE FALSE
      BY <2>2
    <3>2. whole * owed <= whole * (-1)
      BY <2>2, <3>1
    <3>3. QED
      BY <2>1, <2>5, <3>2
  <2>7. ASSUME NEW k \in Nat, k < owed PROVE whole * k < R
    <3>1. whole * (owed - k) = whole * owed - whole * k /\ whole * k \in Nat
      BY <2>6
    <3>2. owed - k \in Nat \ {0}
      BY <2>6, <2>7
    <3>3. whole * (owed - k) >= whole * 1
      BY <3>2
    <3>4. QED
      BY <2>1, <2>5, <3>1, <3>3
  <2>8. QED
    BY <2>5, <2>6, <2>7 DEF R
<1> HIDE DEF owed
<1>5. IsHandout(h, start, owed)
  <2> HIDE DEF start
  <2>1. QED
    BY <1>4, HandoutExists
<1> HIDE DEF h
<1>6. /\ h[0] = start
      /\ \A k \in Nat : k < owed => h[k + 1] = HandOut(h[k])
  <2>1. ASSUME NEW k \in Nat, k < owed PROVE h[k + 1] = HandOut(h[k])
    <3>1. k + 1 \in 0 .. owed /\ k + 1 # 0 /\ (k + 1) - 1 = k
      BY <1>4, <2>1
    <3>2. h[k + 1] = HandOut(h[(k + 1) - 1])
      BY <1>5, <3>1 DEF IsHandout
    <3>3. QED
      BY <3>1, <3>2
  <2>2. 0 \in 0 .. owed
    BY <1>4
  <2>3. h[0] = start
    BY <1>5, <2>2 DEF IsHandout
  <2>4. QED
    BY <2>1, <2>3
<1>7. 0 \in N
  <2>1. {} \in SUBSET D /\ Cardinality({}) = 0
    BY FS_EmptySet
  <2>2. /\ floors = [i \in D |-> floors[i] + (IF i \in {} THEN 1 ELSE 0)]
        /\ remainders = [i \in D |-> IF i \in {} THEN 0 ELSE remainders[i]]
    BY <1>1
  <2>3. whole * 0 = 0 /\ 0 \in Nat
    OBVIOUS
  <2>4. AfterUnits(h[0], {}, D, floors, remainders, whole, 0)
    BY <1>1, <1>6, <2>1, <2>2, <2>3 DEF AfterUnits
  <2>5. QED
    BY <2>4
<1>8. ASSUME NEW k \in Nat, k \in N PROVE k + 1 \in N
  <2>1. SUFFICES ASSUME k + 1 <= owed PROVE Done(k + 1)
    OBVIOUS
  <2>2. k < owed /\ k <= owed
    BY <1>4, <2>1
  <2>3. PICK S : AfterUnits(h[k], S, D, floors, remainders, whole, k)
    BY <1>8, <2>2
  <2>4. \E T : AfterUnits(HandOut(h[k]), T, D, floors, remainders, whole, k + 1)
    BY <1>1, <1>4, <2>2, <2>3, HandOutGivesNext DEF ArePlaces
  <2>5. QED
    BY <1>6, <2>2, <2>4
<1>9. Nat \subseteq N
  <2> HIDE DEF N
  <2>1. QED
    BY <1>7, <1>8, Inductive
<1>10. PICK S : AfterUnits(h[owed], S, D, floors, remainders, whole, owed)
  BY <1>4, <1>9
<1> DEFINE split == BuyerSplit(amount, weights, whole)
<1>11. split = [i \in D |-> floors[i] + (IF i \in S THEN 1 ELSE 0)] /\ split = h[owed].spend
  BY <1>2, <1>10 DEF AfterUnits
<1> HIDE DEF split
<1>12. SumOf(split) = amount
  <2>1. SumOf(split) = SumOn(split, D)
    BY <1>11, SumOfOn
  <2>2. SumOn(split, D) = SumOn(floors, D) + owed
    BY <1>10, <1>11 DEF AfterUnits
  <2>3. QED
    BY <1>1, <1>3, <2>1, <2>2 DEF owed
<1>13. Favoured(S, D, amount, weights, whole)
  BY <1>10, <1>11, <1>12 DEF Favoured, AfterUnits, split, floors, remainders, owed
<1>14. QED
  BY <1>13

-----------------------------------------------------------------------------
\* Equal or larger weights have equal or larger floors, and then remainders.
LEMMA LargerWeight ==
  ASSUME NEW a \in Nat, NEW v \in Nat, NEW w \in Nat, v >= w, NEW whole \in Nat \ {0},
         NEW f \in Nat, NEW g \in Nat, NEW r \in 0 .. whole - 1, NEW s \in 0 .. whole - 1,
         a * v = whole * f + r, a * w = whole * g + s
  PROVE  /\ f >= g /\ (f = g => r >= s)
         /\ v > w /\ f = g /\ r = s => a = 0
         /\ v = w => f = g /\ r = s
<1>1. a * v = a * w + a * (v - w) /\ a * (v - w) \in Nat /\ a * w \in Nat
  OBVIOUS
<1>2. ASSUME NEW m \in Nat, NEW n \in Nat, NEW d \in 0 .. whole - 1, NEW e \in 0 .. whole - 1,
             whole * m + d >= whole * n + e
      PROVE  m >= n
  <2>1. SUFFICES ASSUME m + 1 <= n PROVE FALSE
    OBVIOUS
  <2>2. whole * (m + 1) <= whole * n /\ whole * (m + 1) = whole * m + whole
    BY <2>1
  <2>3. whole * m \in Nat /\ whole * n \in Nat
    BY ProductIsNat
  <2>4. QED
    BY <1>2, <2>2, <2>3
<1>3. whole * f \in Nat /\ whole * g \in Nat
  BY ProductIsNat
<1>4. whole * f + r >= whole * g + s
  BY <1>1
<1>5. f >= g
  BY <1>2, <1>4
<1>6. f = g => r >= s
  BY <1>3, <1>4
<1>7. ASSUME v > w, f = g, r = s PROVE a = 0
  <2>1. a * (v - w) = 0 /\ v - w \in Nat \ {0}
    BY <1>1, <1>3, <1>7
  <2>2. QED
    BY <2>1
<1>8. ASSUME v = w PROVE f = g /\ r = s
  <2>1. whole * g + s >= whole * f + r
    BY <1>3, <1>8
  <2>2. g >= f
    BY <1>2, <2>1
  <2>3. QED
    BY <1>3, <1>4, <1>5, <1>8, <2>1, <2>2
<1>9. QED
  BY <1>5, <1>6, <1>7, <1>8

\* Every unit is spent, each share within a unit of the exact one.
LEMMA FavouredIsExact ==
  ASSUME NEW D, ArePlaces(D), NEW weights \in [D -> Nat],
         NEW amount \in Nat, NEW whole \in Nat \ {0}, SumOf(weights) = whole,
         NEW S, Favoured(S, D, amount, weights, whole)
  PROVE  IsExactSplit(BuyerSplit(amount, weights, whole), amount, weights, whole)
<1> DEFINE floors == Floors(amount, weights, whole)
           remainders == Remainders(amount, weights, whole)
           split == BuyerSplit(amount, weights, whole)
<1>1. /\ split = [i \in D |-> floors[i] + (IF i \in S THEN 1 ELSE 0)]
      /\ \A i \in S : remainders[i] > 0
      /\ SumOf(split) = amount
  BY DEF Favoured
<1>2. IsFiniteSet(D)
  BY DEF ArePlaces
<1>3. AddUp(floors, remainders, D, amount, weights, whole)
  BY <1>2, SharesAddUp
<1> HIDE DEF floors, remainders, split
<1>4. /\ floors \in [D -> Nat] /\ remainders \in [D -> 0 .. whole - 1]
  BY <1>3 DEF AddUp
<1>5. \A i \in D : amount * weights[i] = whole * floors[i] + remainders[i]
  BY <1>3 DEF AddUp
<1>6. ASSUME NEW i \in D
      PROVE  LET error == split[i] * whole - amount * weights[i]
             IN  -whole < error /\ error < whole
  <2> DEFINE f == floors[i]
             r == remainders[i]
  <2>1. /\ f \in Nat /\ r \in 0 .. whole - 1 /\ amount * weights[i] = whole * f + r
        /\ split[i] = f + (IF i \in S THEN 1 ELSE 0) /\ (i \in S => r > 0)
    BY <1>1, <1>4, <1>5
  <2> HIDE DEF f, r
  <2>2. (f + 1) * whole = whole * f + whole /\ f * whole = whole * f /\ whole * f \in Nat
    BY <2>1, ProductIsNat
  <2>3. CASE i \in S
    BY <2>1, <2>2, <2>3
  <2>4. CASE i \notin S
    <3>1. split[i] = f
      BY <2>1, <2>4
    <3>2. QED
      BY <2>1, <2>2, <3>1
  <2>5. QED
    BY <2>3, <2>4
<1>7. IsExactSplit(split, amount, weights, whole)
  BY <1>1, <1>6 DEF IsExactSplit
<1>8. QED
  BY <1>7 DEF split

LEMMA FavouredIsWhole ==
  ASSUME NEW D, ArePlaces(D), NEW weights \in [D -> Nat],
         NEW amount \in Nat, NEW whole \in Nat \ {0}, SumOf(weights) = whole,
         NEW S, Favoured(S, D, amount, weights, whole)
  PROVE  BuyerSplit(amount, weights, whole) \in [D -> Nat]
<1>1. Floors(amount, weights, whole) \in [D -> Nat]
  <2>1. IsFiniteSet(D)
    BY DEF ArePlaces
  <2>2. QED
    BY <2>1, SharesAddUp DEF AddUp
<1>2. QED
  BY <1>1 DEF Favoured

\* Who weighs more gets no less, and of equals the earlier one.
LEMMA FavouredIsOrderly ==
  ASSUME NEW D, ArePlaces(D), NEW weights \in [D -> Nat],
         NEW amount \in Nat, NEW whole \in Nat \ {0}, SumOf(weights) = whole,
         NEW S, Favoured(S, D, amount, weights, whole)
  PROVE  IsOrderly(BuyerSplit(amount, weights, whole), weights)
<1> DEFINE floors == Floors(amount, weights, whole)
           remainders == Remainders(amount, weights, whole)
           split == BuyerSplit(amount, weights, whole)
<1>1. /\ split = [i \in D |-> floors[i] + (IF i \in S THEN 1 ELSE 0)]
      /\ \A i \in S : remainders[i] > 0
      /\ \A i \in S, j \in D \ S : Precedes(remainders, i, j)
  BY DEF Favoured
<1>2. IsFiniteSet(D) /\ \A i \in D : i \in Int
  BY DEF ArePlaces
<1>3. AddUp(floors, remainders, D, amount, weights, whole)
  BY <1>2, SharesAddUp
<1> HIDE DEF floors, remainders, split
<1>4. /\ floors \in [D -> Nat] /\ remainders \in [D -> 0 .. whole - 1]
  BY <1>3 DEF AddUp
<1>5. \A i \in D : amount * weights[i] = whole * floors[i] + remainders[i]
  BY <1>3 DEF AddUp
<1>6. ASSUME NEW i \in D, NEW j \in D, weights[i] > weights[j] \/ (weights[i] = weights[j] /\ i < j)
      PROVE  split[i] >= split[j]
  <2> DEFINE v == weights[i]
             w == weights[j]
             f == floors[i]
             g == floors[j]
             r == remainders[i]
             s == remainders[j]
  <2>1. /\ v \in Nat /\ w \in Nat /\ f \in Nat /\ g \in Nat
        /\ r \in 0 .. whole - 1 /\ s \in 0 .. whole - 1
        /\ amount * v = whole * f + r /\ amount * w = whole * g + s
    BY <1>4, <1>5
  <2>2. /\ split[i] = f + (IF i \in S THEN 1 ELSE 0) /\ split[j] = g + (IF j \in S THEN 1 ELSE 0)
        /\ (v > w \/ (v = w /\ i < j)) /\ i \in Int /\ j \in Int
    BY <1>1, <1>2, <1>6
  <2>3. j \in S /\ i \notin S => s > 0 /\ (s > r \/ (s = r /\ j < i))
    BY <1>1 DEF Precedes
  <2> HIDE DEF v, w, f, g, r, s
  <2>4. /\ f >= g /\ (f = g => r >= s)
        /\ v > w /\ f = g /\ r = s => amount = 0
        /\ v = w => f = g /\ r = s
    <3>1. v >= w
      BY <2>1, <2>2
    <3>2. QED
      BY <2>1, <3>1, LargerWeight
  <2>5. amount = 0 => r = 0 /\ s = 0
    <3>1. ASSUME amount = 0 PROVE r = 0 /\ s = 0
      <4>1. whole * f \in Nat /\ whole * g \in Nat /\ amount * v = 0 /\ amount * w = 0
        BY <2>1, <3>1, ProductIsNat
      <4>2. QED
        BY <2>1, <4>1
    <3>2. QED
      BY <3>1
  <2>6. QED
    BY <2>1, <2>2, <2>3, <2>4, <2>5
<1>7. DOMAIN weights = D
  OBVIOUS
<1>8. IsOrderly(split, weights)
  BY <1>6, <1>7 DEF IsOrderly
<1>9. QED
  BY <1>8 DEF split

\* The ranks of the sort below the units left over are the favoured places.
LEMMA FavouredIsRanked ==
  ASSUME NEW D, ArePlaces(D), NEW weights \in [D -> Nat],
         NEW amount \in Nat, NEW whole \in Nat \ {0}, SumOf(weights) = whole,
         NEW S, Favoured(S, D, amount, weights, whole)
  PROVE  IndexerSplit(amount, weights) = BuyerSplit(amount, weights, whole)
<1> DEFINE floors == Floors(amount, weights, whole)
           remainders == Remainders(amount, weights, whole)
           before(i) == {j \in D : Precedes(remainders, j, i)}
           owed == amount - SumOf(floors)
<1>1. /\ BuyerSplit(amount, weights, whole) = [i \in D |-> floors[i] + (IF i \in S THEN 1 ELSE 0)]
      /\ S \in SUBSET D /\ Cardinality(S) = owed
      /\ \A i \in S, j \in D \ S : Precedes(remainders, i, j)
  BY DEF Favoured
<1>2. IsFiniteSet(D) /\ \A i \in D : i \in Int
  BY DEF ArePlaces
<1>3. AddUp(floors, remainders, D, amount, weights, whole)
  BY <1>2, SharesAddUp
<1>4. DOMAIN weights = D
  OBVIOUS
<1>5. IndexerSplit(amount, weights) =
        [i \in D |-> floors[i] + (IF Cardinality(before(i)) < owed THEN 1 ELSE 0)]
  BY <1>4 DEF IndexerSplit
<1> HIDE DEF floors, remainders, owed
<1>6. \A i \in D : remainders[i] \in Int
  <2>1. remainders \in [D -> 0 .. whole - 1]
    BY <1>3 DEF AddUp
  <2>2. QED
    BY <2>1
<1>7. \A i, j \in D : ~(Precedes(remainders, i, j) /\ Precedes(remainders, j, i))
  BY <1>2, <1>6 DEF Precedes
<1>8. ASSUME NEW i \in D PROVE Cardinality(before(i)) < owed <=> i \in S
  <2>1. IsFiniteSet(before(i)) /\ IsFiniteSet(S) /\ Cardinality(before(i)) \in Nat /\ owed \in Nat
    <3>1. IsFiniteSet(before(i)) /\ IsFiniteSet(S)
      BY <1>1, <1>2, FS_Subset
    <3>2. QED
      BY <1>1, <3>1, FS_CardinalityType
  <2>2. CASE i \in S
    <3>1. ~ Precedes(remainders, i, i)
      BY <1>7
    <3>2. before(i) \subseteq S \ {i}
      BY <1>1, <1>7, <2>2, <3>1
    <3>3. IsFiniteSet(S \ {i}) /\ Cardinality(S \ {i}) = owed - 1
      BY <1>1, <2>1, <2>2, OneLess
    <3>4. Cardinality(before(i)) <= Cardinality(S \ {i})
      BY <3>2, <3>3, FS_Subset
    <3>5. QED
      BY <2>1, <2>2, <3>3, <3>4
  <2>3. CASE i \notin S
    <3>1. S \subseteq before(i)
      BY <1>1, <2>3
    <3>2. Cardinality(S) <= Cardinality(before(i))
      BY <2>1, <3>1, FS_Subset
    <3>3. QED
      BY <1>1, <2>1, <2>3, <3>2
  <2>4. QED
    BY <2>2, <2>3
<1> HIDE DEF before
<1>9. \A i \in D : (IF Cardinality(before(i)) < owed THEN 1 ELSE 0) = (IF i \in S THEN 1 ELSE 0)
  BY <1>8
<1>10. QED
  BY <1>1, <1>5, <1>9

\* For all amounts, numbers of places and weights: the loop of purchaseBasket
\* spends everything, each share within a wei of its weight, in order
\* (BasketBuyer.sol:101-125), and the sort of the indexer's allocate hands out
\* the very same units (snapshot.ts:64-102).
THEOREM SplitsAreExact ==
  ASSUME NEW n \in Nat, NEW weights \in [1 .. n -> Nat], NEW amount \in Nat, SumOf(weights) > 0
  PROVE  /\ BuyerSplit(amount, weights, SumOf(weights)) \in [1 .. n -> Nat]
         /\ IsExactSplit(BuyerSplit(amount, weights, SumOf(weights)), amount, weights, SumOf(weights))
         /\ IsOrderly(BuyerSplit(amount, weights, SumOf(weights)), weights)
         /\ IndexerSplit(amount, weights) = BuyerSplit(amount, weights, SumOf(weights))
<1> DEFINE D == 1 .. n
<1>1. IsFiniteSet(D) /\ ArePlaces(D)
  BY FS_Interval DEF ArePlaces
<1>2. weights \in [D -> Nat] /\ DOMAIN weights = D
  OBVIOUS
<1> HIDE DEF D
<1>3. SumOf(weights) \in Nat \ {0}
  <2>1. SumOn(weights, D) \in Nat
    BY <1>1, <1>2, SumIsNat
  <2>2. QED
    BY <1>2, <2>1, SumOfOn
<1>4. PICK S : Favoured(S, D, amount, weights, SumOf(weights))
  BY <1>1, <1>2, <1>3, BuyerSplitFavours
<1>5. QED
  BY <1>1, <1>2, <1>3, <1>4,
     FavouredIsWhole, FavouredIsExact, FavouredIsOrderly, FavouredIsRanked DEF D

=============================================================================
