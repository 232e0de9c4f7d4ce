----------------------------- MODULE SumLemmas -----------------------------
(***************************************************************************)
(* Facts about finite sets and sums that the proofs about accounts and     *)
(* progress need.  The library's induction theorems are about operators;   *)
(* these argue with a least counterexample, which is about a set.          *)
(***************************************************************************)
EXTENDS FiniteSetsExt, FiniteSetTheorems, TLAPS

Less == {p \in Nat \X Nat : p[1] < p[2]}

\* Natural numbers do not descend forever.
LEMMA LessWellFounded == IsWellFoundedOn(Less, Nat)
<1>1. OpToRel(<, Nat) = Less
    BY DEF OpToRel, Less
<1> QED BY <1>1, NatLessThanWellFounded, Zenon

\* A set of natural numbers that is not empty has a least one.
LEMMA LeastNat ==
    ASSUME NEW S \in SUBSET Nat, S # {}
    PROVE  \E x \in S : \A y \in S : x <= y
<1>1. \E x \in S : \A y \in S : ~ (<<y, x>> \in Less)
    BY LessWellFounded, WFMin
<1>2. PICK x \in S : \A y \in S : ~ (<<y, x>> \in Less)
    BY <1>1
<1>3. \A y \in S : ~(y < x)
    BY <1>2 DEF Less
<1> QED BY <1>3

\* Min gives it.
LEMMA MinNat ==
    ASSUME NEW S \in SUBSET Nat, S # {}
    PROVE  Min(S) \in S /\ \A y \in S : Min(S) <= y
BY LeastNat DEF Min

\* Induction over natural numbers, for the set T of the good ones.
LEMMA NatSetInduction ==
    ASSUME NEW T, 0 \in T, \A n \in Nat : n \in T => n + 1 \in T
    PROVE  Nat \subseteq T
<1> SUFFICES ASSUME NEW S, S = Nat \ T, S # {} PROVE FALSE
    OBVIOUS
<1>1. PICK x \in S : \A y \in S : x <= y
    BY LeastNat
<1>2. x \in Nat /\ x # 0
    BY <1>1
<1>3. x - 1 \in Nat /\ x - 1 \notin S
    BY <1>1, <1>2
<1> QED BY <1>2, <1>3

\* Induction over the subsets of a finite set, for the set T of the good ones.
LEMMA FiniteSetInduction ==
    ASSUME NEW S, IsFiniteSet(S), NEW T, {} \in T,
           \A s \in SUBSET S : s # {} /\ (\A x \in s : s \ {x} \in T) => s \in T
    PROVE  \A s \in SUBSET S : s \in T
<1> DEFINE Good == {n \in Nat : \A s \in SUBSET S : Cardinality(s) = n => s \in T}
<1>1. \A s \in SUBSET S : IsFiniteSet(s) /\ Cardinality(s) \in Nat
    BY FS_Subset, FS_CardinalityType
<1>2. 0 \in Good
    BY <1>1, FS_EmptySet
<1>3. ASSUME NEW n \in Nat, n \in Good PROVE n + 1 \in Good
    <2> SUFFICES ASSUME NEW s \in SUBSET S, Cardinality(s) = n + 1 PROVE s \in T
        OBVIOUS
    <2>1. s # {}
        <3>1. Cardinality({}) = 0 /\ n + 1 # 0
            BY FS_EmptySet
        <3> QED BY <3>1
    <2>2. ASSUME NEW x \in s PROVE s \ {x} \in T
        <3>1. Cardinality(s \ {x}) = n
            BY <1>1, FS_RemoveElement
        <3> QED BY <1>3, <3>1
    <2> QED BY <2>1, <2>2
<1>4. Nat \subseteq Good
    <2> HIDE DEF Good
    <2> QED BY <1>2, <1>3, NatSetInduction
<1> QED BY <1>1, <1>4

-----------------------------------------------------------------------------
\* What MapThenSumSet computes, of the values a function has on a set.
Sum(g, S) == MapThenSumSet(LAMBDA x : g[x], S)

Pick(s) == CHOOSE x \in s : TRUE
WithPicked(g, h, u) == IF u = {} THEN 0 ELSE g[Pick(u)] + h[u \ {Pick(u)}]
Sums(g, S, D) == {h \in [D -> Int] : \A u \in D : h[u] = WithPicked(g, h, u)}

\* The definition, unfolded.
LEMMA SumUnfolds ==
    ASSUME NEW g, NEW S
    PROVE  Sum(g, S) = (CHOOSE h : h = [u \in SUBSET S |-> WithPicked(g, h, u)])[S]
BY DEF Sum, MapThenSumSet, MapThenFoldSet, Pick, WithPicked

\* A chosen element is one.
LEMMA PickIn == ASSUME NEW s, s # {} PROVE Pick(s) \in s
BY DEF Pick

\* There is a function that sums up every subset.
LEMMA SumsExist ==
    ASSUME NEW S, IsFiniteSet(S), NEW g \in [S -> Int]
    PROVE  Sums(g, S, SUBSET S) # {}
<1> DEFINE Layer(n) == {u \in SUBSET S : Cardinality(u) <= n}
           Good == {n \in Nat : Sums(g, S, Layer(n)) # {}}
<1>1. \A s \in SUBSET S : IsFiniteSet(s) /\ Cardinality(s) \in Nat
    BY FS_Subset, FS_CardinalityType
<1>2. 0 \in Good
    <2>1. \A u \in Layer(0) : u = {}
        BY <1>1, FS_EmptySet
    <2>2. [u \in Layer(0) |-> 0] \in Sums(g, S, Layer(0))
        BY <2>1 DEF Sums, WithPicked
    <2> QED BY <2>2
<1>3. ASSUME NEW n \in Nat, n \in Good PROVE n + 1 \in Good
    <2>1. PICK h : h \in Sums(g, S, Layer(n))
        BY <1>3
    <2>2. ASSUME NEW u \in Layer(n + 1), u # {}
          PROVE  u \ {Pick(u)} \in Layer(n) /\ Pick(u) \in S
        <3>1. Pick(u) \in u
            BY <2>2, PickIn
        <3>2. Cardinality(u \ {Pick(u)}) = Cardinality(u) - 1
            BY <1>1, <3>1, FS_RemoveElement
        <3> QED BY <1>1, <3>1, <3>2
    <2>3. \A u \in Layer(n) : u \in Layer(n + 1)
        BY <1>1
    <2> DEFINE hh == [u \in Layer(n + 1) |-> WithPicked(g, h, u)]
    <2>4. h \in [Layer(n) -> Int] /\ \A u \in Layer(n) : h[u] = WithPicked(g, h, u)
        BY <2>1 DEF Sums
    <2>5. hh \in [Layer(n + 1) -> Int]
        <3> SUFFICES ASSUME NEW u \in Layer(n + 1) PROVE WithPicked(g, h, u) \in Int
            OBVIOUS
        <3> HIDE DEF Layer
        <3> QED BY <2>2, <2>4 DEF WithPicked
    <2>6. \A u \in Layer(n) : hh[u] = h[u]
        BY <2>3, <2>4
    <2>7. \A u \in Layer(n + 1) : hh[u] = WithPicked(g, hh, u)
        <3> SUFFICES ASSUME NEW u \in Layer(n + 1) PROVE WithPicked(g, h, u) = WithPicked(g, hh, u)
            OBVIOUS
        <3> HIDE DEF Layer, hh
        <3> QED BY <2>2, <2>6 DEF WithPicked
    <2>8. hh \in Sums(g, S, Layer(n + 1))
        <3> HIDE DEF Layer, hh
        <3> QED BY <2>5, <2>7 DEF Sums
    <2> QED BY <2>8
<1>4. Nat \subseteq Good
    <2> HIDE DEF Good
    <2> QED BY <1>2, <1>3, NatSetInduction
<1>5. Layer(Cardinality(S)) = SUBSET S
    BY <1>1, FS_Subset
<1> QED BY <1>1, <1>4, <1>5

\* A sum is the value of every such function.
LEMMA SumIs ==
    ASSUME NEW S, IsFiniteSet(S), NEW g, NEW h \in Sums(g, S, SUBSET S)
    PROVE  Sum(g, S) = h[S]
<1> DEFINE c == CHOOSE f : f = [u \in SUBSET S |-> WithPicked(g, f, u)]
<1>1. h = [u \in SUBSET S |-> WithPicked(g, h, u)]
    BY DEF Sums
<1>2. c = [u \in SUBSET S |-> WithPicked(g, c, u)]
    BY <1>1
<1>3. Sum(g, S) = c[S]
    BY SumUnfolds
<1>4. \A u \in SUBSET S : c[u] = h[u]
    <2>1. \A u \in SUBSET S : c[u] = WithPicked(g, c, u)
        BY <1>2
    <2>2. \A u \in SUBSET S : h[u] = WithPicked(g, h, u)
        BY DEF Sums
    <2> HIDE DEF c
    <2> DEFINE Good == {u \in SUBSET S : c[u] = h[u]}
    <2>3. {} \in Good
        BY <2>1, <2>2 DEF WithPicked
    <2>4. ASSUME NEW s \in SUBSET S, s # {}, \A x \in s : s \ {x} \in Good
          PROVE  s \in Good
        BY <2>1, <2>2, <2>4, PickIn DEF WithPicked
    <2>5. \A s \in SUBSET S : s \in Good
        <3> HIDE DEF Good
        <3> QED BY <2>3, <2>4, FiniteSetInduction
    <2> QED BY <2>5
<1> QED BY <1>3, <1>4

\* The sum over any subset is a number and follows the recursion.
LEMMA SumRecurs ==
    ASSUME NEW S, IsFiniteSet(S), NEW g \in [S -> Int]
    PROVE  \A u \in SUBSET S :
             /\ Sum(g, u) \in Int
             /\ Sum(g, u) = IF u = {} THEN 0 ELSE g[Pick(u)] + Sum(g, u \ {Pick(u)})
<1>1. PICK h : h \in Sums(g, S, SUBSET S)
    BY SumsExist
<1>2. ASSUME NEW u \in SUBSET S PROVE Sum(g, u) = h[u]
    <2> DEFINE hu == [v \in SUBSET u |-> h[v]]
    <2>1. hu \in [SUBSET u -> Int]
        BY <1>1 DEF Sums
    <2>2. \A v \in SUBSET u : hu[v] = WithPicked(g, hu, v)
        BY <1>1, PickIn DEF Sums, WithPicked
    <2>3. hu \in Sums(g, u, SUBSET u)
        <3> HIDE DEF hu
        <3> QED BY <2>1, <2>2 DEF Sums
    <2>4. IsFiniteSet(u)
        BY FS_Subset
    <2> QED BY <2>3, <2>4, SumIs
<1>3. ASSUME NEW u \in SUBSET S PROVE h[u] \in Int /\ h[u] = WithPicked(g, h, u)
    BY <1>1 DEF Sums
<1> QED BY <1>2, <1>3, PickIn DEF WithPicked

\* Nothing sums up to zero, and a sum of numbers is one.
LEMMA SumEmpty == ASSUME NEW g PROVE Sum(g, {}) = 0
<1>1. IsFiniteSet({})
    BY FS_EmptySet
<1> DEFINE h == [u \in SUBSET {} |-> 0]
<1>2. h \in Sums(g, {}, SUBSET {})
    BY DEF Sums, WithPicked
<1>3. h[{}] = 0
    OBVIOUS
<1> HIDE DEF h
<1> QED BY <1>1, <1>2, <1>3, SumIs

LEMMA SumInt ==
    ASSUME NEW S, IsFiniteSet(S), NEW g \in [S -> Int]
    PROVE  Sum(g, S) \in Int
BY SumRecurs

\* Functions that agree on a set have the same sum over it.
LEMMA SumAgrees ==
    ASSUME NEW S, IsFiniteSet(S), NEW g, NEW h, \A x \in S : g[x] = h[x] /\ g[x] \in Int
    PROVE  Sum(g, S) = Sum(h, S)
<1> DEFINE gg == [x \in S |-> g[x]]
<1>1. gg \in [S -> Int]
    OBVIOUS
<1>2. PICK s : s \in Sums(gg, S, SUBSET S)
    BY <1>1, SumsExist
<1>3. s \in Sums(g, S, SUBSET S)
    BY <1>2, PickIn DEF Sums, WithPicked
<1>4. s \in Sums(h, S, SUBSET S)
    BY <1>2, PickIn DEF Sums, WithPicked
<1> QED BY <1>3, <1>4, SumIs

\* Any element may be taken out first.
LEMMA SumTakeOut ==
    ASSUME NEW S, IsFiniteSet(S), NEW g \in [S -> Int], NEW e \in S
    PROVE  Sum(g, S) = g[e] + Sum(g, S \ {e})
<1> DEFINE Good == {s \in SUBSET S : \A x \in s : Sum(g, s) = g[x] + Sum(g, s \ {x})}
<1>1. {} \in Good
    OBVIOUS
<1>2. ASSUME NEW s \in SUBSET S, s # {}, \A x \in s : s \ {x} \in Good
      PROVE  s \in Good
    <2> SUFFICES ASSUME NEW x \in s PROVE Sum(g, s) = g[x] + Sum(g, s \ {x})
        OBVIOUS
    <2> DEFINE y == Pick(s)
               both == s \ {x, y}
    <2>1. y \in s /\ x \in S /\ y \in S
        BY <1>2, PickIn
    <2>2. Sum(g, s) = g[y] + Sum(g, s \ {y})
        BY <1>2, SumRecurs
    <2>3. CASE x # y
        <3>1. Sum(g, s \ {y}) = g[x] + Sum(g, both)
            <4>1. (s \ {y}) \ {x} = both
                OBVIOUS
            <4> QED BY <1>2, <2>1, <2>3, <4>1
        <3>2. Sum(g, s \ {x}) = g[y] + Sum(g, both)
            <4>1. (s \ {x}) \ {y} = both
                OBVIOUS
            <4> QED BY <1>2, <2>1, <2>3, <4>1
        <3>3. Sum(g, both) \in Int /\ g[x] \in Int /\ g[y] \in Int
            BY <2>1, SumRecurs
        <3> HIDE DEF both, y, Good
        <3> QED BY <2>2, <3>1, <3>2, <3>3
    <2> QED BY <2>2, <2>3
<1>3. \A s \in SUBSET S : s \in Good
    <2> HIDE DEF Good
    <2> QED BY <1>1, <1>2, FiniteSetInduction
<1> QED BY <1>3

\* One value changes, and the sum changes by as much.
LEMMA SumChanges ==
    ASSUME NEW S, IsFiniteSet(S), NEW g \in [S -> Int], NEW h \in [S -> Int], NEW e \in S,
           \A x \in S \ {e} : g[x] = h[x]
    PROVE  Sum(h, S) = Sum(g, S) - g[e] + h[e]
<1> DEFINE R == S \ {e}
<1>1. IsFiniteSet(R)
    BY FS_Subset
<1>2. Sum(g, R) = Sum(h, R)
    <2>1. \A x \in R : g[x] = h[x] /\ g[x] \in Int
        OBVIOUS
    <2> HIDE DEF R
    <2> QED BY <1>1, <2>1, SumAgrees
<1>3. Sum(g, S) = g[e] + Sum(g, R) /\ Sum(h, S) = h[e] + Sum(h, R)
    BY SumTakeOut
<1>4. Sum(g, R) \in Int /\ g[e] \in Int /\ h[e] \in Int
    BY SumRecurs
<1> HIDE DEF R
<1> QED BY <1>2, <1>3, <1>4

\* A sum of greater values is greater.
LEMMA SumMonotone ==
    ASSUME NEW S, IsFiniteSet(S), NEW g \in [S -> Int], NEW h \in [S -> Int],
           \A x \in S : g[x] <= h[x]
    PROVE  Sum(g, S) <= Sum(h, S)
<1> DEFINE Good == {s \in SUBSET S : Sum(g, s) <= Sum(h, s)}
<1>1. {} \in Good
    BY SumEmpty
<1>2. ASSUME NEW s \in SUBSET S, s # {}, \A x \in s : s \ {x} \in Good
      PROVE  s \in Good
    <2> DEFINE y == Pick(s)
               R == s \ {y}
    <2>1. y \in s /\ y \in S
        BY <1>2, PickIn
    <2>2. Sum(g, s) = g[y] + Sum(g, R) /\ Sum(h, s) = h[y] + Sum(h, R)
        BY <1>2, SumRecurs
    <2>3. Sum(g, R) \in Int /\ Sum(h, R) \in Int
        BY SumRecurs
    <2>4. Sum(g, R) <= Sum(h, R)
        BY <1>2, <2>1
    <2>5. g[y] \in Int /\ h[y] \in Int /\ g[y] <= h[y]
        BY <2>1
    <2>6. Sum(g, s) <= Sum(h, s)
        <3> HIDE DEF y, R
        <3> QED BY <2>2, <2>3, <2>4, <2>5
    <2> QED BY <2>6
<1>3. \A s \in SUBSET S : s \in Good
    <2> HIDE DEF Good
    <2> QED BY <1>1, <1>2, FiniteSetInduction
<1> QED BY <1>3

\* A sum of nothing but zeros is zero.
LEMMA SumZero ==
    ASSUME NEW S, IsFiniteSet(S), NEW g, \A x \in S : g[x] = 0
    PROVE  Sum(g, S) = 0
<1> DEFINE h == [u \in SUBSET S |-> 0]
<1>1. h \in Sums(g, S, SUBSET S)
    BY PickIn DEF Sums, WithPicked
<1>2. h[S] = 0
    OBVIOUS
<1> HIDE DEF h
<1> QED BY <1>1, <1>2, SumIs

\* A sum of natural numbers is one, and none of them is greater.
LEMMA SumNat ==
    ASSUME NEW S, IsFiniteSet(S), NEW g \in [S -> Nat]
    PROVE  Sum(g, S) \in Nat /\ \A e \in S : g[e] <= Sum(g, S)
<1> DEFINE z == [x \in S |-> 0]
<1>1. z \in [S -> Int] /\ g \in [S -> Int] /\ \A x \in S : z[x] <= g[x]
    OBVIOUS
<1>2. Sum(z, S) = 0
    <2>1. \A x \in S : z[x] = 0
        OBVIOUS
    <2> HIDE DEF z
    <2> QED BY <2>1, SumZero
<1>3. Sum(g, S) \in Nat
    <2>1. Sum(z, S) <= Sum(g, S)
        <3> HIDE DEF z
        <3> QED BY <1>1, SumMonotone
    <2>2. Sum(g, S) \in Int
        BY <1>1, SumInt
    <2> HIDE DEF z
    <2> QED BY <1>2, <2>1, <2>2
<1>4. ASSUME NEW e \in S PROVE g[e] <= Sum(g, S)
    <2> DEFINE h == [x \in S |-> IF x = e THEN 0 ELSE g[x]]
    <2>1. h \in [S -> Int] /\ h[e] = 0 /\ \A x \in S \ {e} : g[x] = h[x]
        OBVIOUS
    <2>2. \A x \in S : z[x] <= h[x]
        OBVIOUS
    <2> HIDE DEF h, z
    <2>3. Sum(h, S) = Sum(g, S) - g[e] + h[e]
        BY <1>1, <2>1, SumChanges
    <2>4. Sum(z, S) <= Sum(h, S)
        BY <1>1, <2>1, <2>2, SumMonotone
    <2> QED BY <1>2, <1>3, <2>1, <2>3, <2>4
<1> QED BY <1>3, <1>4

\* A sum of sums.
LEMMA SumAdd ==
    ASSUME NEW S, IsFiniteSet(S), NEW f, NEW g \in [S -> Int], NEW h \in [S -> Int],
           \A x \in S : f[x] = g[x] + h[x]
    PROVE  Sum(f, S) = Sum(g, S) + Sum(h, S)
<1> DEFINE a == [x \in S |-> g[x] + h[x]]
           Good == {s \in SUBSET S : Sum(a, s) = Sum(g, s) + Sum(h, s)}
<1>0. a \in [S -> Int]
    OBVIOUS
<1>1. {} \in Good
    BY SumEmpty
<1>2. ASSUME NEW s \in SUBSET S, s # {}, \A x \in s : s \ {x} \in Good
      PROVE  s \in Good
    <2> DEFINE y == Pick(s)
               R == s \ {y}
    <2>1. y \in s /\ y \in S
        BY <1>2, PickIn
    <2>2. /\ Sum(a, s) = a[y] + Sum(a, R)
          /\ Sum(g, s) = g[y] + Sum(g, R)
          /\ Sum(h, s) = h[y] + Sum(h, R)
        <3> HIDE DEF a
        <3> QED BY <1>0, <1>2, SumRecurs
    <2>3. Sum(g, R) \in Int /\ Sum(h, R) \in Int
        BY SumRecurs
    <2>4. Sum(a, R) = Sum(g, R) + Sum(h, R)
        BY <1>2, <2>1
    <2>5. g[y] \in Int /\ h[y] \in Int /\ a[y] = g[y] + h[y]
        BY <2>1
    <2>6. Sum(a, s) = Sum(g, s) + Sum(h, s)
        <3> HIDE DEF y, R, a
        <3> QED BY <2>2, <2>3, <2>4, <2>5
    <2> QED BY <2>6
<1>3. \A s \in SUBSET S : s \in Good
    <2> HIDE DEF Good
    <2> QED BY <1>1, <1>2, FiniteSetInduction
<1>4. Sum(a, S) = Sum(f, S)
    <2>1. \A x \in S : a[x] = f[x] /\ a[x] \in Int
        OBVIOUS
    <2> HIDE DEF a
    <2> QED BY <2>1, SumAgrees
<1> QED BY <1>3, <1>4

\* What is zero outside of T sums up to its sum over T.
LEMMA SumPart ==
    ASSUME NEW S, IsFiniteSet(S), NEW T \in SUBSET S, NEW g, NEW h \in [S -> Int],
           \A x \in T : h[x] = g[x], \A x \in S \ T : h[x] = 0
    PROVE  Sum(h, S) = Sum(g, T)
<1> DEFINE Good == {s \in SUBSET S : Sum(h, s) = Sum(h, s \cap T)}
<1>1. {} \in Good
    <2>1. {} \cap T = {}
        OBVIOUS
    <2>2. Sum(h, {}) = Sum(h, {} \cap T)
        BY <2>1, Zenon
    <2> QED BY <2>2, Zenon
<1>2. ASSUME NEW s \in SUBSET S, s # {}, \A x \in s : s \ {x} \in Good
      PROVE  s \in Good
    <2> DEFINE y == Pick(s)
               R == s \ {y}
    <2>1. y \in s /\ y \in S /\ R \in SUBSET S
        BY <1>2, PickIn
    <2>2. Sum(h, s) = h[y] + Sum(h, R) /\ Sum(h, R) \in Int
        BY <1>2, <2>1, SumRecurs
    <2>3. Sum(h, R) = Sum(h, R \cap T)
        BY <1>2, <2>1
    <2>4. CASE y \in T
        <3>1. IsFiniteSet(s \cap T) /\ h \in [S -> Int] /\ y \in s \cap T
            BY <2>1, <2>4, FS_Subset
        <3>2. (s \cap T) \ {y} = R \cap T
            OBVIOUS
        <3>3. Sum(h, s \cap T) = h[y] + Sum(h, (s \cap T) \ {y})
            <4> DEFINE q == [x \in s \cap T |-> h[x]]
            <4>1. q \in [s \cap T -> Int] /\ q[y] = h[y]
                BY <3>1
            <4>2. \A x \in s \cap T : q[x] = h[x] /\ q[x] \in Int
                OBVIOUS
            <4>3. IsFiniteSet((s \cap T) \ {y})
                BY <3>1, FS_Subset
            <4> HIDE DEF q
            <4>4. Sum(q, s \cap T) = q[y] + Sum(q, (s \cap T) \ {y})
                BY <3>1, <4>1, SumTakeOut
            <4>5. Sum(q, s \cap T) = Sum(h, s \cap T)
                BY <3>1, <4>2, SumAgrees
            <4>6. Sum(q, (s \cap T) \ {y}) = Sum(h, (s \cap T) \ {y})
                BY <4>2, <4>3, SumAgrees
            <4> QED BY <4>1, <4>4, <4>5, <4>6
        <3> QED BY <2>2, <2>3, <3>2, <3>3
    <2>5. CASE y \notin T
        <3>1. s \cap T = R \cap T /\ h[y] = 0
            BY <2>1, <2>5
        <3>2. Sum(h, s \cap T) = Sum(h, R \cap T)
            BY <3>1, Zenon
        <3>3. Sum(h, s) = Sum(h, s \cap T)
            <4> HIDE DEF y, R
            <4> QED BY <2>2, <2>3, <3>1, <3>2
        <3> QED BY <3>3
    <2> QED BY <2>4, <2>5
<1>3. \A s \in SUBSET S : s \in Good
    <2> HIDE DEF Good
    <2> QED BY <1>1, <1>2, FiniteSetInduction
<1>4. Sum(h, S) = Sum(h, T)
    <2>1. S \cap T = T
        OBVIOUS
    <2> QED BY <1>3, <2>1
<1>5. Sum(h, T) = Sum(g, T)
    <2>1. IsFiniteSet(T) /\ \A x \in T : h[x] = g[x] /\ h[x] \in Int
        BY FS_Subset
    <2> QED BY <2>1, SumAgrees
<1> QED BY <1>4, <1>5

\* Each share h[k] is covered by the weight of the one member of S that stands
\* for it: then so is the sum.
LEMMA SumCovered ==
    ASSUME NEW S, IsFiniteSet(S), NEW K, IsFiniteSet(K), NEW w \in [S -> Nat],
           NEW m \in [S -> K], \A x, y \in S : m[x] = m[y] => x = y,
           NEW h \in [K -> Nat], \A x \in S : h[m[x]] <= w[x],
           \A k \in K : (\A x \in S : m[x] # k) => h[k] = 0
    PROVE  Sum(h, K) <= Sum(w, S)
<1> DEFINE Cut(s) == [k \in K |-> IF \E x \in s : m[x] = k THEN h[k] ELSE 0]
           Good == {s \in SUBSET S : Sum(Cut(s), K) <= Sum(w, s)}
<1>0. \A s \in SUBSET S : Cut(s) \in [K -> Int]
    OBVIOUS
<1>1. {} \in Good
    <2>1. \A k \in K : Cut({})[k] = 0
        OBVIOUS
    <2>2. Sum(Cut({}), K) = 0
        <3> HIDE DEF Cut
        <3> QED BY <2>1, SumZero
    <2>3. Sum(w, {}) = 0
        BY SumEmpty
    <2>4. Sum(Cut({}), K) <= Sum(w, {})
        <3> HIDE DEF Cut
        <3> QED BY <2>2, <2>3
    <2> QED BY <2>4
<1>2. ASSUME NEW s \in SUBSET S, s # {}, \A x \in s : s \ {x} \in Good
      PROVE  s \in Good
    <2> DEFINE y == Pick(s)
               R == s \ {y}
    <2>1. y \in s /\ y \in S /\ R \in SUBSET S /\ w \in [S -> Int] /\ m[y] \in K
        BY <1>2, PickIn
    <2>2. Sum(w, s) = w[y] + Sum(w, R) /\ Sum(w, R) \in Int
        BY <1>2, <2>1, SumRecurs
    <2>3. Sum(Cut(R), K) <= Sum(w, R)
        BY <1>2, <2>1
    <2>4. \A k \in K \ {m[y]} : Cut(R)[k] = Cut(s)[k]
        BY <2>1
    <2>5. Cut(R)[m[y]] = 0 /\ Cut(s)[m[y]] = h[m[y]]
        BY <2>1
    <2>6. Cut(R) \in [K -> Int] /\ Cut(s) \in [K -> Int]
        BY <1>0, <2>1
    <2>7. Sum(Cut(s), K) = Sum(Cut(R), K) - Cut(R)[m[y]] + Cut(s)[m[y]]
        <3> HIDE DEF Cut, y, R
        <3> QED BY <2>1, <2>4, <2>6, SumChanges
    <2>8. Sum(Cut(R), K) \in Int
        <3> HIDE DEF Cut, R
        <3> QED BY <2>6, SumInt
    <2>9. h[m[y]] <= w[y] /\ h[m[y]] \in Int /\ w[y] \in Int
        BY <2>1
    <2>10. Sum(Cut(s), K) <= Sum(w, s)
        <3> HIDE DEF Cut, R, y
        <3> QED BY <2>2, <2>3, <2>5, <2>7, <2>8, <2>9
    <2> QED BY <2>10
<1>3. \A s \in SUBSET S : s \in Good
    <2> HIDE DEF Good
    <2> QED BY <1>1, <1>2, FiniteSetInduction
<1>4. Sum(Cut(S), K) = Sum(h, K)
    <2>1. \A k \in K : Cut(S)[k] = h[k] /\ Cut(S)[k] \in Int
        OBVIOUS
    <2> HIDE DEF Cut
    <2> QED BY <2>1, SumAgrees
<1> QED BY <1>3, <1>4

\* A sum over the first numbers, with one more.
LEMMA SumOneMore ==
    ASSUME NEW g, NEW m \in Nat, \A i \in 1 .. m + 1 : g[i] \in Int
    PROVE  Sum(g, 1 .. m + 1) = Sum(g, 1 .. m) + g[m + 1] /\ Sum(g, 1 .. m) \in Int
<1> DEFINE S == 1 .. m + 1
           h == [i \in S |-> g[i]]
<1>0. IsFiniteSet(S) /\ IsFiniteSet(1 .. m)
    BY FS_Interval
<1>1. h \in [S -> Int] /\ m + 1 \in S /\ S \ {m + 1} = 1 .. m /\ 1 .. m \in SUBSET S
    OBVIOUS
<1>2. \A x \in S : h[x] = g[x] /\ h[x] \in Int
    OBVIOUS
<1> HIDE DEF h, S
<1>3. Sum(h, S) = h[m + 1] + Sum(h, S \ {m + 1})
    BY <1>0, <1>1, SumTakeOut
<1>4. Sum(h, S) = Sum(g, S) /\ Sum(h, 1 .. m) = Sum(g, 1 .. m)
    <2>1. \A x \in 1 .. m : h[x] = g[x] /\ h[x] \in Int
        BY <1>1, <1>2
    <2> QED BY <1>0, <1>2, <2>1, SumAgrees
<1>5. Sum(h, 1 .. m) \in Int
    BY <1>0, <1>1, SumRecurs
<1>6. Sum(g, S) = Sum(g, 1 .. m) + g[m + 1]
    <2>1. h[m + 1] = g[m + 1] /\ h[m + 1] \in Int
        BY <1>1, <1>2
    <2>2. Sum(h, S) = h[m + 1] + Sum(h, 1 .. m)
        BY <1>1, <1>3
    <2>3. Sum(h, S) = Sum(h, 1 .. m) + h[m + 1]
        BY <1>5, <2>1, <2>2
    <2> QED BY <1>4, <2>1, <2>3
<1> QED BY <1>4, <1>5, <1>6 DEF S
=============================================================================
