----------------------------- MODULE FiniteSums -----------------------------
(***************************************************************************)
(* Induction over the subsets of a finite set and over the numbers, in the *)
(* form that needs no operator as a parameter: what is to be shown is a    *)
(* set of good subsets, or of good numbers.  With it, what is needed of    *)
(* the sums of Functions.tla, for any summands and any finite set of       *)
(* indices, that recursive functions exist, and what division returns.     *)
(***************************************************************************)
EXTENDS Integers, FiniteSets, Functions, TLAPS, FiniteSetTheorems

\* A quotient and a remainder are what the division says.
LEMMA Division ==
    ASSUME NEW x \in Nat, NEW d \in Nat \ {0}
    PROVE  /\ x \div d \in Nat /\ x % d \in 0..(d - 1)
           /\ x = d * (x \div d) + (x % d)
OBVIOUS

\* Only one quotient leaves a remainder in range.
LEMMA QuotientUnique ==
    ASSUME NEW d \in Nat \ {0}, NEW q \in Nat, NEW r \in 0..(d - 1)
    PROVE  (d * q + r) \div d = q
OBVIOUS

\* A set of subsets that holds whatever all smaller subsets of it being in it
\* brings in holds them all: a smallest subset that is missing cannot be.
LEMMA SetInduction ==
    ASSUME NEW S, IsFiniteSet(S), NEW Good,
           \A T \in SUBSET S : (\A U \in SUBSET T : U # T => U \in Good) => T \in Good
    PROVE  \A T \in SUBSET S : T \in Good
<1> DEFINE Bad == (SUBSET S) \ Good
<1>1. IsWellFoundedOn(StrictSubsetOrdering(S), SUBSET S)
  BY FS_StrictSubsetOrderingWellFounded, FS_FiniteSubsetsOfFinite
<1>2. ASSUME Bad # {} PROVE FALSE
  <2>1. Bad \subseteq SUBSET S
    OBVIOUS
  <2> HIDE DEF Bad
  <2>2. PICK T \in Bad : \A U \in Bad : ~(<<U, T>> \in StrictSubsetOrdering(S))
    BY <1>1, <1>2, <2>1, WFMin
  <2> USE DEF Bad
  <2>3. \A U \in SUBSET T : U # T => U \in Good
    BY <2>2 DEF StrictSubsetOrdering
  <2> QED BY <2>2, <2>3
<1> QED BY <1>2

\* The same for numbers.
LEMMA NatInductionOnSet ==
    ASSUME NEW A, 0 \in A, \A n \in Nat : n \in A => n + 1 \in A,
           NEW n \in Nat
    PROVE  n \in A
<1> DEFINE Good == { 0..m : m \in A \cap Nat } \cup { T \in SUBSET (0..n) : \A m \in Nat : T # 0..m }
<1>1. ASSUME NEW T \in SUBSET (0..n), \A U \in SUBSET T : U # T => U \in Good
      PROVE  T \in Good
  <2>1. CASE \A m \in Nat : T # 0..m
    BY <2>1
  <2>2. ASSUME NEW m \in Nat, T = 0..m PROVE T \in Good
    <3>1. CASE m = 0
      BY <2>2, <3>1
    <3>2. CASE m > 0
      <4>1. m - 1 \in Nat /\ 0..(m - 1) \subseteq T /\ m \in T /\ m \notin 0..(m - 1)
        BY <2>2, <3>2
      <4>2. 0..(m - 1) \in Good
        BY <1>1, <4>1
      <4>3. PICK k \in A \cap Nat : 0..(m - 1) = 0..k
        BY <4>1, <4>2
      <4>4. k = m - 1
        <5>1. k \in 0..(m - 1) /\ (m - 1) \in 0..k
          BY <4>1, <4>3
        <5> QED BY <4>1, <5>1
      <4> QED BY <2>2, <3>2, <4>1, <4>4
    <3> QED BY <3>1, <3>2
  <2> QED BY <2>1, <2>2
<1>2. IsFiniteSet(0..n)
  BY FS_Interval
<1> HIDE DEF Good
<1>3. \A T \in SUBSET (0..n) : T \in Good
  <2> DEFINE S == 0..n
  <2>1. \A T \in SUBSET S : (\A U \in SUBSET T : U # T => U \in Good) => T \in Good
    BY <1>1
  <2>2. IsFiniteSet(S)
    BY <1>2
  <2> HIDE DEF S
  <2>3. \A T \in SUBSET S : T \in Good
    BY <2>1, <2>2, SetInduction
  <2> QED BY <2>3 DEF S
<1>4. PICK m \in A \cap Nat : 0..n = 0..m
  <2>1. 0..n \in Good /\ n \in 0..n
    BY <1>3
  <2> QED BY <2>1 DEF Good
<1>5. n \in 0..m /\ m \in 0..n
  BY <1>4
<1> QED BY <1>5

\* What a recursive definition says of g: it begins with a, and f is its step.
IsRecursive(g, n, a, f) == g[0] = a /\ \A p \in 1..n : g[p] = f[<<p, g[p - 1]>>]

\* A recursive function on 0..n exists: of the step it takes, only the values are
\* needed, so that the step may be given as a function.
LEMMA RecursionExists ==
    ASSUME NEW n \in Nat, NEW S, NEW a \in S, NEW f \in [(1..n) \X S -> S]
    PROVE  \E g \in [0..n -> S] : IsRecursive(g, n, a, f)
<1> DEFINE Rec(m, g) == g[0] = a /\ \A p \in 1..m : g[p] = f[<<p, g[p - 1]>>]
           A == { m \in Nat : m <= n => \E g \in [0..m -> S] : Rec(m, g) }
<1>1. 0 \in A
  <2> DEFINE g == [p \in 0..0 |-> a]
  <2>1. g \in [0..0 -> S] /\ Rec(0, g)
    OBVIOUS
  <2> QED BY <2>1
<1>2. ASSUME NEW m \in Nat, m \in A PROVE m + 1 \in A
  <2> SUFFICES ASSUME m + 1 <= n PROVE \E h \in [0..(m + 1) -> S] : Rec(m + 1, h)
    OBVIOUS
  <2>1. PICK g \in [0..m -> S] : Rec(m, g)
    BY <1>2
  <2> DEFINE h == [p \in 0..(m + 1) |-> IF p = m + 1 THEN f[<<m + 1, g[m]>>] ELSE g[p]]
  <2>2. f[<<m + 1, g[m]>>] \in S
    <3>1. m + 1 \in 1..n /\ g[m] \in S
      OBVIOUS
    <3> QED BY <3>1
  <2>3. h \in [0..(m + 1) -> S]
    BY <2>2
  <2>4. ASSUME NEW p \in 1..(m + 1)
        PROVE  h[p] = f[<<p, h[p - 1]>>]
    <3>1. CASE p = m + 1
      <4>1. h[p] = f[<<m + 1, g[m]>>] /\ p - 1 = m /\ h[p - 1] = g[m]
        BY <3>1
      <4> QED BY <4>1, <3>1
    <3>2. CASE p # m + 1
      <4>1. p \in 1..m /\ h[p] = g[p] /\ h[p - 1] = g[p - 1]
        BY <3>2
      <4> QED BY <2>1, <4>1
    <3> QED BY <3>1, <3>2
  <2>5. Rec(m + 1, h)
    <3>1. h[0] = a
      BY <2>1
    <3> HIDE DEF h
    <3> QED BY <2>4, <3>1
  <2> HIDE DEF h
  <2> QED BY <2>3, <2>5
<1>3. n \in A
  <2> HIDE DEF A
  <2> QED BY <1>1, <1>2, NatInductionOnSet
<1> QED BY <1>3 DEF IsRecursive

\* What the fold takes out of a set first, its step and its recursive function.
Pick(s) == CHOOSE x \in s : TRUE
SumBody(f, iter, s) == IF s = {} THEN 0 ELSE f[Pick(s)] + iter[s \ {Pick(s)}]
SumIter(f, S) == CHOOSE iter : iter = [s \in SUBSET S |-> SumBody(f, iter, s)]

\* SumFunctionOnSet, as the fold of Folds.tla defines it.
LEMMA SumIsIter ==
    ASSUME NEW f, NEW S
    PROVE  SumFunctionOnSet(f, S) = SumIter(f, S)[S]
BY DEF SumFunctionOnSet, FoldFunctionOnSet, MapThenFoldSet, Pick, SumIter, SumBody

\* The recursive function of the fold exists: for sets of at most n elements there
\* is one for every n.
LEMMA IterExists ==
    ASSUME NEW f, NEW S, IsFiniteSet(S)
    PROVE  \A s \in SUBSET S : SumIter(f, S)[s] = SumBody(f, SumIter(f, S), s)
<1> DEFINE Small(n) == { s \in SUBSET S : Cardinality(s) <= n }
           A == { n \in Nat : \E g : g = [s \in Small(n) |-> SumBody(f, g, s)] }
<1>1. \A s \in SUBSET S : /\ IsFiniteSet(s) /\ Cardinality(s) \in Nat
                          /\ Cardinality(s) <= Cardinality(S)
                          /\ s # {} => /\ Pick(s) \in s
                                       /\ s \ {Pick(s)} \in SUBSET S
                                       /\ Cardinality(s \ {Pick(s)}) = Cardinality(s) - 1
                          /\ Cardinality(s) = 0 => s = {}
  BY FS_Subset, FS_RemoveElement, FS_CardinalityType, FS_EmptySet DEF Pick
<1>2. 0 \in A
  <2> DEFINE g == [s \in Small(0) |-> 0]
  <2>1. ASSUME NEW s \in Small(0) PROVE s = {}
    <3>1. s \in SUBSET S /\ Cardinality(s) <= 0
      OBVIOUS
    <3>2. Cardinality(s) \in Nat
      BY <1>1, <3>1
    <3>3. Cardinality(s) = 0
      <4> DEFINE c == Cardinality(s)
      <4>1. c \in Nat /\ c <= 0
        BY <3>1, <3>2
      <4> HIDE DEF c
      <4>2. c = 0
        BY <4>1
      <4> QED BY <4>2 DEF c
    <3> QED BY <1>1, <3>1, <3>3
  <2>2. g = [s \in Small(0) |-> SumBody(f, g, s)]
    BY <2>1 DEF SumBody
  <2> QED BY <2>2
<1>3. ASSUME NEW n \in Nat, n \in A PROVE n + 1 \in A
  <2>1. PICK g : g = [s \in Small(n) |-> SumBody(f, g, s)]
    BY <1>3
  <2> DEFINE h == [s \in Small(n + 1) |-> SumBody(f, g, s)]
  <2>2. ASSUME NEW s \in Small(n) PROVE s \in Small(n + 1) /\ h[s] = g[s]
    <3>1. s \in Small(n + 1)
      <4>1. s \in SUBSET S /\ Cardinality(s) <= n
        OBVIOUS
      <4>2. Cardinality(s) \in Nat
        BY <1>1, <4>1
      <4>3. \A c \in Nat : c <= n => c <= n + 1
        OBVIOUS
      <4> QED BY <4>1, <4>2, <4>3
    <3>2. g[s] = SumBody(f, g, s)
      <4> HIDE DEF Small
      <4> QED BY <2>1
    <3> QED BY <3>1, <3>2
  <2>3. \A s \in Small(n + 1) : s # {} => s \ {Pick(s)} \in Small(n)
    BY <1>1
  <2> HIDE DEF Small
  <2>4. \A s \in Small(n + 1) : SumBody(f, g, s) = SumBody(f, h, s)
    BY <2>2, <2>3 DEF SumBody
  <2>5. h = [s \in Small(n + 1) |-> SumBody(f, h, s)]
    BY <2>4
  <2>6. \E k : k = [s \in Small(n + 1) |-> SumBody(f, k, s)]
    BY <2>5
  <2>7. n + 1 \in Nat
    OBVIOUS
  <2> QED BY <2>6, <2>7
<1> HIDE DEF A
<1>4. Cardinality(S) \in A
  BY <1>1, <1>2, <1>3, FS_CardinalityType, NatInductionOnSet
<1>5. PICK g : g = [s \in SUBSET S |-> SumBody(f, g, s)]
  <2>1. Small(Cardinality(S)) = SUBSET S
    BY <1>1
  <2> QED BY <1>4, <2>1 DEF A
<1>6. SumIter(f, S) = [s \in SUBSET S |-> SumBody(f, SumIter(f, S), s)]
  BY <1>5 DEF SumIter
<1> HIDE DEF SumIter
<1> QED BY <1>6

\* The chosen element of a set that has one.
LEMMA PickIn ==
    ASSUME NEW s, s # {}
    PROVE  Pick(s) \in s
BY DEF Pick

\* The function for a set agrees with the function for a smaller one.
LEMMA IterLocal ==
    ASSUME NEW f, NEW S, IsFiniteSet(S), NEW T \in SUBSET S
    PROVE  \A U \in SUBSET T : SumIter(f, S)[U] = SumIter(f, T)[U]
<1> DEFINE Good == { U \in SUBSET T : SumIter(f, S)[U] = SumIter(f, T)[U] }
<1>1. IsFiniteSet(T)
  BY FS_Subset
<1>2. ASSUME NEW U \in SUBSET T, \A V \in SUBSET U : V # U => V \in Good
      PROVE  U \in Good
  <2>1. /\ SumIter(f, S)[U] = SumBody(f, SumIter(f, S), U)
        /\ SumIter(f, T)[U] = SumBody(f, SumIter(f, T), U)
    BY <1>1, IterExists
  <2>2. CASE U = {}
    BY <2>1, <2>2 DEF SumBody
  <2>3. CASE U # {}
    <3>1. U \ {Pick(U)} \in SUBSET U /\ U \ {Pick(U)} # U
      BY <2>3, PickIn
    <3>2. SumIter(f, S)[U \ {Pick(U)}] = SumIter(f, T)[U \ {Pick(U)}]
      BY <1>2, <3>1
    <3> QED BY <2>1, <2>3, <3>2 DEF SumBody
  <2> QED BY <2>2, <2>3
<1> HIDE DEF Good
<1>3. \A U \in SUBSET T : U \in Good
  BY <1>1, <1>2, SetInduction
<1> QED BY <1>3 DEF Good

\* A sum is that of one chosen element and the rest.
LEMMA SumOfPick ==
    ASSUME NEW f, NEW S, IsFiniteSet(S)
    PROVE  /\ S = {} => SumFunctionOnSet(f, S) = 0
           /\ S # {} => SumFunctionOnSet(f, S)
                          = f[Pick(S)] + SumFunctionOnSet(f, S \ {Pick(S)})
<1>1. SumFunctionOnSet(f, S) = SumBody(f, SumIter(f, S), S)
  BY SumIsIter, IterExists
<1>2. CASE S = {}
  BY <1>1, <1>2 DEF SumBody
<1>3. CASE S # {}
  <2> DEFINE T == S \ {Pick(S)}
  <2>1. T \in SUBSET S
    OBVIOUS
  <2>2. SumIter(f, S)[T] = SumIter(f, T)[T]
    <3> HIDE DEF T
    <3> QED BY <2>1, IterLocal
  <2>3. SumFunctionOnSet(f, T) = SumIter(f, T)[T]
    BY SumIsIter
  <2> QED BY <1>1, <1>3, <2>2, <2>3 DEF SumBody
<1> QED BY <1>2, <1>3

\* A sum of numbers of one kind is of that kind.
LEMMA SumTyped ==
    ASSUME NEW S, IsFiniteSet(S), NEW f, NEW D, D \subseteq Int, 0 \in D,
           \A a, b \in D : a + b \in D, \A x \in S : f[x] \in D
    PROVE  SumFunctionOnSet(f, S) \in D
<1> DEFINE Good == { T \in SUBSET S : SumFunctionOnSet(f, T) \in D }
<1>1. ASSUME NEW T \in SUBSET S, \A U \in SUBSET T : U # T => U \in Good
      PROVE  T \in Good
  <2>1. IsFiniteSet(T)
    BY FS_Subset
  <2>2. CASE T = {}
    <3>1. SumFunctionOnSet(f, T) = 0
      BY <2>1, <2>2, SumOfPick
    <3> QED BY <3>1
  <2>3. CASE T # {}
    <3>1. Pick(T) \in T /\ T \ {Pick(T)} \in SUBSET T /\ T \ {Pick(T)} # T
      BY <2>3, PickIn
    <3>2. SumFunctionOnSet(f, T \ {Pick(T)}) \in D /\ f[Pick(T)] \in D
      BY <1>1, <3>1
    <3> QED BY <2>1, <2>3, <3>2, SumOfPick
  <2> QED BY <2>2, <2>3
<1> HIDE DEF Good
<1>2. \A T \in SUBSET S : T \in Good
  BY <1>1, SetInduction
<1> QED BY <1>2 DEF Good

\* A sum is that of any element and the rest: the choice does not matter.
LEMMA SumRemove ==
    ASSUME NEW S, IsFiniteSet(S), NEW f, \A x \in S : f[x] \in Int
    PROVE  \A x \in S : SumFunctionOnSet(f, S) = f[x] + SumFunctionOnSet(f, S \ {x})
<1> DEFINE Sum(T) == SumFunctionOnSet(f, T)
           Good == { T \in SUBSET S : \A x \in T : Sum(T) = f[x] + Sum(T \ {x}) }
<1>1. ASSUME NEW T \in SUBSET S, \A U \in SUBSET T : U # T => U \in Good,
             NEW x \in T
      PROVE  Sum(T) = f[x] + Sum(T \ {x})
  <2> DEFINE p == Pick(T)
             V == T \ {p, x}
  <2>1. p \in T
    BY PickIn
  <2>2. \A U \in SUBSET S : IsFiniteSet(U) /\ Sum(U) \in Int
    BY FS_Subset, SumTyped
  <2>3. Sum(T) = f[p] + Sum(T \ {p})
    BY <2>1, <2>2, SumOfPick
  <2>4. CASE x = p
    BY <2>3, <2>4
  <2>5. CASE x # p
    <3>1. T \ {p} \in Good /\ T \ {x} \in Good
      BY <1>1, <2>1
    <3>2. /\ x \in T \ {p} /\ (T \ {p}) \ {x} = V
          /\ p \in T \ {x} /\ (T \ {x}) \ {p} = V
      BY <2>1, <2>5
    <3>3. Sum(T \ {p}) = f[x] + Sum(V) /\ Sum(T \ {x}) = f[p] + Sum(V)
      BY <3>1, <3>2
    <3>4. Sum(V) \in Int /\ f[x] \in Int /\ f[p] \in Int
      BY <2>1, <2>2
    <3> HIDE DEF Sum, p, V
    <3> QED BY <2>3, <3>3, <3>4
  <2> QED BY <2>4, <2>5
<1>2. \A T \in SUBSET S : T \in Good
  <2>1. \A T \in SUBSET S : (\A U \in SUBSET T : U # T => U \in Good) => T \in Good
    <3> HIDE DEF Sum
    <3> QED BY <1>1
  <2> HIDE DEF Good
  <2> QED BY <2>1, SetInduction
<1> QED BY <1>2

\* A sum does not depend on what its summands are indexed by.
LEMMA SumReindex ==
    ASSUME NEW S, IsFiniteSet(S), NEW f, NEW g, NEW h,
           \A x \in S : f[x] \in Int /\ f[x] = g[h[x]],
           \A x, y \in S : h[x] = h[y] => x = y
    PROVE  SumFunctionOnSet(f, S) = SumFunctionOnSet(g, { h[x] : x \in S })
<1> DEFINE Img(T) == { h[x] : x \in T }
           Good == { T \in SUBSET S :
                       /\ SumFunctionOnSet(f, T) = SumFunctionOnSet(g, Img(T))
                       /\ IsFiniteSet(Img(T)) }
<1>1. ASSUME NEW T \in SUBSET S, \A U \in SUBSET T : U # T => U \in Good
      PROVE  T \in Good
  <2>1. IsFiniteSet(T)
    BY FS_Subset
  <2>2. CASE T = {}
    <3>1. Img(T) = {}
      BY <2>2
    <3>2. IsFiniteSet({})
      BY FS_EmptySet
    <3> QED BY <2>2, <3>1, <3>2, SumOfPick
  <2>3. CASE T # {}
    <3> PICK x \in T : TRUE
      BY <2>3
    <3> DEFINE U == T \ {x}
    <3>1. U \in Good
      BY <1>1
    <3>2. Img(T) = Img(U) \cup {h[x]} /\ h[x] \notin Img(U) /\ Img(T) \ {h[x]} = Img(U)
      OBVIOUS
    <3>3. IsFiniteSet(Img(T))
      <4> HIDE DEF Img, U
      <4> QED BY <3>1, <3>2, FS_AddElement
    <3>4. SumFunctionOnSet(f, T) = f[x] + SumFunctionOnSet(f, U)
      BY <2>1, SumRemove
    <3>5. SumFunctionOnSet(g, Img(T)) = g[h[x]] + SumFunctionOnSet(g, Img(U))
      <4>1. \A y \in Img(T) : g[y] \in Int
        OBVIOUS
      <4>2. h[x] \in Img(T)
        OBVIOUS
      <4> HIDE DEF Img, U
      <4> QED BY <3>2, <3>3, <4>1, <4>2, SumRemove
    <3>6. f[x] = g[h[x]]
      OBVIOUS
    <3> HIDE DEF Img, U
    <3> QED BY <3>1, <3>3, <3>4, <3>5, <3>6
  <2> QED BY <2>2, <2>3
<1> HIDE DEF Good
<1>2. S \in Good
  <2>1. \A T \in SUBSET S : T \in Good
    BY <1>1, SetInduction
  <2> QED BY <2>1
<1> QED BY <1>2 DEF Good
=============================================================================
