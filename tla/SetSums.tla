------------------------------ MODULE SetSums ------------------------------
(***************************************************************************)
(* Sums over finite sets.  Shares are counted everywhere as the community   *)
(* modules' MapThenSumSet, a recursive function that takes the elements in  *)
(* the order CHOOSE gives them.  Here are the facts the proofs need of it:  *)
(* the order does not matter, so an element can be added or left out.       *)
(* Before them, the facts of arithmetic several modules need; after them,   *)
(* that a finite set can be counted in a given order.                       *)
(*                                                                          *)
(* Induction is by a least counterexample, a number for which the claim at  *)
(* hand fails.                                                              *)
(***************************************************************************)
EXTENDS Integers, FiniteSets, FiniteSetsExt, TLAPS, FiniteSetTheorems, WellFoundedInduction

\* The sum of f over S.
SumOf(f, S) == MapThenSumSet(LAMBDA x : f[x], S)

AnyOf(s) == CHOOSE x \in s : TRUE
\* g is the recursive function behind the sum of f over S.
Unfolds(g, f, S) ==
  g = [s \in SUBSET S |-> IF s = {} THEN 0 ELSE f[AnyOf(s)] + g[s \ {AnyOf(s)}]]
-----------------------------------------------------------------------------
\* A nonempty set of naturals has a least element, a bounded one a greatest.
LEMMA LeastNat ==
  ASSUME NEW T \in SUBSET Nat, T # {}
  PROVE  \E x \in T : \A y \in T : x <= y
<1>1. PICK x \in T : \A y \in T : ~ (<<y, x>> \in OpToRel(<, Nat))
  <2>1. IsWellFoundedOn(OpToRel(<, Nat), Nat)
    BY NatLessThanWellFounded
  <2> HIDE DEF OpToRel
  <2> QED
    BY <2>1, WFMin
<1>2. ASSUME NEW y \in T PROVE x <= y
  <2>1. <<y, x>> \in Nat \X Nat /\ ~ (<<y, x>>[1] < <<y, x>>[2])
    BY <1>1 DEF OpToRel
  <2> QED
    BY <2>1
<1> QED
  BY <1>2

\* A nonempty bounded set of naturals has a greatest element (the best bid).
LEMMA GreatestNat ==
  ASSUME NEW T \in SUBSET Nat, T # {}, NEW bound \in Nat, \A x \in T : x <= bound
  PROVE  \E x \in T : \A y \in T : y <= x
<1>1. {bound - x : x \in T} \in SUBSET Nat /\ {bound - x : x \in T} # {}
  <2>1. \A x \in T : bound - x \in Nat
    OBVIOUS
  <2> QED
    BY <2>1
<1>2. PICK z \in {bound - x : x \in T} : \A y \in {bound - x : x \in T} : z <= y
  BY <1>1, LeastNat
<1>3. PICK x \in T : z = bound - x
  OBVIOUS
<1>4. ASSUME NEW y \in T PROVE y <= x
  <2>1. z <= bound - y
    BY <1>2
  <2> QED
    BY <1>3, <2>1
<1> QED
  BY <1>4

\* Division with remainder.
LEMMA Euclid ==
  ASSUME NEW c \in Nat \ {0}, NEW x \in Nat
  PROVE  x % c \in 0..(c - 1) /\ x = c * (x \div c) + (x % c) /\ x \div c \in Nat
OBVIOUS

LEMMA EuclidInt ==
  ASSUME NEW c \in Nat \ {0}, NEW x \in Int
  PROVE  x % c \in 0..(c - 1) /\ x = c * (x \div c) + (x % c) /\ x \div c \in Int
OBVIOUS

LEMMA RemainderUnique ==
  ASSUME NEW c \in Nat \ {0}, NEW q \in Int, NEW p \in Int,
         NEW r \in 0..(c - 1), NEW s \in 0..(c - 1), c * q + r = c * p + s
  PROVE  r = s
<1>1. CASE q < p
  <2>1. c * (p - q) >= c
    BY <1>1
  <2>2. c * (p - q) = r - s
    OBVIOUS
  <2> QED
    BY <2>1, <2>2
<1>2. CASE q > p
  <2>1. c * (q - p) >= c
    BY <1>2
  <2>2. c * (q - p) = s - r
    OBVIOUS
  <2> QED
    BY <2>1, <2>2
<1> QED
  BY <1>1, <1>2

\* Induction over the size of a set: if every exception to a claim about the subsets
\* of S has a smaller one inside it, there is none.
LEMMA NoLeastException ==
  ASSUME NEW S, IsFiniteSet(S), NEW Bad \in SUBSET SUBSET S,
         \A T \in Bad : \E U \in Bad : U \subseteq T /\ U # T
  PROVE  Bad = {}
<1> SUFFICES ASSUME Bad # {}
             PROVE  FALSE
  OBVIOUS
<1> DEFINE Sizes == {Cardinality(T) : T \in Bad}
<1>1. \A T \in Bad : IsFiniteSet(T) /\ Cardinality(T) \in Nat
  BY FS_Subset, FS_CardinalityType
<1>2. Sizes \in SUBSET Nat /\ Sizes # {}
  BY <1>1
<1> HIDE DEF Sizes
<1>3. PICK n \in Sizes : \A m \in Sizes : n <= m
  BY <1>2, LeastNat
<1>4. PICK T \in Bad : n = Cardinality(T)
  BY <1>3 DEF Sizes
<1>5. PICK U \in Bad : U \subseteq T /\ U # T
  BY <1>4
<1>6. Cardinality(U) < Cardinality(T)
  <2>1. Cardinality(U) <= Cardinality(T) /\ Cardinality(U) # Cardinality(T)
    BY <1>1, <1>4, <1>5, FS_Subset
  <2> QED
    BY <1>1, <1>4, <1>5, <2>1
<1>7. Cardinality(U) \in Sizes
  BY <1>5 DEF Sizes
<1> QED
  BY <1>1, <1>3, <1>4, <1>5, <1>6, <1>7
\* What a sum is made of.
Summable(f, S) == IsFiniteSet(S) /\ \A x \in S : f[x] \in Int
\* Opaque to the provers, for they do not see through the type of a bound function.
InIntegers(g, S) == g \in [SUBSET S -> Int]
-----------------------------------------------------------------------------
LEMMA AnyOfIsIn == ASSUME NEW s, s # {} PROVE AnyOf(s) \in s
BY DEF AnyOf

\* The recursive function exists: it is built up from the sets of at most n elements
\* to those of n + 1.
LEMMA UnfoldingExists ==
  ASSUME NEW S, NEW f, Summable(f, S)
  PROVE  \E g : InIntegers(g, S) /\ Unfolds(g, f, S)
<1> USE DEF Summable
<1> DEFINE Small(n) == {s \in SUBSET S : Cardinality(s) <= n}
           Upto(g, n) == \A s \in Small(n) :
             g[s] = IF s = {} THEN 0 ELSE f[AnyOf(s)] + g[s \ {AnyOf(s)}]
           Fails == {n \in Nat : ~ \E g \in [Small(n) -> Int] : Upto(g, n)}
<1>1. \A s \in SUBSET S : IsFiniteSet(s) /\ Cardinality(s) \in Nat
  BY FS_Subset, FS_CardinalityType
<1>2. ASSUME NEW s \in SUBSET S, s # {}
      PROVE  /\ AnyOf(s) \in s
             /\ s \ {AnyOf(s)} \in SUBSET S
             /\ Cardinality(s \ {AnyOf(s)}) = Cardinality(s) - 1
  BY <1>1, <1>2, AnyOfIsIn, FS_RemoveElement
<1>3. 0 \notin Fails
  <2> DEFINE g0 == [s \in Small(0) |-> 0]
  <2>1. \A s \in Small(0) : s = {}
    BY <1>1, FS_EmptySet
  <2>2. g0 \in [Small(0) -> Int] /\ Upto(g0, 0)
    BY <2>1
  <2> QED
    BY <2>2
<1>4. ASSUME NEW n \in Nat, n \notin Fails
      PROVE  n + 1 \notin Fails
  <2>1. PICK g \in [Small(n) -> Int] : Upto(g, n)
    BY <1>4
  <2> DEFINE h == [s \in Small(n+1) |->
                     IF Cardinality(s) <= n THEN g[s]
                     ELSE f[AnyOf(s)] + g[s \ {AnyOf(s)}]]
  <2>2. ASSUME NEW s \in Small(n+1), s # {}
        PROVE  /\ s \ {AnyOf(s)} \in Small(n)
               /\ f[AnyOf(s)] \in Int
    BY <1>1, <1>2, <2>2
  <2>3. \A s \in Small(n+1) : ~(Cardinality(s) <= n) => s # {}
    <3>1. Cardinality({}) <= n
      BY FS_EmptySet
    <3> QED
      BY <3>1
  <2>4. h \in [Small(n+1) -> Int]
    BY <2>2, <2>3
  <2>5. ASSUME NEW s \in Small(n+1)
        PROVE  h[s] = IF s = {} THEN 0 ELSE f[AnyOf(s)] + h[s \ {AnyOf(s)}]
    <3>1. s # {} => s \ {AnyOf(s)} \in Small(n+1) /\ h[s \ {AnyOf(s)}] = g[s \ {AnyOf(s)}]
      BY <1>1, <2>2
    <3>2. CASE Cardinality(s) <= n
      BY <2>1, <3>1, <3>2
    <3>3. CASE ~(Cardinality(s) <= n)
      BY <2>3, <3>1, <3>3
    <3> QED
      BY <3>2, <3>3
  <2> QED
    BY <2>4, <2>5
<1>5. Fails = {}
  <2> HIDE DEF Fails
  <2> SUFFICES ASSUME Fails # {}
               PROVE  FALSE
    OBVIOUS
  <2>1. Fails \in SUBSET Nat
    BY DEF Fails
  <2>2. PICK n \in Fails : \A m \in Fails : n <= m
    BY <2>1, LeastNat
  <2>3. n # 0 /\ n \in Nat
    BY <1>3, <2>1, <2>2
  <2>4. n - 1 \in Nat /\ n - 1 \notin Fails /\ (n - 1) + 1 = n
    BY <2>1, <2>2, <2>3
  <2> QED
    BY <1>4, <2>2, <2>4
<1>6. PICK g \in [Small(Cardinality(S)) -> Int] : Upto(g, Cardinality(S))
  BY <1>1, <1>5
<1>7. Small(Cardinality(S)) = SUBSET S
  BY FS_Subset
<1> QED
  BY <1>6, <1>7 DEF Unfolds, InIntegers

\* Two unfoldings agree where their domains meet, if the summands do.
LEMMA UnfoldingsAgree ==
  ASSUME NEW S, IsFiniteSet(S), NEW T \in SUBSET S, NEW f, NEW e, NEW g, NEW h,
         Unfolds(g, f, S), Unfolds(h, e, T), \A x \in T : f[x] = e[x]
  PROVE  g[T] = h[T]
<1> DEFINE Bad == {U \in SUBSET T : g[U] # h[U]}
<1>1. ASSUME NEW U \in SUBSET T
      PROVE  /\ g[U] = IF U = {} THEN 0 ELSE f[AnyOf(U)] + g[U \ {AnyOf(U)}]
             /\ h[U] = IF U = {} THEN 0 ELSE e[AnyOf(U)] + h[U \ {AnyOf(U)}]
  BY DEF Unfolds
<1>2. ASSUME NEW U \in Bad
      PROVE  \E V \in Bad : V \subseteq U /\ V # U
  <2>1. U # {}
    BY <1>1
  <2>2. AnyOf(U) \in U
    BY <2>1, AnyOfIsIn
  <2>3. U \ {AnyOf(U)} \in Bad
    BY <1>1, <2>1, <2>2
  <2> QED
    BY <2>2, <2>3
<1>3. Bad = {}
  <2>1. IsFiniteSet(T) /\ Bad \in SUBSET SUBSET T
    BY FS_Subset
  <2> HIDE DEF Bad
  <2> QED
    BY <1>2, <2>1, NoLeastException
<1> QED
  BY <1>3

\* Any element may be the first one summed.
LEMMA UnfoldingTakesAny ==
  ASSUME NEW S, NEW f, Summable(f, S), NEW g, InIntegers(g, S), Unfolds(g, f, S), NEW x \in S
  PROVE  g[S] = f[x] + g[S \ {x}]
<1> USE DEF Summable, InIntegers
<1> DEFINE Bad == {U \in SUBSET S : \E y \in U : g[U] # f[y] + g[U \ {y}]}
<1>1. ASSUME NEW U \in SUBSET S, U # {}
      PROVE  AnyOf(U) \in U /\ g[U] = f[AnyOf(U)] + g[U \ {AnyOf(U)}]
  BY <1>1, AnyOfIsIn DEF Unfolds
<1>2. ASSUME NEW U \in Bad
      PROVE  \E V \in Bad : V \subseteq U /\ V # U
  <2>1. PICK y \in U : g[U] # f[y] + g[U \ {y}]
    OBVIOUS
  <2> DEFINE c == AnyOf(U)
  <2>2. c \in U /\ c # y /\ g[U] = f[c] + g[U \ {c}]
    BY <1>1, <2>1
  <2> HIDE DEF c
  <2>3. (U \ {c}) \ {y} = (U \ {y}) \ {c}
    OBVIOUS
  <2>4. /\ f[c] \in Int /\ f[y] \in Int /\ g[U \ {c}] \in Int /\ g[U \ {y}] \in Int
        /\ g[(U \ {c}) \ {y}] \in Int
    BY <2>2
  <2>5. CASE U \ {c} \in Bad
    BY <2>2, <2>5
  <2>6. CASE U \ {y} \in Bad
    BY <2>6
  <2>7. CASE U \ {c} \notin Bad /\ U \ {y} \notin Bad
    <3>1. g[U \ {c}] = f[y] + g[(U \ {c}) \ {y}]
      BY <2>2, <2>7
    <3>2. g[U \ {y}] = f[c] + g[(U \ {y}) \ {c}]
      BY <2>2, <2>7
    <3> DEFINE rest == g[(U \ {c}) \ {y}]
    <3>3. g[U] = f[c] + (f[y] + rest) /\ g[U \ {y}] = f[c] + rest /\ rest \in Int
      BY <2>2, <2>3, <2>4, <3>1, <3>2
    <3> HIDE DEF rest
    <3>4. g[U] = f[y] + g[U \ {y}]
      BY <2>4, <3>3
    <3> QED
      BY <2>1, <3>4
  <2> QED
    BY <2>5, <2>6, <2>7
<1>3. Bad = {}
  <2>1. Bad \in SUBSET SUBSET S
    OBVIOUS
  <2> HIDE DEF Bad
  <2> QED
    BY <1>2, <2>1, NoLeastException
<1> QED
  BY <1>3
-----------------------------------------------------------------------------
\* The sum is what any unfolding gives: this is how a sum written with another
\* LAMBDA is told to be a SumOf.
LEMMA SumUnfolds ==
  ASSUME NEW S, NEW f, Summable(f, S)
  PROVE  /\ \E g : InIntegers(g, S) /\ Unfolds(g, f, S)
         /\ \A g : Unfolds(g, f, S) => g[S] = SumOf(f, S)
<1>1. PICK g : InIntegers(g, S) /\ Unfolds(g, f, S)
  BY UnfoldingExists
<1> DEFINE h == CHOOSE h : Unfolds(h, f, S)
<1>2. SumOf(f, S) = h[S]
  BY DEF SumOf, MapThenSumSet, MapThenFoldSet, Unfolds, AnyOf
<1>3. Unfolds(h, f, S)
  BY <1>1
<1> HIDE DEF h
<1>4. \A e : Unfolds(e, f, S) => e[S] = h[S]
  BY <1>3, UnfoldingsAgree DEF Summable
<1> QED
  BY <1>1, <1>2, <1>4

LEMMA SumType ==
  ASSUME NEW S, NEW f, Summable(f, S)
  PROVE  SumOf(f, S) \in Int
<1>1. PICK g : InIntegers(g, S) /\ Unfolds(g, f, S)
  BY SumUnfolds
<1>2. g[S] = SumOf(f, S)
  BY <1>1, SumUnfolds
<1> QED
  BY <1>1, <1>2 DEF InIntegers

LEMMA SumEmpty == \A f : SumOf(f, {}) = 0
<1> SUFFICES ASSUME NEW f PROVE SumOf(f, {}) = 0
  OBVIOUS
<1>1. Summable(f, {})
  BY FS_EmptySet DEF Summable
<1>2. PICK g : Unfolds(g, f, {}) /\ g[{}] = SumOf(f, {})
  BY <1>1, SumUnfolds
<1> QED
  BY <1>2 DEF Unfolds

\* Equal summands, equal sums.
LEMMA SumSame ==
  ASSUME NEW S, NEW f, NEW e, Summable(f, S), \A x \in S : e[x] = f[x]
  PROVE  SumOf(e, S) = SumOf(f, S)
<1>1. PICK g : Unfolds(g, f, S) /\ g[S] = SumOf(f, S)
  BY SumUnfolds
<1>2. Summable(e, S)
  BY DEF Summable
<1>3. PICK h : Unfolds(h, e, S) /\ h[S] = SumOf(e, S)
  BY <1>2, SumUnfolds
<1> QED
  BY <1>1, <1>3, UnfoldingsAgree DEF Summable

\* An element is left out, or added.
LEMMA SumWithout ==
  ASSUME NEW S, NEW f, Summable(f, S), NEW x \in S
  PROVE  /\ Summable(f, S \ {x})
         /\ SumOf(f, S) = f[x] + SumOf(f, S \ {x})
<1> DEFINE R == S \ {x}
<1>1. PICK g : InIntegers(g, S) /\ Unfolds(g, f, S)
  BY SumUnfolds
<1>2. g[S] = SumOf(f, S)
  BY <1>1, SumUnfolds
<1>3. g[S] = f[x] + g[R]
  BY <1>1, UnfoldingTakesAny
<1>4. R \in SUBSET S /\ Summable(f, R)
  BY FS_Subset DEF Summable
<1> HIDE DEF R
<1>5. PICK h : Unfolds(h, f, R) /\ h[R] = SumOf(f, R)
  BY <1>4, SumUnfolds
<1>6. g[R] = h[R]
  BY <1>1, <1>4, <1>5, UnfoldingsAgree DEF Summable
<1> QED
  BY <1>2, <1>3, <1>4, <1>5, <1>6 DEF R

LEMMA SumWith ==
  ASSUME NEW S, NEW f, Summable(f, S), NEW x, x \notin S, f[x] \in Int
  PROVE  /\ Summable(f, S \cup {x})
         /\ SumOf(f, S \cup {x}) = f[x] + SumOf(f, S)
<1>1. Summable(f, S \cup {x})
  BY FS_AddElement DEF Summable
<1>2. (S \cup {x}) \ {x} = S
  OBVIOUS
<1> QED
  BY <1>1, <1>2, SumWithout

\* One summand changes.
LEMMA SumChanged ==
  ASSUME NEW S, NEW f, NEW e, Summable(f, S), NEW x \in S, e[x] \in Int,
         \A y \in S \ {x} : e[y] = f[y]
  PROVE  /\ Summable(e, S)
         /\ SumOf(e, S) = SumOf(f, S) - f[x] + e[x]
<1> DEFINE R == S \ {x}
<1>1. Summable(e, S)
  BY DEF Summable
<1>2. Summable(f, R) /\ SumOf(f, S) = f[x] + SumOf(f, R) /\ SumOf(e, S) = e[x] + SumOf(e, R)
  BY <1>1, SumWithout
<1>3. SumOf(e, R) = SumOf(f, R) /\ SumOf(f, R) \in Int
  BY <1>2, SumSame, SumType
<1> QED
  BY <1>1, <1>2, <1>3 DEF Summable

\* Nothing but zeros.
LEMMA SumZero ==
  ASSUME NEW S, NEW f, IsFiniteSet(S), \A x \in S : f[x] = 0
  PROVE  Summable(f, S) /\ SumOf(f, S) = 0
<1> DEFINE Bad == {T \in SUBSET S : SumOf(f, T) # 0}
<1>1. ASSUME NEW T \in Bad
      PROVE  \E U \in Bad : U \subseteq T /\ U # T
  <2>1. T \in SUBSET S /\ SumOf(f, T) # 0
    OBVIOUS
  <2>2. Summable(f, T)
    BY <2>1, FS_Subset DEF Summable
  <2>3. PICK x \in T : TRUE
    BY <2>1, SumEmpty
  <2>4. /\ SumOf(f, T) = f[x] + SumOf(f, T \ {x})
        /\ Summable(f, T \ {x})
    BY <2>2, SumWithout
  <2>5. SumOf(f, T \ {x}) \in Int /\ f[x] = 0
    BY <2>1, <2>4, SumType
  <2>6. SumOf(f, T \ {x}) # 0
    BY <2>1, <2>4, <2>5
  <2>7. T \ {x} \in Bad
    BY <2>1, <2>6
  <2> QED
    BY <2>7
<1> HIDE DEF Bad
<1>2. Bad \in SUBSET SUBSET S
  BY DEF Bad
<1>3. Bad = {}
  BY <1>1, <1>2, NoLeastException
<1> QED
  BY <1>3 DEF Bad, Summable

\* Smaller summands, smaller sum.
LEMMA SumAtMost ==
  ASSUME NEW S, NEW f, NEW e, Summable(f, S), Summable(e, S), \A x \in S : f[x] <= e[x]
  PROVE  SumOf(f, S) <= SumOf(e, S)
<1> DEFINE Bad == {T \in SUBSET S : ~(SumOf(f, T) <= SumOf(e, T))}
<1>1. ASSUME NEW T \in Bad
      PROVE  \E U \in Bad : U \subseteq T /\ U # T
  <2>1. T \in SUBSET S /\ ~(SumOf(f, T) <= SumOf(e, T))
    OBVIOUS
  <2>2. Summable(f, T) /\ Summable(e, T)
    BY <2>1, FS_Subset DEF Summable
  <2>3. PICK x \in T : TRUE
    BY <2>1, SumEmpty
  <2>4. /\ SumOf(f, T) = f[x] + SumOf(f, T \ {x}) /\ Summable(f, T \ {x})
        /\ SumOf(e, T) = e[x] + SumOf(e, T \ {x}) /\ Summable(e, T \ {x})
    BY <2>2, SumWithout
  <2>5. SumOf(f, T \ {x}) \in Int /\ SumOf(e, T \ {x}) \in Int
    BY <2>4, SumType
  <2>6. f[x] \in Int /\ e[x] \in Int /\ f[x] <= e[x]
    BY <2>1, <2>2 DEF Summable
  <2>7. ~(SumOf(f, T \ {x}) <= SumOf(e, T \ {x}))
    BY <2>1, <2>4, <2>5, <2>6
  <2>8. T \ {x} \in Bad
    BY <2>1, <2>7
  <2> QED
    BY <2>8
<1> HIDE DEF Bad
<1>2. Bad \in SUBSET SUBSET S
  BY DEF Bad
<1>3. Bad = {}
  BY <1>1, <1>2, NoLeastException DEF Summable
<1> QED
  BY <1>3 DEF Bad

LEMMA SumOfNaturals ==
  ASSUME NEW S, NEW f, IsFiniteSet(S), \A x \in S : f[x] \in Nat
  PROVE  Summable(f, S) /\ SumOf(f, S) \in Nat
<1> DEFINE zeros == [x \in S |-> 0]
<1>1. Summable(f, S) /\ SumOf(f, S) \in Int
  BY SumType DEF Summable
<1>2. Summable(zeros, S) /\ SumOf(zeros, S) = 0
  BY SumZero
<1>3. \A x \in S : zeros[x] <= f[x]
  OBVIOUS
<1> HIDE DEF zeros
<1>4. SumOf(zeros, S) <= SumOf(f, S)
  BY <1>1, <1>2, <1>3, SumAtMost
<1> QED
  BY <1>1, <1>2, <1>4

\* The same summands, one index further on: the tail of a sequence.
LEMMA SumShifted ==
  ASSUME NEW n \in Nat, NEW f, NEW e, Summable(f, 2..(n + 1)),
         \A i \in 1..n : e[i] = f[i + 1]
  PROVE  SumOf(e, 1..n) = SumOf(f, 2..(n + 1))
<1> DEFINE Up(T) == {i + 1 : i \in T}
           R == 1..n
           Bad == {T \in SUBSET R : SumOf(e, T) # SumOf(f, Up(T))}
<1>1. ASSUME NEW T \in Bad
      PROVE  \E U \in Bad : U \subseteq T /\ U # T
  <2>1. T \in SUBSET (1..n) /\ SumOf(e, T) # SumOf(f, Up(T))
    OBVIOUS
  <2>2. Up(T) \subseteq 2..(n + 1)
    BY <2>1
  <2>3. Summable(f, Up(T)) /\ Summable(e, T)
    <3>1. IsFiniteSet(1..n)
      BY FS_Interval
    <3>2. \A i \in T : i \in 1..n /\ i + 1 \in 2..(n + 1)
      BY <2>1
    <3> QED
      BY <2>1, <2>2, <3>1, <3>2, FS_Subset DEF Summable
  <2>4. PICK x \in T : TRUE
    <3>1. T # {}
      <4>1. Up({}) = {}
        OBVIOUS
      <4> HIDE DEF Up
      <4> QED
        BY <2>1, <4>1, SumEmpty
    <3> QED
      BY <3>1
  <2>5. /\ x + 1 \in Up(T) /\ Up(T) \ {x + 1} = Up(T \ {x})
        /\ e[x] = f[x + 1]
    BY <2>1, <2>4
  <2>6. /\ SumOf(e, T) = e[x] + SumOf(e, T \ {x})
        /\ SumOf(f, Up(T)) = f[x + 1] + SumOf(f, Up(T \ {x}))
    <3>1. SumOf(e, T) = e[x] + SumOf(e, T \ {x})
      BY <2>3, <2>4, SumWithout
    <3> DEFINE V == Up(T)
               W == Up(T \ {x})
               y == x + 1
    <3>2. Summable(f, V) /\ y \in V /\ V \ {y} = W
      BY <2>3, <2>5
    <3> HIDE DEF V, W, y
    <3>3. SumOf(f, V) = f[y] + SumOf(f, W)
      BY <3>2, SumWithout
    <3> QED
      BY <3>1, <3>3 DEF V, W, y
  <2> HIDE DEF Up
  <2>7. SumOf(e, T \ {x}) # SumOf(f, Up(T \ {x}))
    BY <2>1, <2>5, <2>6
  <2>8. T \ {x} \in Bad
    BY <2>1, <2>7
  <2> QED
    BY <2>4, <2>8
<1>2. Bad \in SUBSET SUBSET R /\ IsFiniteSet(R)
  BY FS_Interval
<1>3. Up(R) = 2..(n + 1)
  <2>1. ASSUME NEW j \in 2..(n + 1) PROVE j \in Up(R)
    <3>1. j - 1 \in R /\ j = (j - 1) + 1
      OBVIOUS
    <3> QED
      BY <3>1
  <2>2. Up(R) \subseteq 2..(n + 1)
    OBVIOUS
  <2> HIDE DEF Up
  <2> QED
    BY <2>1, <2>2
<1> HIDE DEF Up, R
<1>4. Bad = {}
  <2> HIDE DEF Bad
  <2> QED
    BY <1>1, <1>2, NoLeastException
<1> QED
  BY <1>3, <1>4 DEF R
-----------------------------------------------------------------------------
\* R orders S strictly.
StrictlyOrders(R, S) ==
  /\ \A x \in S : <<x, x>> \notin R
  /\ \A x, y, z \in S : <<x, y>> \in R /\ <<y, z>> \in R => <<x, z>> \in R
  /\ \A x, y \in S : x # y => <<x, y>> \in R \/ <<y, x>> \in R

\* In a finite set that is ordered, each part but the empty one has a last element.
LEMMA LastOne ==
  ASSUME NEW S, IsFiniteSet(S), NEW R, StrictlyOrders(R, S), NEW T, T \subseteq S, T # {}
  PROVE  \E x \in T : \A y \in T \ {x} : <<y, x>> \in R
<1> DEFINE IsLast(x, U) == x \in U /\ \A y \in U \ {x} : <<y, x>> \in R
           Bad == {U \in SUBSET S : U # {} /\ ~ \E x \in U : IsLast(x, U)}
<1>1. ASSUME NEW U \in Bad PROVE \E V \in Bad : V \subseteq U /\ V # U
  <2>1. PICK x \in U : TRUE
    OBVIOUS
  <2> DEFINE V == {y \in U : <<x, y>> \in R}
  <2>2. V \subseteq U /\ V # U
    BY <2>1 DEF StrictlyOrders
  <2>3. V # {}
    <3>1. PICK y \in U \ {x} : <<y, x>> \notin R
      BY <2>1
    <3> QED
      BY <2>1, <3>1 DEF StrictlyOrders
  <2>4. ASSUME NEW z \in V, IsLast(z, V) PROVE FALSE
    <3>1. ASSUME NEW y \in U \ {z} PROVE <<y, z>> \in R
      <4>1. CASE y \in V
        BY <2>4, <3>1, <4>1
      <4>2. CASE y \notin V
        <5>1. y = x \/ <<y, x>> \in R
          BY <2>1, <3>1, <4>2 DEF StrictlyOrders
        <5>2. <<x, z>> \in R
          BY <2>4
        <5> QED
          BY <2>1, <2>4, <3>1, <5>1, <5>2 DEF StrictlyOrders
      <4> QED
        BY <4>1, <4>2
    <3> QED
      BY <2>4, <3>1
  <2> QED
    BY <2>2, <2>3, <2>4
<1>2. Bad = {}
  <2>1. Bad \in SUBSET SUBSET S
    OBVIOUS
  <2> HIDE DEF Bad
  <2> QED
    BY <1>1, <2>1, NoLeastException
<1> QED
  BY <1>2

LEMMA LastOfAll ==
  ASSUME NEW S, IsFiniteSet(S), NEW R, StrictlyOrders(R, S), S # {}
  PROVE  \E x \in S : \A y \in S \ {x} : <<y, x>> \in R
BY LastOne

\* A finite set can be counted in order.
LEMMA SortedEnumeration ==
  ASSUME NEW S, IsFiniteSet(S), NEW R, StrictlyOrders(R, S)
  PROVE  \E q \in [1..Cardinality(S) -> S] : \A i, j \in DOMAIN q : i < j => <<q[i], q[j]>> \in R
<1> DEFINE Sorted(q) == \A i, j \in DOMAIN q : i < j => <<q[i], q[j]>> \in R
           Bad == {T \in SUBSET S : ~ \E q \in [1..Cardinality(T) -> T] : Sorted(q)}
<1>1. ASSUME NEW T \in Bad PROVE \E U \in Bad : U \subseteq T /\ U # T
  <2>1. T # {}
    <3> SUFFICES ASSUME T = {} PROVE FALSE
      OBVIOUS
    <3>1. 1..Cardinality(T) = {}
      BY FS_EmptySet
    <3>2. [i \in {} |-> i] \in [1..Cardinality(T) -> T] /\ Sorted([i \in {} |-> i])
      BY <3>1
    <3> QED
      BY <3>2
  <2>2. PICK x \in T : \A y \in T \ {x} : <<y, x>> \in R
    BY <2>1, LastOne
  <2> DEFINE U == T \ {x}
  <2>3. IsFiniteSet(T) /\ Cardinality(T) \in Nat /\ Cardinality(U) = Cardinality(T) - 1
        /\ Cardinality(U) \in Nat
    BY FS_Subset, FS_CardinalityType, FS_RemoveElement
  <2> DEFINE n == Cardinality(T)
  <2> HIDE DEF n
  <2>4. ASSUME NEW q \in [1..Cardinality(U) -> U], Sorted(q) PROVE FALSE
    <3> DEFINE p == [i \in 1..n |-> IF i = n THEN x ELSE q[i]]
    <3>1. n \in Nat /\ DOMAIN q = 1..(n - 1)
      BY <2>3, <2>4 DEF n
    <3>2. \A i \in 1..n : i # n => i \in 1..(n - 1)
      BY <3>1
    <3>3. p \in [1..n -> T]
      BY <2>4, <3>1, <3>2
    <3>4. ASSUME NEW i \in 1..n, NEW j \in 1..n, i < j PROVE <<p[i], p[j]>> \in R
      <4>1. i # n /\ i \in 1..(n - 1)
        BY <3>1, <3>4
      <4>2. CASE j = n
        BY <2>2, <2>4, <3>1, <4>1, <4>2
      <4>3. CASE j # n
        BY <2>4, <3>1, <3>2, <3>4, <4>1, <4>3
      <4> QED
        BY <4>2, <4>3
    <3>5. p \in [1..Cardinality(T) -> T] /\ Sorted(p)
      BY <3>3, <3>4 DEF n
    <3> QED
      BY <3>5
  <2>5. U \in Bad
    BY <2>4
  <2> QED
    BY <2>2, <2>5
<1>2. Bad = {}
  <2>1. Bad \in SUBSET SUBSET S
    OBVIOUS
  <2> HIDE DEF Bad
  <2> QED
    BY <1>1, <2>1, NoLeastException
<1> QED
  BY <1>2

\* What Max chooses is there to be chosen.
LEMMA GreatestNumber ==
  ASSUME NEW S \in SUBSET Nat, S # {}, IsFiniteSet(S)
  PROVE  \E x \in S : \A y \in S : x >= y
<1> DEFINE R == {p \in Nat \X Nat : p[1] < p[2]}
<1>1. StrictlyOrders(R, S)
  BY DEF StrictlyOrders
<1>2. \E x \in S : \A y \in S \ {x} : <<y, x>> \in R
  <2> HIDE DEF R
  <2> QED
    BY <1>1, LastOfAll
<1>3. PICK x \in S : \A y \in S \ {x} : <<y, x>> \in R
  BY <1>2
<1>4. \A y \in S \ {x} : y < x
  BY <1>3
<1>5. \A y \in S : y \in Nat
  OBVIOUS
<1> QED
  BY <1>4, <1>5
=============================================================================
