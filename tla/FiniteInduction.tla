---------------------------- MODULE FiniteInduction ----------------------------
(***************************************************************************)
(* Induction where the library's theorems cannot be used, and what follows  *)
(* from it.  A non-empty set of natural numbers has a least element, as the *)
(* stores that serve the oldest entry first need; so a set of numbers that  *)
(* leaves no least number out is all of them.  The library computes a sum   *)
(* over a set (MapThenSumSet and SumSet of FiniteSetsExt) by a recursive    *)
(* function on its subsets, one chosen element after the other; that such a *)
(* function exists, and what it returns, is shown by that induction.        *)
(***************************************************************************)
EXTENDS Integers, FiniteSets, FiniteSetsExt, FiniteSetTheorems, WellFoundedInduction, TLAPS

\* The order of the natural numbers is well-founded.
LEMMA LeastExists ==
  ASSUME NEW S \in SUBSET Nat, S # {} PROVE \E x \in S : \A y \in S : x <= y
<1> DEFINE R == {ss \in Nat \X Nat : ss[1] < ss[2]}
<1>1. IsWellFoundedOn(R, Nat)
  <2>1. OpToRel(<, Nat) = R
    BY Zenon DEF OpToRel
  <2> QED
    BY <2>1, NatLessThanWellFounded, Zenon
<1>2. \A x, y \in Nat : <<y, x>> \notin R => x <= y
  OBVIOUS
<1> HIDE DEF R
<1>3. PICK x \in S : \A y \in S : <<y, x>> \notin R
  BY <1>1, WFMin
<1>4. \A y \in S : x <= y
  BY <1>2, <1>3
<1> QED
  BY <1>4

\* Induction, over a set of numbers: no least number is left out.
LEMMA Induction ==
  ASSUME NEW N \in SUBSET Nat, 0 \in N, \A n \in N : n + 1 \in N
  PROVE  N = Nat
<1> SUFFICES ASSUME Nat \ N # {} PROVE FALSE
  OBVIOUS
<1>1. PICK m \in Nat \ N : \A k \in Nat \ N : m <= k
  BY LeastExists
<1>2. m - 1 \in Nat /\ m - 1 \in N
  BY <1>1
<1> QED
  BY <1>1, <1>2

-----------------------------------------------------------------------------
(* Sums *)
SumOf(f, S) == MapThenSumSet(LAMBDA x : f[x], S)

Chosen(T) == CHOOSE x \in T : TRUE

\* g is the library's recursive function for the values f.
Sums(g, f, S) ==
    \A T \in SUBSET S :
        g[T] = IF T = {} THEN 0 ELSE f[Chosen(T)] + g[T \ {Chosen(T)}]

LEMMA ChosenIn == ASSUME NEW T, T # {} PROVE Chosen(T) \in T
  BY DEF Chosen

\* A set without its chosen element has one element less.
LEMMA WithoutChosen ==
  ASSUME NEW T, IsFiniteSet(T), T # {}
  PROVE  /\ IsFiniteSet(T \ {Chosen(T)}) /\ Cardinality(T) \in Nat
         /\ Cardinality(T \ {Chosen(T)}) = Cardinality(T) - 1
         /\ Cardinality(T \ {Chosen(T)}) \in Nat
  BY ChosenIn, FS_RemoveElement, FS_CardinalityType

LEMMA FoldExists ==
  ASSUME NEW S, IsFiniteSet(S), NEW f \in [S -> Int]
  PROVE  \E g \in [SUBSET S -> Int] : Sums(g, f, S)
<1> DEFINE Next(g, T) == IF T = {} THEN 0 ELSE f[Chosen(T)] + g[T \ {Chosen(T)}]
           UpTo(n) == \E g \in [SUBSET S -> Int] :
                        \A T \in SUBSET S : Cardinality(T) <= n => g[T] = Next(g, T)
           N == { n \in Nat : UpTo(n) }
<1>0. \A T \in SUBSET S : IsFiniteSet(T) /\ Cardinality(T) \in Nat /\ Cardinality(T) <= Cardinality(S)
  BY FS_Subset, FS_CardinalityType
<1>1. 0 \in N
  <2>1. \A T \in SUBSET S : Cardinality(T) <= 0 => T = {}
    BY <1>0, FS_EmptySet
  <2> DEFINE g == [T \in SUBSET S |-> 0]
  <2>2. g \in [SUBSET S -> Int] /\ \A T \in SUBSET S : Cardinality(T) <= 0 => g[T] = Next(g, T)
    BY <2>1
  <2> QED
    BY <2>2
<1>2. ASSUME NEW n \in N PROVE n + 1 \in N
  <2>1. PICK g \in [SUBSET S -> Int] :
            \A T \in SUBSET S : Cardinality(T) <= n => g[T] = Next(g, T)
    BY <1>2
  <2> DEFINE h == [T \in SUBSET S |-> IF Cardinality(T) <= n THEN g[T] ELSE Next(g, T)]
  <2>2. ASSUME NEW T \in SUBSET S, T # {}
        PROVE  /\ T \ {Chosen(T)} \in SUBSET S /\ Chosen(T) \in S
               /\ Cardinality(T \ {Chosen(T)}) = Cardinality(T) - 1 /\ Cardinality(T) \in Nat
    BY <1>0, <2>2, ChosenIn, WithoutChosen
  <2>3. ASSUME NEW T \in SUBSET S PROVE Next(g, T) \in Int
    <3>1. CASE T = {}
      BY <3>1
    <3>2. CASE T # {}
      <4>1. g[T \ {Chosen(T)}] \in Int /\ f[Chosen(T)] \in Int
        BY <2>2, <3>2
      <4> QED
        BY <3>2, <4>1
    <3> QED
      BY <3>1, <3>2
  <2>4. h \in [SUBSET S -> Int]
    <3> HIDE DEF Next
    <3> QED
      BY <2>3
  <2>5. ASSUME NEW T \in SUBSET S, Cardinality(T) <= n + 1 PROVE h[T] = Next(h, T)
    <3>1. h[T] = Next(g, T)
      <4> HIDE DEF Next
      <4> QED
        BY <2>1
    <3>2. CASE T = {}
      BY <3>1, <3>2
    <3>3. CASE T # {}
      <4>1. h[T \ {Chosen(T)}] = g[T \ {Chosen(T)}]
        BY <2>2, <2>5, <3>3
      <4> QED
        BY <3>1, <3>3, <4>1
    <3> QED
      BY <3>2, <3>3
  <2>6. UpTo(n + 1)
    <3> HIDE DEF h, Next
    <3> QED
      BY <2>4, <2>5
  <2> QED
    BY <2>6
<1>3. Cardinality(S) \in N
  <2> HIDE DEF N
  <2>1. N \in SUBSET Nat
    BY DEF N
  <2> QED
    BY <1>0, <1>1, <1>2, <2>1, Induction
<1>4. PICK g \in [SUBSET S -> Int] :
          \A T \in SUBSET S : Cardinality(T) <= Cardinality(S) => g[T] = Next(g, T)
  BY <1>3
<1> QED
  BY <1>0, <1>4 DEF Sums

\* The library's sum is the value of such a function.
LEMMA SumUnfolds ==
  ASSUME NEW S, IsFiniteSet(S), NEW f \in [S -> Int]
  PROVE  \E g : Sums(g, f, S) /\ SumOf(f, S) = g[S]
<1> DEFINE Body(g) == [T \in SUBSET S |->
                          IF T = {} THEN 0 ELSE f[Chosen(T)] + g[T \ {Chosen(T)}]]
           fold == CHOOSE g : g = Body(g)
<1>1. PICK g \in [SUBSET S -> Int] : Sums(g, f, S)
  BY FoldExists
<1>2. g = Body(g)
  BY <1>1 DEF Sums
<1>3. fold = Body(fold)
  <2> HIDE DEF Body
  <2> QED
    BY <1>2
<1>4. SumOf(f, S) = fold[S]
  BY DEF SumOf, MapThenSumSet, MapThenFoldSet, Chosen
<1>5. Sums(fold, f, S)
  <2> HIDE DEF fold
  <2> QED
    BY <1>3 DEF Sums
<1> QED
  BY <1>4, <1>5

LEMMA SumSetUnfolds ==
  ASSUME NEW S, IsFiniteSet(S), S \subseteq Int
  PROVE  \E g : Sums(g, [x \in S |-> x], S) /\ SumSet(S) = g[S]
<1> DEFINE f == [x \in S |-> x]
           Body(g) == [T \in SUBSET S |->
                          IF T = {} THEN 0 ELSE Chosen(T) + g[T \ {Chosen(T)}]]
           fold == CHOOSE g : g = Body(g)
<1>1. PICK g \in [SUBSET S -> Int] : Sums(g, f, S)
  BY FoldExists
<1>0. \A T \in SUBSET S : T # {} => f[Chosen(T)] = Chosen(T)
  BY ChosenIn
<1>2. g = Body(g)
  BY <1>0, <1>1 DEF Sums
<1>3. fold = Body(fold)
  <2> HIDE DEF Body
  <2> QED
    BY <1>2
<1>4. SumSet(S) = fold[S]
  BY DEF SumSet, FoldSet, MapThenFoldSet, Chosen
<1>5. Sums(fold, f, S)
  <2> HIDE DEF fold, f
  <2> QED
    BY <1>0, <1>3 DEF Sums
<1> QED
  BY <1>4, <1>5

-----------------------------------------------------------------------------
(* What follows goes up the subsets of S one chosen element at a time.       *)
LEMMA OneByOne ==
  ASSUME NEW S, IsFiniteSet(S)
  PROVE  /\ \A T \in SUBSET S : Cardinality(T) = 0 => T = {}
         /\ \A n \in Nat, T \in SUBSET S :
               Cardinality(T) = n + 1 =>
                   /\ T # {} /\ Chosen(T) \in T
                   /\ T \ {Chosen(T)} \in SUBSET S /\ Cardinality(T \ {Chosen(T)}) = n
<1>1. \A T \in SUBSET S : IsFiniteSet(T)
  BY FS_Subset
<1>2. \A T \in SUBSET S : Cardinality(T) = 0 => T = {}
  BY <1>1, FS_EmptySet
<1>3. ASSUME NEW n \in Nat, NEW T \in SUBSET S, Cardinality(T) = n + 1
      PROVE  /\ T # {} /\ Chosen(T) \in T
             /\ T \ {Chosen(T)} \in SUBSET S /\ Cardinality(T \ {Chosen(T)}) = n
  <2>1. T # {}
    <3>1. Cardinality({}) = 0
      BY FS_EmptySet
    <3> QED
      BY <1>3, <3>1
  <2> QED
    BY <1>1, <1>3, <2>1, ChosenIn, WithoutChosen
<1> QED
  BY <1>2, <1>3

\* Sums over the subsets are numbers, and no more than a bound for each element.
LEMMA SumsBounded ==
  ASSUME NEW S, IsFiniteSet(S), NEW f \in [S -> Int], NEW g, Sums(g, f, S),
         NEW e \in Int, \A x \in S : f[x] <= e
  PROVE  g[S] \in Int /\ g[S] <= Cardinality(S) * e
<1> DEFINE P(n) == \A T \in SUBSET S : Cardinality(T) = n => g[T] \in Int /\ g[T] <= n * e
           N == { n \in Nat : P(n) }
<1>1. 0 \in N
  <2>1. g[{}] = 0
    BY DEF Sums
  <2>2. 0 * e = 0
    OBVIOUS
  <2> SUFFICES ASSUME NEW T \in SUBSET S, Cardinality(T) = 0
               PROVE  g[T] \in Int /\ g[T] <= 0 * e
    OBVIOUS
  <2>3. T = {}
    BY OneByOne
  <2> QED
    BY <2>1, <2>2, <2>3
<1>2. ASSUME NEW n \in N PROVE n + 1 \in N
  <2> SUFFICES ASSUME NEW T \in SUBSET S, Cardinality(T) = n + 1
               PROVE  g[T] \in Int /\ g[T] <= (n + 1) * e
    OBVIOUS
  <2>1. T # {}
    BY OneByOne
  <2> DEFINE c == Chosen(T)
             R == T \ {c}
  <2>2. c \in T /\ Cardinality(R) = n
    BY OneByOne
  <2>3. g[R] \in Int /\ g[R] <= n * e
    BY <1>2, <2>2
  <2>4. g[T] = f[c] + g[R]
    BY <2>1 DEF Sums
  <2>5. f[c] \in Int /\ f[c] <= e
    BY <2>2
  <2>6. (n + 1) * e = n * e + e /\ n * e \in Int
    OBVIOUS
  <2> HIDE DEF c, R
  <2> QED
    BY <2>3, <2>4, <2>5, <2>6
<1>3. N = Nat
  <2>1. N \in SUBSET Nat
    OBVIOUS
  <2> HIDE DEF N
  <2> QED
    BY <1>1, <1>2, <2>1, Induction
<1>4. Cardinality(S) \in N
  BY <1>3, FS_CardinalityType
<1> QED
  BY <1>4

LEMMA SumSetBounded ==
  ASSUME NEW S, IsFiniteSet(S), S \subseteq Int, NEW e \in Int, \A x \in S : x <= e
  PROVE  SumSet(S) \in Int /\ SumSet(S) <= Cardinality(S) * e
<1> DEFINE f == [x \in S |-> x]
<1>1. f \in [S -> Int] /\ \A x \in S : f[x] <= e
  OBVIOUS
<1>2. PICK g : Sums(g, f, S) /\ SumSet(S) = g[S]
  BY SumSetUnfolds
<1> HIDE DEF f
<1> QED
  BY <1>1, <1>2, SumsBounded

\* A sum of numbers is a number.
LEMMA SumTyped ==
  ASSUME NEW S, IsFiniteSet(S), NEW f \in [S -> Int] PROVE SumOf(f, S) \in Int
<1>1. PICK g : Sums(g, f, S) /\ SumOf(f, S) = g[S]
  BY SumUnfolds
<1> DEFINE P(n) == \A T \in SUBSET S : Cardinality(T) = n => g[T] \in Int
           N == { n \in Nat : P(n) }
<1>2. 0 \in N
  <2>1. g[{}] = 0
    BY <1>1 DEF Sums
  <2> QED
    BY <2>1, OneByOne
<1>3. ASSUME NEW n \in N PROVE n + 1 \in N
  <2> SUFFICES ASSUME NEW T \in SUBSET S, Cardinality(T) = n + 1 PROVE g[T] \in Int
    OBVIOUS
  <2>1. T # {} /\ Chosen(T) \in S /\ Cardinality(T \ {Chosen(T)}) = n
        /\ T \ {Chosen(T)} \in SUBSET S
    BY OneByOne
  <2>2. g[T \ {Chosen(T)}] \in Int /\ f[Chosen(T)] \in Int
    BY <1>3, <2>1
  <2>3. g[T] = f[Chosen(T)] + g[T \ {Chosen(T)}]
    BY <1>1, <2>1 DEF Sums
  <2> QED
    BY <2>2, <2>3
<1>4. N = Nat
  <2>1. N \in SUBSET Nat
    OBVIOUS
  <2> HIDE DEF N
  <2> QED
    BY <1>2, <1>3, <2>1, Induction
<1>5. Cardinality(S) \in N
  BY <1>4, FS_CardinalityType
<1> QED
  BY <1>1, <1>5

\* A sum whose elements are all 0 is 0.
LEMMA SumOfNothing ==
  ASSUME NEW S, IsFiniteSet(S), NEW f \in [S -> Int], \A x \in S : f[x] = 0
  PROVE  SumOf(f, S) = 0
<1>1. PICK g : Sums(g, f, S) /\ SumOf(f, S) = g[S]
  BY SumUnfolds
<1> DEFINE P(n) == \A T \in SUBSET S : Cardinality(T) = n => g[T] = 0
           N == { n \in Nat : P(n) }
<1>2. 0 \in N
  BY <1>1, OneByOne DEF Sums
<1>3. ASSUME NEW n \in N PROVE n + 1 \in N
  <2> SUFFICES ASSUME NEW T \in SUBSET S, Cardinality(T) = n + 1 PROVE g[T] = 0
    OBVIOUS
  <2>1. T # {}
    BY OneByOne
  <2>2. Chosen(T) \in T /\ Cardinality(T \ {Chosen(T)}) = n
    BY OneByOne
  <2>3. g[T \ {Chosen(T)}] = 0
    BY <1>3, <2>2
  <2>4. g[T] = f[Chosen(T)] + g[T \ {Chosen(T)}]
    BY <1>1, <2>1 DEF Sums
  <2> QED
    BY <2>2, <2>3, <2>4
<1>4. N = Nat
  <2>1. N \in SUBSET Nat
    OBVIOUS
  <2> HIDE DEF N
  <2> QED
    BY <1>2, <1>3, <2>1, Induction
<1>5. Cardinality(S) \in N
  BY <1>4, FS_CardinalityType
<1> QED
  BY <1>1, <1>5

\* Where one element changes, the sum changes by as much.
LEMMA SumChanges ==
  ASSUME NEW S, IsFiniteSet(S), NEW f \in [S -> Int], NEW h \in [S -> Int], NEW x \in S,
         \A y \in S : y # x => h[y] = f[y]
  PROVE  SumOf(h, S) = SumOf(f, S) - f[x] + h[x]
<1> DEFINE v == h[x]
<1>0. h \in [S -> Int] /\ h[x] = v /\ (\A y \in S : y # x => h[y] = f[y]) /\ v \in Int
  OBVIOUS
<1> HIDE DEF v
<1>1. PICK a : Sums(a, f, S) /\ SumOf(f, S) = a[S]
  BY SumUnfolds
<1>2. PICK b : Sums(b, h, S) /\ SumOf(h, S) = b[S]
  BY <1>0, SumUnfolds
<1> DEFINE P(n) == \A T \in SUBSET S : Cardinality(T) = n =>
                       /\ a[T] \in Int
                       /\ b[T] = a[T] + (IF x \in T THEN v - f[x] ELSE 0)
           N == { n \in Nat : P(n) }
<1>4. 0 \in N
  <2>1. a[{}] = 0 /\ b[{}] = 0
    BY <1>1, <1>2 DEF Sums
  <2> QED
    BY <2>1, OneByOne
<1>5. ASSUME NEW n \in N PROVE n + 1 \in N
  <2> SUFFICES ASSUME NEW T \in SUBSET S, Cardinality(T) = n + 1
               PROVE  /\ a[T] \in Int
                      /\ b[T] = a[T] + (IF x \in T THEN v - f[x] ELSE 0)
    OBVIOUS
  <2>1. T # {}
    BY OneByOne
  <2> DEFINE c == Chosen(T)
             R == T \ {c}
  <2>2. c \in T /\ c \in S /\ R \in SUBSET S /\ Cardinality(R) = n
    BY OneByOne
  <2>3. a[R] \in Int /\ b[R] = a[R] + (IF x \in R THEN v - f[x] ELSE 0)
    BY <1>5, <2>2
  <2>4. a[T] = f[c] + a[R] /\ b[T] = h[c] + b[R]
    BY <1>1, <1>2, <2>1 DEF Sums
  <2>5. f[c] \in Int /\ f[x] \in Int /\ h[c] \in Int
    BY <1>0, <2>2
  <2>6. CASE c = x
    <3>1. x \in T /\ x \notin R /\ h[c] = v
      BY <1>0, <2>2, <2>6
    <3> HIDE DEF c, R
    <3> QED
      BY <1>0, <2>3, <2>4, <2>5, <2>6, <3>1
  <2>7. CASE c # x
    <3>1. (x \in T <=> x \in R) /\ h[c] = f[c]
      BY <1>0, <2>2, <2>7
    <3> HIDE DEF c, R
    <3> QED
      BY <1>0, <2>3, <2>4, <2>5, <3>1
  <2> QED
    BY <2>6, <2>7
<1>6. N = Nat
  <2>1. N \in SUBSET Nat
    OBVIOUS
  <2> HIDE DEF N
  <2> QED
    BY <1>4, <1>5, <2>1, Induction
<1>7. Cardinality(S) \in N
  BY <1>6, FS_CardinalityType
<1>8. a[S] \in Int /\ b[S] = a[S] + (v - f[x]) /\ f[x] \in Int
  BY <1>7
<1> QED
  BY <1>1, <1>2, <1>8, SumTyped DEF v

\* So are the sums over its subsets.
LEMMA SumsTyped ==
  ASSUME NEW S, IsFiniteSet(S), NEW f \in [S -> Int], NEW g, Sums(g, f, S)
  PROVE  \A T \in SUBSET S : g[T] \in Int
<1> DEFINE P(n) == \A T \in SUBSET S : Cardinality(T) = n => g[T] \in Int
           N == { n \in Nat : P(n) }
<1>1. 0 \in N
  <2>1. g[{}] = 0
    BY DEF Sums
  <2> QED
    BY <2>1, OneByOne
<1>2. ASSUME NEW n \in N PROVE n + 1 \in N
  <2> SUFFICES ASSUME NEW T \in SUBSET S, Cardinality(T) = n + 1 PROVE g[T] \in Int
    OBVIOUS
  <2>1. T # {} /\ Chosen(T) \in S /\ Cardinality(T \ {Chosen(T)}) = n
        /\ T \ {Chosen(T)} \in SUBSET S
    BY OneByOne
  <2>2. g[T \ {Chosen(T)}] \in Int /\ f[Chosen(T)] \in Int
    BY <1>2, <2>1
  <2>3. g[T] = f[Chosen(T)] + g[T \ {Chosen(T)}]
    BY <2>1 DEF Sums
  <2> QED
    BY <2>2, <2>3
<1>3. N = Nat
  <2>1. N \in SUBSET Nat
    OBVIOUS
  <2> HIDE DEF N
  <2> QED
    BY <1>1, <1>2, <2>1, Induction
<1>4. \A T \in SUBSET S : Cardinality(T) \in N
  BY <1>3, FS_Subset, FS_CardinalityType
<1> QED
  BY <1>4

\* A sum without one of its elements is less by that element.
LEMMA SumsSplit ==
  ASSUME NEW S, IsFiniteSet(S), NEW f \in [S -> Int], NEW g, Sums(g, f, S)
  PROVE  \A T \in SUBSET S : \A x \in T : g[T] = f[x] + g[T \ {x}]
<1> DEFINE P(n) == \A T \in SUBSET S :
                      Cardinality(T) = n => \A x \in T : g[T] = f[x] + g[T \ {x}]
           N == { n \in Nat : P(n) }
<1>0. \A T \in SUBSET S : IsFiniteSet(T) /\ Cardinality(T) \in Nat /\ g[T] \in Int
  BY FS_Subset, FS_CardinalityType, SumsTyped
<1>1. 0 \in N
  BY OneByOne
<1>2. ASSUME NEW n \in N PROVE n + 1 \in N
  <2> SUFFICES ASSUME NEW T \in SUBSET S, Cardinality(T) = n + 1, NEW x \in T
               PROVE  g[T] = f[x] + g[T \ {x}]
    OBVIOUS
  <2>1. T # {} /\ Chosen(T) \in T /\ T \ {Chosen(T)} \in SUBSET S
        /\ Cardinality(T \ {Chosen(T)}) = n
    BY OneByOne
  <2>2. PICK c : c = Chosen(T)
    OBVIOUS
  <2>3. c \in T /\ T \ {c} \in SUBSET S /\ Cardinality(T \ {c}) = n /\ g[T] = f[c] + g[T \ {c}]
    BY <2>1, <2>2 DEF Sums
  <2>4. CASE x = c
    BY <2>3, <2>4
  <2>5. CASE x # c
    <3>1. T \ {x} \in SUBSET S /\ IsFiniteSet(T) /\ c \in T \ {x}
      BY <1>0, <2>3, <2>5
    <3>2. Cardinality(T \ {x}) = n
      <4>1. Cardinality(T \ {x}) = Cardinality(T) - 1
        BY <3>1, FS_RemoveElement
      <4> QED
        BY <4>1
    <3>3. g[T \ {x}] = f[c] + g[(T \ {x}) \ {c}]
      BY <1>2, <3>1, <3>2
    <3>4. g[T \ {c}] = f[x] + g[(T \ {c}) \ {x}]
      BY <1>2, <2>3, <2>5
    <3>5. (T \ {c}) \ {x} = (T \ {x}) \ {c}
      OBVIOUS
    <3>6. PICK R : R = (T \ {x}) \ {c}
      OBVIOUS
    <3>7. f[x] \in Int /\ f[c] \in Int /\ g[R] \in Int
      BY <1>0, <2>3, <3>6
    <3>8. g[T] = f[c] + (f[x] + g[R]) /\ g[T \ {x}] = f[c] + g[R]
      BY <2>3, <3>3, <3>4, <3>5, <3>6
    <3> QED
      BY <3>7, <3>8
  <2> QED
    BY <2>4, <2>5
<1>3. N = Nat
  <2>1. N \in SUBSET Nat
    OBVIOUS
  <2> HIDE DEF N
  <2> QED
    BY <1>1, <1>2, <2>1, Induction
<1> QED
  BY <1>0, <1>3

\* Sums of the same numbers are the same.
LEMMA SumsAlike ==
  ASSUME NEW S, IsFiniteSet(S), NEW T \in SUBSET S, NEW f \in [S -> Int], NEW e \in [T -> Int],
         NEW g, Sums(g, f, S), NEW h, Sums(h, e, T), \A x \in T : e[x] = f[x]
  PROVE  h[T] = g[T]
<1> DEFINE P(n) == \A U \in SUBSET T : Cardinality(U) = n => h[U] = g[U]
           N == { n \in Nat : P(n) }
<1>0. IsFiniteSet(T) /\ \A U \in SUBSET T : Cardinality(U) \in Nat
  BY FS_Subset, FS_CardinalityType
<1>1. 0 \in N
  <2>1. g[{}] = 0 /\ h[{}] = 0
    BY DEF Sums
  <2> QED
    BY <1>0, <2>1, OneByOne
<1>2. ASSUME NEW n \in N PROVE n + 1 \in N
  <2> SUFFICES ASSUME NEW U \in SUBSET T, Cardinality(U) = n + 1 PROVE h[U] = g[U]
    OBVIOUS
  <2>1. U # {} /\ Chosen(U) \in U /\ U \ {Chosen(U)} \in SUBSET T
        /\ Cardinality(U \ {Chosen(U)}) = n
    BY <1>0, OneByOne
  <2>2. h[U \ {Chosen(U)}] = g[U \ {Chosen(U)}]
    BY <1>2, <2>1
  <2>3. g[U] = f[Chosen(U)] + g[U \ {Chosen(U)}] /\ h[U] = e[Chosen(U)] + h[U \ {Chosen(U)}]
    BY <2>1 DEF Sums
  <2> QED
    BY <2>1, <2>2, <2>3
<1>3. N = Nat
  <2>1. N \in SUBSET Nat
    OBVIOUS
  <2> HIDE DEF N
  <2> QED
    BY <1>1, <1>2, <2>1, Induction
<1> QED
  BY <1>0, <1>3

LiesBetween(f, e, k, l, S) == \A x \in S : k * e[x] <= f[x] /\ f[x] <= l * e[x]
\* Where each number lies between k and l times another, the sum does so too.
LEMMA SumsBetween ==
  ASSUME NEW S, IsFiniteSet(S), NEW f \in [S -> Int], NEW e \in [S -> Int],
         NEW g, Sums(g, f, S), NEW h, Sums(h, e, S), NEW k \in Int, NEW l \in Int,
         LiesBetween(f, e, k, l, S)
  PROVE  LiesBetween(g, h, k, l, SUBSET S)
<1> DEFINE P(n) == \A T \in SUBSET S :
                      Cardinality(T) = n => k * h[T] <= g[T] /\ g[T] <= l * h[T]
           N == { n \in Nat : P(n) }
<1>0. \A T \in SUBSET S : Cardinality(T) \in Nat /\ g[T] \in Int /\ h[T] \in Int
  BY FS_Subset, FS_CardinalityType, SumsTyped
<1>1. 0 \in N
  <2>1. g[{}] = 0 /\ h[{}] = 0
    BY DEF Sums
  <2>2. k * 0 = 0 /\ l * 0 = 0
    OBVIOUS
  <2>3. P(0)
    BY <2>1, <2>2, OneByOne
  <2> QED
    BY <2>3
<1>2. ASSUME NEW n \in N PROVE n + 1 \in N
  <2> SUFFICES ASSUME NEW T \in SUBSET S, Cardinality(T) = n + 1
               PROVE  k * h[T] <= g[T] /\ g[T] <= l * h[T]
    OBVIOUS
  <2>1. T # {} /\ Chosen(T) \in T /\ T \ {Chosen(T)} \in SUBSET S
        /\ Cardinality(T \ {Chosen(T)}) = n
    BY OneByOne
  <2>2. PICK c, a, b : c = Chosen(T) /\ a = g[T \ {c}] /\ b = h[T \ {c}]
    OBVIOUS
  <2>3. a \in Int /\ b \in Int /\ k * b <= a /\ a <= l * b
    BY <1>0, <1>2, <2>1, <2>2
  <2>4. g[T] = f[c] + a /\ h[T] = e[c] + b
    BY <2>1, <2>2 DEF Sums
  <2>5. f[c] \in Int /\ e[c] \in Int /\ k * e[c] <= f[c] /\ f[c] <= l * e[c]
    BY <2>1, <2>2 DEF LiesBetween
  <2>6. PICK p, q : p = f[c] /\ q = e[c]
    OBVIOUS
  <2>7. k * (q + b) = k * q + k * b /\ l * (q + b) = l * q + l * b
    BY <2>3, <2>5, <2>6
  <2> QED
    BY <2>3, <2>4, <2>5, <2>6, <2>7
<1>3. N = Nat
  <2>1. N \in SUBSET Nat
    OBVIOUS
  <2> HIDE DEF N
  <2> QED
    BY <1>1, <1>2, <2>1, Induction
<1> QED
  BY <1>0, <1>3 DEF LiesBetween

\* A sum of natural numbers is one, and no less than each of them.
LEMMA SumsNatural ==
  ASSUME NEW S, IsFiniteSet(S), NEW f \in [S -> Nat], NEW g, Sums(g, f, S)
  PROVE  g[S] \in Nat /\ \A x \in S : g[S] >= f[x]
<1>0. f \in [S -> Int]
  OBVIOUS
<1>1. \A T \in SUBSET S : g[T] \in Int
  BY <1>0, SumsTyped
<1>2. \A T \in SUBSET S : g[T] >= 0
  <2>1. PICK k, l : k = 0 /\ l = 1
    OBVIOUS
  <2>2. k \in Int /\ l \in Int /\ \A x \in S : k * f[x] <= f[x] /\ f[x] <= l * f[x]
    BY <2>1
  <2>3. \A T \in SUBSET S : k * g[T] <= g[T] /\ g[T] <= l * g[T]
    <3>1. k \in Int /\ l \in Int /\ LiesBetween(f, f, k, l, S)
      BY <2>2 DEF LiesBetween
    <3>2. LiesBetween(g, g, k, l, SUBSET S)
      BY <1>0, <3>1, SumsBetween
    <3> QED
      BY <3>2 DEF LiesBetween
  <2> QED
    BY <1>1, <2>1, <2>3
<1>3. ASSUME NEW x \in S PROVE g[S] >= f[x]
  <2>1. g[S] = f[x] + g[S \ {x}]
    BY <1>0, SumsSplit
  <2>2. S \ {x} \in SUBSET S /\ f[x] \in Int
    BY <1>0
  <2> QED
    BY <1>1, <1>2, <2>1, <2>2
<1> QED
  BY <1>1, <1>2, <1>3

-----------------------------------------------------------------------------
(* Extremes of finite sets *)
\* The least of a set of numbers is in it.
LEMMA LeastOf ==
  ASSUME NEW S \in SUBSET Nat, S # {}
  PROVE  Min(S) \in S /\ \A x \in S : Min(S) <= x
<1>1. \E x \in S : \A y \in S : x <= y
  BY LeastExists
<1> QED
  BY <1>1 DEF Min

\* Of finitely many numbers one is the largest.
LEMMA PeakOf ==
  ASSUME NEW S, IsFiniteSet(S), S # {}, NEW f \in [S -> Int]
  PROVE  \E x \in S : \A y \in S : f[x] >= f[y]
<1> DEFINE P(n) == \A T \in SUBSET S :
                      Cardinality(T) = n => T = {} \/ \E x \in T : \A y \in T : f[x] >= f[y]
           N == { n \in Nat : P(n) }
<1>1. 0 \in N
  BY OneByOne
<1>2. ASSUME NEW n \in N PROVE n + 1 \in N
  <2> SUFFICES ASSUME NEW T \in SUBSET S, Cardinality(T) = n + 1
               PROVE  \E x \in T : \A y \in T : f[x] >= f[y]
    OBVIOUS
  <2>1. T # {} /\ Chosen(T) \in T /\ T \ {Chosen(T)} \in SUBSET S /\ Cardinality(T \ {Chosen(T)}) = n
    BY OneByOne
  <2>2. PICK c \in T : c = Chosen(T)
    BY <2>1
  <2>3. T \ {c} = {} \/ \E x \in T \ {c} : \A y \in T \ {c} : f[x] >= f[y]
    <3>1. P(n)
      OBVIOUS
    <3> HIDE DEF N
    <3> QED
      BY <2>1, <2>2, <3>1
  <2>4. CASE T \ {c} = {}
    <3>1. \A y \in T : y = c
      BY <2>4
    <3> QED
      BY <3>1
  <2>5. ASSUME NEW x \in T \ {c}, \A y \in T \ {c} : f[x] >= f[y]
        PROVE  \E z \in T : \A y \in T : f[z] >= f[y]
    <3>1. f[x] \in Int /\ f[c] \in Int
      OBVIOUS
    <3>2. CASE f[x] >= f[c]
      BY <2>5, <3>2
    <3>3. CASE ~(f[x] >= f[c])
      <4>1. \A y \in T : f[c] >= f[y]
        <5>1. \A y \in T \ {c} : f[y] \in Int
          OBVIOUS
        <5> QED
          BY <2>5, <3>1, <3>3, <5>1
      <4> QED
        BY <4>1
    <3> QED
      BY <3>2, <3>3
  <2> QED
    BY <2>3, <2>4, <2>5
<1>3. N = Nat
  <2>1. N \in SUBSET Nat
    OBVIOUS
  <2> HIDE DEF N
  <2> QED
    BY <1>1, <1>2, <2>1, Induction
<1>4. PICK n \in Nat : n = Cardinality(S)
  BY FS_CardinalityType
<1>5. P(n)
  BY <1>3
<1> QED
  BY <1>4, <1>5

\* The extremes of finitely many numbers are among them.
LEMMA ExtremesIn ==
  ASSUME NEW S, IsFiniteSet(S), S # {}, S \subseteq Int
  PROVE  /\ Max(S) \in S /\ \A y \in S : Max(S) >= y
         /\ Min(S) \in S /\ \A y \in S : Min(S) <= y
<1> DEFINE f == [x \in S |-> x]
           g == [x \in S |-> -x]
<1>1. f \in [S -> Int] /\ g \in [S -> Int]
  OBVIOUS
<1>2. PICK x \in S : \A y \in S : f[x] >= f[y]
  <2> HIDE DEF f
  <2> QED
    BY <1>1, PeakOf
<1>3. PICK z \in S : \A y \in S : g[z] >= g[y]
  <2> HIDE DEF g
  <2> QED
    BY <1>1, PeakOf
<1>4. \A y \in S : x >= y
  BY <1>2
<1>5. \A y \in S : z <= y
  <2>1. \A y \in S : -z >= -y
    BY <1>3
  <2> QED
    BY <2>1
<1>6. \E w \in S : \A y \in S : w >= y
  BY <1>4
<1>7. \E w \in S : \A y \in S : w <= y
  BY <1>5
<1> QED
  BY <1>6, <1>7 DEF Max, Min

\* The values of a function on finitely many arguments are finitely many.
LEMMA ValuesFinite ==
  ASSUME NEW S, IsFiniteSet(S), NEW f
  PROVE  IsFiniteSet({f[x] : x \in S})
<1> DEFINE T == {f[x] : x \in S}
           g == [x \in S |-> f[x]]
<1>1. g \in Surjection(S, T)
  BY DEF Surjection
<1> HIDE DEF T, g
<1>2. IsFiniteSet(T)
  BY <1>1, FS_Surjection
<1> QED
  BY <1>2 DEF T

\* A pair is finite.
LEMMA PairFinite == ASSUME NEW x, NEW y PROVE IsFiniteSet({x, y})
<1>1. IsFiniteSet({x}) /\ IsFiniteSet({y}) /\ {x} \cup {y} = {x, y}
  BY FS_Singleton
<1> QED
  BY <1>1, FS_Union
=============================================================================
