------------------------------ MODULE FiniteSums ------------------------------
(***************************************************************************)
(* Sums over finite sets, for the proofs about figures and counters: the   *)
(* community modules define a sum as a recursive function, and a recursive *)
(* function as whatever CHOOSE picks among the solutions of its equation.  *)
(* That there is one, and what it computes, is shown by induction. The     *)
(* predicate of an induction is a set here: the sets (or numbers) that     *)
(* satisfy it.                                                             *)
(***************************************************************************)
EXTENDS Integers, FiniteSetsExt, FiniteSetTheorems, WellFoundedInduction, TLAPS

\* The sum of f over S.
SumOver(f, S) == MapThenSumSet(LAMBDA x : f[x], S)

-----------------------------------------------------------------------------
(* Induction *)

LEMMA LeastNatural ==
  ASSUME NEW T \in SUBSET Nat, T # {}
  PROVE  \E n \in T : \A m \in T : n <= m
<1>1. PICK n \in T : \A m \in T : ~ (<<m, n>> \in OpToRel(<, Nat))
  BY WFMin, NatLessThanWellFounded DEF OpToRel
<1>2. \A m \in T : ~ (m < n)
  BY <1>1 DEF OpToRel
<1>. QED BY <1>2

LEMMA EveryNatural ==
  ASSUME NEW T \in SUBSET Nat, 0 \in T, \A n \in T : n + 1 \in T
  PROVE  T = Nat
<1>. SUFFICES ASSUME Nat \ T # {} PROVE FALSE
  OBVIOUS
<1>1. PICK n \in Nat \ T : \A m \in Nat \ T : n <= m
  BY LeastNatural
<1>2. n - 1 \in T
  BY <1>1
<1>. QED BY <1>1, <1>2

\* A property of a finite set, from that of the sets with one element less.
LEMMA EverySubset ==
  ASSUME NEW S, IsFiniteSet(S), NEW P,
         \A T \in SUBSET S : (\A x \in T : T \ {x} \in P) => T \in P
  PROVE  \A T \in SUBSET S : T \in P
<1>. DEFINE Bad == {T \in SUBSET S : T \notin P}
            Sizes == {Cardinality(T) : T \in Bad}
<1>. SUFFICES ASSUME Bad # {} PROVE FALSE
  OBVIOUS
<1>1. \A T \in SUBSET S : IsFiniteSet(T) /\ Cardinality(T) \in Nat
  BY FS_Subset, FS_CardinalityType
<1>2. Sizes \in SUBSET Nat /\ Sizes # {}
  BY <1>1
<1>3. PICK n \in Sizes : \A m \in Sizes : n <= m
  BY <1>2, LeastNatural
<1>4. PICK T \in Bad : Cardinality(T) = n
  BY <1>3
<1>5. ASSUME NEW x \in T PROVE T \ {x} \in P
  <2>1. Cardinality(T \ {x}) = n - 1
    BY <1>1, <1>4, FS_RemoveElement
  <2>2. T \ {x} \notin Bad
    BY <1>2, <1>3, <2>1
  <2>. QED BY <2>2
<1>. QED BY <1>4, <1>5

\* Finitely many arguments have finitely many values.
LEMMA ImageIsFinite ==
  ASSUME NEW S, IsFiniteSet(S), NEW f
  PROVE  IsFiniteSet({f[x] : x \in S})
<1>. DEFINE T == {f[x] : x \in S}
            g == [x \in S |-> f[x]]
<1>1. g \in Surjection(S, T)
  BY DEF Surjection
<1>. HIDE DEF g, T
<1>. QED BY <1>1, FS_Surjection DEF T

-----------------------------------------------------------------------------
(* The recursive function behind a sum *)

Pick(s) == CHOOSE x \in s : TRUE

\* The equation of a sum, at one set.
SumEquation(f, g, s) == IF s = {} THEN 0 ELSE f[Pick(s)] + g[s \ {Pick(s)}]

Solves(f, D, g) == g = [s \in D |-> SumEquation(f, g, s)]

LEMMA SumSolves ==
  ASSUME NEW f, NEW S
  PROVE  SumOver(f, S) = (CHOOSE g : Solves(f, SUBSET S, g))[S]
BY DEF SumOver, MapThenSumSet, MapThenFoldSet, Solves, SumEquation, Pick

LEMMA Picked == ASSUME NEW s, s # {} PROVE Pick(s) \in s
BY DEF Pick

\* The equation has a solution: one for the small sets extends to larger ones.
LEMMA SolutionExists ==
  ASSUME NEW f, NEW S, IsFiniteSet(S)
  PROVE  \E g : Solves(f, SUBSET S, g)
<1>. DEFINE Small(n) == {s \in SUBSET S : Cardinality(s) <= n}
            T == {n \in Nat : \E g : Solves(f, Small(n), g)}
<1>1. \A s \in SUBSET S : IsFiniteSet(s) /\ Cardinality(s) \in Nat
  BY FS_Subset, FS_CardinalityType
<1>2. 0 \in T
  <2>1. \A s \in Small(0) : s = {}
    BY <1>1, FS_EmptySet
  <2>2. Solves(f, Small(0), [s \in Small(0) |-> 0])
    BY <2>1 DEF Solves, SumEquation
  <2>. QED BY <2>2
<1>3. ASSUME NEW n \in T PROVE n + 1 \in T
  <2>1. PICK g : Solves(f, Small(n), g)
    OBVIOUS
  <2>. DEFINE h == [s \in Small(n + 1) |-> IF s \in Small(n) THEN g[s] ELSE SumEquation(f, g, s)]
  <2>2. ASSUME NEW s \in Small(n + 1), s # {}
        PROVE  s \ {Pick(s)} \in Small(n) /\ h[s \ {Pick(s)}] = g[s \ {Pick(s)}]
    <3>1. Cardinality(s \ {Pick(s)}) = Cardinality(s) - 1
      BY <1>1, <2>2, Picked, FS_RemoveElement
    <3>2. s \ {Pick(s)} \in Small(n) /\ s \ {Pick(s)} \in Small(n + 1)
      BY <1>1, <2>2, <3>1
    <3>. QED BY <3>2
  <2>3. ASSUME NEW s \in Small(n + 1)
        PROVE  h[s] = SumEquation(f, h, s)
    <3>1. s \in Small(n) => g[s] = SumEquation(f, g, s)
      BY <2>1 DEF Solves
    <3>2. h[s] = SumEquation(f, g, s)
      BY <3>1
    <3>3. SumEquation(f, g, s) = SumEquation(f, h, s)
      BY <2>2 DEF SumEquation
    <3>. QED BY <3>2, <3>3
  <2>. HIDE DEF h
  <2>4. Solves(f, Small(n + 1), h)
    <3>1. h = [s \in Small(n + 1) |-> h[s]]
      BY DEF h
    <3>. QED BY <2>3, <3>1 DEF Solves
  <2>. QED BY <2>4
<1>4. T = Nat
  BY <1>2, <1>3, EveryNatural
<1>5. Small(Cardinality(S)) = SUBSET S
  BY <1>1, FS_Subset
<1>. HIDE DEF Small
<1>6. Cardinality(S) \in T
  BY <1>1, <1>4
<1>. QED BY <1>5, <1>6

\* Solutions agree where both are defined.
LEMMA SolutionsAgree ==
  ASSUME NEW f, NEW S, IsFiniteSet(S), NEW T \in SUBSET S, NEW g, NEW h,
         Solves(f, SUBSET S, g), Solves(f, SUBSET T, h)
  PROVE  \A s \in SUBSET T : g[s] = h[s]
<1>. DEFINE P == {s \in SUBSET T : g[s] = h[s]}
<1>1. IsFiniteSet(T)
  BY FS_Subset
<1>2. ASSUME NEW s \in SUBSET T, \A x \in s : s \ {x} \in P
      PROVE  s \in P
  <2>1. g[s] = SumEquation(f, g, s) /\ h[s] = SumEquation(f, h, s)
    BY DEF Solves
  <2>2. s # {} => g[s \ {Pick(s)}] = h[s \ {Pick(s)}]
    BY <1>2, Picked
  <2>. QED BY <2>1, <2>2 DEF SumEquation
<1>. HIDE DEF P
<1>3. \A s \in SUBSET T : s \in P
  BY <1>1, <1>2, EverySubset
<1>. QED BY <1>3 DEF P

\* A sum over a subset is the value there of the function behind the larger sum.
LEMMA SumWithin ==
  ASSUME NEW f, NEW S, IsFiniteSet(S)
  PROVE  \E g : Solves(f, SUBSET S, g) /\ \A T \in SUBSET S : SumOver(f, T) = g[T]
<1>. DEFINE g == CHOOSE x : Solves(f, SUBSET S, x)
<1>1. Solves(f, SUBSET S, g)
  BY SolutionExists
<1>2. ASSUME NEW T \in SUBSET S PROVE SumOver(f, T) = g[T]
  <2>. DEFINE h == CHOOSE x : Solves(f, SUBSET T, x)
  <2>1. Solves(f, SUBSET T, h)
    BY FS_Subset, SolutionExists
  <2>2. SumOver(f, T) = h[T]
    BY SumSolves
  <2>. HIDE DEF g, h
  <2>. QED BY <1>1, <2>1, <2>2, SolutionsAgree
<1>. QED BY <1>1, <1>2

-----------------------------------------------------------------------------
(* What a sum computes *)

LEMMA SumEmpty == ASSUME NEW f PROVE SumOver(f, {}) = 0
<1>1. PICK g : Solves(f, SUBSET {}, g) /\ \A T \in SUBSET {} : SumOver(f, T) = g[T]
  BY FS_EmptySet, SumWithin
<1>. QED BY <1>1 DEF Solves, SumEquation

LEMMA SumPicked ==
  ASSUME NEW f, NEW S, IsFiniteSet(S), S # {}
  PROVE  SumOver(f, S) = f[Pick(S)] + SumOver(f, S \ {Pick(S)})
<1>1. PICK g : Solves(f, SUBSET S, g) /\ \A T \in SUBSET S : SumOver(f, T) = g[T]
  BY SumWithin
<1>2. g[S] = SumEquation(f, g, S)
  BY <1>1 DEF Solves
<1>. QED BY <1>1, <1>2 DEF SumEquation

LEMMA SumType ==
  ASSUME NEW f, NEW S, IsFiniteSet(S), \A x \in S : f[x] \in Int
  PROVE  SumOver(f, S) \in Int
<1>. DEFINE P == {T \in SUBSET S : SumOver(f, T) \in Int}
<1>1. ASSUME NEW T \in SUBSET S, \A x \in T : T \ {x} \in P
      PROVE  T \in P
  <2>1. IsFiniteSet(T)
    BY FS_Subset
  <2>2. CASE T = {}
    BY <2>2, SumEmpty
  <2>3. CASE T # {}
    <3>1. SumOver(f, T) = f[Pick(T)] + SumOver(f, T \ {Pick(T)})
      BY <2>1, <2>3, SumPicked
    <3>2. Pick(T) \in T
      BY <2>3, Picked
    <3>. QED BY <1>1, <3>1, <3>2
  <2>. QED BY <2>2, <2>3
<1>. HIDE DEF P
<1>2. \A T \in SUBSET S : T \in P
  BY <1>1, EverySubset
<1>. QED BY <1>2 DEF P

\* The order in which the elements are picked does not matter.
LEMMA SumRemove ==
  ASSUME NEW f, NEW S, IsFiniteSet(S), \A x \in S : f[x] \in Int
  PROVE  \A x \in S : SumOver(f, S) = f[x] + SumOver(f, S \ {x})
<1>. DEFINE P == {T \in SUBSET S : \A x \in T : SumOver(f, T) = f[x] + SumOver(f, T \ {x})}
<1>1. ASSUME NEW T \in SUBSET S, \A x \in T : T \ {x} \in P
      PROVE  T \in P
  <2>. SUFFICES ASSUME NEW x \in T PROVE SumOver(f, T) = f[x] + SumOver(f, T \ {x})
    OBVIOUS
  <2>. DEFINE y == Pick(T)
  <2>1. IsFiniteSet(T)
    BY FS_Subset
  <2>2. y \in T
    BY Picked
  <2>3. SumOver(f, T) = f[y] + SumOver(f, T \ {y})
    BY <2>1, SumPicked
  <2>. HIDE DEF y
  <2>4. CASE x = y
    BY <2>3, <2>4
  <2>5. CASE x # y
    <3>. DEFINE U == (T \ {y}) \ {x}
    <3>1. SumOver(f, T \ {y}) = f[x] + SumOver(f, U)
      BY <1>1, <2>2, <2>5
    <3>2. SumOver(f, T \ {x}) = f[y] + SumOver(f, U)
      <4>1. (T \ {x}) \ {y} = U
        OBVIOUS
      <4>2. SumOver(f, T \ {x}) = f[y] + SumOver(f, (T \ {x}) \ {y})
        BY <1>1, <2>2, <2>5
      <4>. QED BY <4>1, <4>2
    <3>3. SumOver(f, U) \in Int
      <4>1. IsFiniteSet(U)
        BY <2>1, FS_RemoveElement
      <4>. QED BY <4>1, SumType
    <3>4. f[x] \in Int /\ f[y] \in Int
      BY <2>2
    <3>. HIDE DEF U
    <3>. QED BY <2>3, <3>1, <3>2, <3>3, <3>4
  <2>. QED BY <2>4, <2>5
<1>. HIDE DEF P
<1>2. \A T \in SUBSET S : T \in P
  BY <1>1, EverySubset
<1>. QED BY <1>2 DEF P

LEMMA SumAdd ==
  ASSUME NEW f, NEW S, IsFiniteSet(S), NEW x, x \notin S, \A y \in S \cup {x} : f[y] \in Int
  PROVE  SumOver(f, S \cup {x}) = SumOver(f, S) + f[x]
<1>1. IsFiniteSet(S \cup {x}) /\ (S \cup {x}) \ {x} = S
  BY FS_AddElement
<1>2. SumOver(f, S \cup {x}) = f[x] + SumOver(f, S)
  BY <1>1, SumRemove
<1>3. SumOver(f, S) \in Int
  BY SumType
<1>. QED BY <1>2, <1>3

\* Only the values on the set count.
LEMMA SumSame ==
  ASSUME NEW f, NEW g, NEW S, IsFiniteSet(S), \A x \in S : f[x] = g[x]
  PROVE  SumOver(f, S) = SumOver(g, S)
<1>. DEFINE P == {T \in SUBSET S : SumOver(f, T) = SumOver(g, T)}
<1>1. ASSUME NEW T \in SUBSET S, \A x \in T : T \ {x} \in P
      PROVE  T \in P
  <2>1. IsFiniteSet(T)
    BY FS_Subset
  <2>2. CASE T = {}
    BY <2>2, SumEmpty
  <2>3. CASE T # {}
    <3>1. /\ SumOver(f, T) = f[Pick(T)] + SumOver(f, T \ {Pick(T)})
          /\ SumOver(g, T) = g[Pick(T)] + SumOver(g, T \ {Pick(T)})
      BY <2>1, <2>3, SumPicked
    <3>2. Pick(T) \in T
      BY <2>3, Picked
    <3>. QED BY <1>1, <3>1, <3>2
  <2>. QED BY <2>2, <2>3
<1>. HIDE DEF P
<1>2. \A T \in SUBSET S : T \in P
  BY <1>1, EverySubset
<1>. QED BY <1>2 DEF P

LEMMA SumNat ==
  ASSUME NEW f, NEW S, IsFiniteSet(S), \A x \in S : f[x] \in Nat
  PROVE  SumOver(f, S) \in Nat
<1>. DEFINE P == {T \in SUBSET S : SumOver(f, T) \in Nat}
<1>1. ASSUME NEW T \in SUBSET S, \A x \in T : T \ {x} \in P
      PROVE  T \in P
  <2>1. IsFiniteSet(T)
    BY FS_Subset
  <2>2. CASE T = {}
    BY <2>2, SumEmpty
  <2>3. CASE T # {}
    <3>1. SumOver(f, T) = f[Pick(T)] + SumOver(f, T \ {Pick(T)})
      BY <2>1, <2>3, SumPicked
    <3>2. Pick(T) \in T
      BY <2>3, Picked
    <3>. QED BY <1>1, <3>1, <3>2
  <2>. QED BY <2>2, <2>3
<1>. HIDE DEF P
<1>2. \A T \in SUBSET S : T \in P
  BY <1>1, EverySubset
<1>. QED BY <1>2 DEF P

LEMMA SumZero ==
  ASSUME NEW f, NEW S, IsFiniteSet(S), \A x \in S : f[x] = 0
  PROVE  SumOver(f, S) = 0
<1>. DEFINE P == {T \in SUBSET S : SumOver(f, T) = 0}
<1>1. ASSUME NEW T \in SUBSET S, \A x \in T : T \ {x} \in P
      PROVE  T \in P
  <2>1. IsFiniteSet(T)
    BY FS_Subset
  <2>2. CASE T = {}
    BY <2>2, SumEmpty
  <2>3. CASE T # {}
    <3>1. SumOver(f, T) = f[Pick(T)] + SumOver(f, T \ {Pick(T)})
      BY <2>1, <2>3, SumPicked
    <3>2. Pick(T) \in T
      BY <2>3, Picked
    <3>. QED BY <1>1, <3>1, <3>2
  <2>. QED BY <2>2, <2>3
<1>. HIDE DEF P
<1>2. \A T \in SUBSET S : T \in P
  BY <1>1, EverySubset
<1>. QED BY <1>2 DEF P

\* The sum over two sets that share nothing.
LEMMA SumSplit ==
  ASSUME NEW f, NEW S, IsFiniteSet(S), NEW U, IsFiniteSet(U), S \cap U = {},
         \A x \in S \cup U : f[x] \in Int
  PROVE  SumOver(f, S \cup U) = SumOver(f, S) + SumOver(f, U)
<1>. DEFINE P == {T \in SUBSET U : SumOver(f, S \cup T) = SumOver(f, S) + SumOver(f, T)}
<1>0. SumOver(f, S) \in Int
  BY SumType
<1>1. ASSUME NEW T \in SUBSET U, \A x \in T : T \ {x} \in P
      PROVE  T \in P
  <2>1. IsFiniteSet(T) /\ IsFiniteSet(S \cup T)
    BY FS_Subset, FS_Union
  <2>2. CASE T = {}
    BY <1>0, <2>2, SumEmpty
  <2>3. CASE T # {}
    <3>1. PICK x \in T : TRUE
      BY <2>3
    <3>. DEFINE V == T \ {x}
    <3>2. SumOver(f, T) = f[x] + SumOver(f, V)
      BY <2>1, SumRemove
    <3>3. SumOver(f, S \cup T) = f[x] + SumOver(f, S \cup V)
      <4>1. SumOver(f, S \cup T) = f[x] + SumOver(f, (S \cup T) \ {x})
        BY <2>1, SumRemove
      <4>2. (S \cup T) \ {x} = S \cup V
        OBVIOUS
      <4>. QED BY <4>1, <4>2
    <3>4. SumOver(f, S \cup V) = SumOver(f, S) + SumOver(f, V)
      BY <1>1
    <3>5. SumOver(f, V) \in Int /\ f[x] \in Int
      BY <2>1, FS_Subset, SumType
    <3>. HIDE DEF V
    <3>7. SumOver(f, S \cup T) = SumOver(f, S) + SumOver(f, T)
      BY <1>0, <3>2, <3>3, <3>4, <3>5
    <3>. QED BY <3>7
  <2>. QED BY <2>2, <2>3
<1>. HIDE DEF P
<1>2. \A T \in SUBSET U : T \in P
  BY <1>1, EverySubset
<1>. QED BY <1>2 DEF P

\* One value is changed.
LEMMA SumChanged ==
  ASSUME NEW f, NEW g, NEW S, IsFiniteSet(S), NEW x \in S,
         \A y \in S : f[y] \in Int /\ g[y] \in Int,
         \A y \in S \ {x} : g[y] = f[y]
  PROVE  SumOver(g, S) = SumOver(f, S) - f[x] + g[x]
<1>1. IsFiniteSet(S \ {x})
  BY FS_Subset
<1>2. SumOver(f, S) = f[x] + SumOver(f, S \ {x}) /\ SumOver(g, S) = g[x] + SumOver(g, S \ {x})
  BY SumRemove
<1>3. SumOver(g, S \ {x}) = SumOver(f, S \ {x}) /\ SumOver(f, S \ {x}) \in Int
  BY <1>1, SumSame, SumType
<1>. QED BY <1>2, <1>3

LEMMA SumOne ==
  ASSUME NEW f, NEW x, f[x] \in Int
  PROVE  SumOver(f, {x}) = f[x]
<1>1. SumOver(f, {x}) = f[x] + SumOver(f, {x} \ {x})
  BY FS_Singleton, SumRemove
<1>. QED BY <1>1, SumEmpty

\* The values move one place up.
LEMMA SumShift ==
  ASSUME NEW f, NEW g, NEW n \in Nat,
         \A u \in 0 .. n - 1 : f[u] \in Int /\ g[u + 1] = f[u]
  PROVE  SumOver(g, 1 .. n) = SumOver(f, 0 .. n - 1)
<1>. DEFINE T == {m \in Nat : m <= n => SumOver(g, 1 .. m) = SumOver(f, 0 .. m - 1)}
<1>1. 0 \in T
  <2>1. 1 .. 0 = {} /\ 0 .. 0 - 1 = {}
    OBVIOUS
  <2>. QED BY <2>1, SumEmpty
<1>2. ASSUME NEW m \in T PROVE m + 1 \in T
  <2>1. CASE m + 1 <= n
    <3>1. /\ 1 .. m + 1 = (1 .. m) \cup {m + 1}
          /\ 0 .. m = (0 .. m - 1) \cup {m}
          /\ m + 1 \notin 1 .. m /\ m \notin 0 .. m - 1
      OBVIOUS
    <3>2. /\ \A u \in (0 .. m - 1) \cup {m} : f[u] \in Int
          /\ \A u \in (1 .. m) \cup {m + 1} : u - 1 \in 0 .. n - 1 /\ g[u] = f[u - 1]
      <4>1. ASSUME NEW u \in (1 .. m) \cup {m + 1}
            PROVE  u - 1 \in 0 .. n - 1 /\ g[u] = f[u - 1]
        <5>1. u \in Int /\ u - 1 \in 0 .. n - 1 /\ (u - 1) + 1 = u
          BY <2>1
        <5>. QED BY <5>1
      <4>. QED BY <2>1, <4>1
    <3>3. \A u \in (1 .. m) \cup {m + 1} : g[u] \in Int
      BY <3>2
    <3>7. IsFiniteSet(1 .. m) /\ IsFiniteSet(0 .. m - 1)
      <4>1. m \in Int /\ m - 1 \in Int
        OBVIOUS
      <4>. QED BY <4>1, FS_Interval
    <3>. DEFINE X == 1 .. m
                Y == 0 .. m - 1
    <3>8. IsFiniteSet(X) /\ m + 1 \notin X /\ \A u \in X \cup {m + 1} : g[u] \in Int
      BY <3>1, <3>3, <3>7
    <3>9. IsFiniteSet(Y) /\ m \notin Y /\ \A u \in Y \cup {m} : f[u] \in Int
      BY <3>1, <3>2, <3>7
    <3>10. 1 .. m + 1 = X \cup {m + 1} /\ 0 .. m = Y \cup {m}
      BY <3>1
    <3>. HIDE DEF X, Y
    <3>4. SumOver(g, 1 .. m + 1) = SumOver(g, X) + g[m + 1]
      <4>1. SumOver(g, X \cup {m + 1}) = SumOver(g, X) + g[m + 1]
        BY <3>8, SumAdd
      <4>. QED BY <3>10, <4>1
    <3>5. SumOver(f, 0 .. m) = SumOver(f, Y) + f[m]
      <4>1. SumOver(f, Y \cup {m}) = SumOver(f, Y) + f[m]
        BY <3>9, SumAdd
      <4>. QED BY <3>10, <4>1
    <3>6. g[m + 1] = f[m]
      BY <2>1
    <3>. QED BY <2>1, <3>4, <3>5, <3>6 DEF X, Y
  <2>. QED BY <2>1
<1>3. T \in SUBSET Nat
  OBVIOUS
<1>. HIDE DEF T
<1>4. T = Nat
  BY <1>1, <1>2, <1>3, EveryNatural
<1>5. n \in T
  BY <1>4
<1>. QED BY <1>5 DEF T


\* A part of the set on whose rest the values are zero.
LEMMA SumPart ==
  ASSUME NEW f, NEW S, IsFiniteSet(S), NEW T \in SUBSET S, \A x \in S : f[x] \in Int,
         \A x \in S \ T : f[x] = 0
  PROVE  SumOver(f, S) = SumOver(f, T)
<1>1. IsFiniteSet(T) /\ IsFiniteSet(S \ T)
  BY FS_Subset
<1>2. SumOver(f, S) = SumOver(f, T) + SumOver(f, S \ T)
  <2>1. T \cup (S \ T) = S /\ T \cap (S \ T) = {}
    OBVIOUS
  <2>2. SumOver(f, T \cup (S \ T)) = SumOver(f, T) + SumOver(f, S \ T)
    BY <1>1, <2>1, SumSplit
  <2>. QED BY <2>1, <2>2, Zenon
<1>3. SumOver(f, S \ T) = 0
  BY <1>1, SumZero
<1>4. SumOver(f, T) \in Int
  BY <1>1, SumType
<1>. QED BY <1>2, <1>3, <1>4

\* No value is negative and one is positive.
LEMMA SumPositive ==
  ASSUME NEW f, NEW S, IsFiniteSet(S), NEW x \in S, \A y \in S : f[y] \in Nat, f[x] > 0
  PROVE  SumOver(f, S) > 0
<1>1. IsFiniteSet(S \ {x})
  BY FS_Subset
<1>2. SumOver(f, S) = f[x] + SumOver(f, S \ {x})
  BY SumRemove
<1>3. SumOver(f, S \ {x}) \in Nat
  BY <1>1, SumNat
<1>. QED BY <1>2, <1>3

\* The sum of differences.
LEMMA SumMinus ==
  ASSUME NEW f, NEW g, NEW h, NEW S, IsFiniteSet(S),
         \A x \in S : f[x] \in Int /\ g[x] \in Int /\ h[x] = f[x] - g[x]
  PROVE  SumOver(h, S) = SumOver(f, S) - SumOver(g, S)
<1>. DEFINE P == {T \in SUBSET S : SumOver(h, T) = SumOver(f, T) - SumOver(g, T)}
<1>1. ASSUME NEW T \in SUBSET S, \A x \in T : T \ {x} \in P
      PROVE  T \in P
  <2>1. IsFiniteSet(T)
    BY FS_Subset
  <2>2. CASE T = {}
    BY <2>2, SumEmpty
  <2>3. CASE T # {}
    <3>. DEFINE x == Pick(T)
                U == T \ {x}
    <3>1. SumOver(f, T) = f[x] + SumOver(f, U) /\ SumOver(g, T) = g[x] + SumOver(g, U)
      BY <2>1, <2>3, SumPicked
    <3>2. SumOver(h, T) = h[x] + SumOver(h, U)
      BY <2>1, <2>3, SumPicked
    <3>3. x \in T
      BY <2>3, Picked
    <3>4. IsFiniteSet(U) /\ U \subseteq S
      BY <2>1, FS_Subset
    <3>5. SumOver(f, U) \in Int /\ SumOver(g, U) \in Int
      BY <3>4, SumType
    <3>6. SumOver(h, U) = SumOver(f, U) - SumOver(g, U)
      BY <1>1, <3>3
    <3>. HIDE DEF x, U
    <3>. QED BY <3>1, <3>2, <3>3, <3>5, <3>6
  <2>. QED BY <2>2, <2>3
<1>. HIDE DEF P
<1>2. \A T \in SUBSET S : T \in P
  BY <1>1, EverySubset
<1>. QED BY <1>2 DEF P

\* The elements that bear a label.
Labelled(S, label, k) == {x \in S : label[x] = k}

\* Summing label by label sums everything once.
LEMMA SumByLabel ==
  ASSUME NEW f, NEW S, IsFiniteSet(S), \A x \in S : f[x] \in Int,
         NEW K, IsFiniteSet(K), NEW label, \A x \in S : label[x] \in K,
         NEW g, \A k \in K : g[k] = SumOver(f, Labelled(S, label, k))
  PROVE  SumOver(g, K) = SumOver(f, S)
<1>. DEFINE Of(T) == {x \in S : label[x] \in T}
            P == {T \in SUBSET K : SumOver(g, T) = SumOver(f, Of(T))}
<1>1. ASSUME NEW T \in SUBSET K, \A k \in T : T \ {k} \in P
      PROVE  T \in P
  <2>1. IsFiniteSet(T)
    BY FS_Subset
  <2>2. CASE T = {}
    <3>1. Of(T) = {}
      BY <2>2
    <3>. QED BY <2>2, <3>1, SumEmpty
  <2>3. CASE T # {}
    <3>. DEFINE k == Pick(T)
                U == T \ {k}
    <3>1. SumOver(g, T) = g[k] + SumOver(g, U)
      BY <2>1, <2>3, SumPicked
    <3>2. k \in T
      BY <2>3, Picked
    <3>3. SumOver(g, U) = SumOver(f, Of(U))
      BY <1>1, <3>2
    <3>4. IsFiniteSet(Of(U)) /\ IsFiniteSet(Of({k})) /\ Of(U) \cap Of({k}) = {}
          /\ Of(T) = Of(U) \cup Of({k})
      BY <3>2, FS_Subset
    <3>5. SumOver(f, Of(U) \cup Of({k})) = SumOver(f, Of(U)) + SumOver(f, Of({k}))
      BY <3>4, SumSplit
    <3>6. g[k] = SumOver(f, Of({k}))
      <4>1. Of({k}) = Labelled(S, label, k)
        BY DEF Labelled
      <4>2. g[k] = SumOver(f, Labelled(S, label, k))
        BY <3>2
      <4>. QED BY <4>1, <4>2
    <3>7. SumOver(f, Of(U)) \in Int /\ SumOver(f, Of({k})) \in Int
      BY <3>4, SumType
    <3>. HIDE DEF k, U, Of
    <3>8. SumOver(g, T) = SumOver(f, Of(T))
      BY <3>1, <3>3, <3>4, <3>5, <3>6, <3>7
    <3>. QED BY <3>8
  <2>. QED BY <2>2, <2>3
<1>2. Of(K) = S
  OBVIOUS
<1>. HIDE DEF P, Of
<1>3. \A T \in SUBSET K : T \in P
  BY <1>1, EverySubset
<1>. QED BY <1>2, <1>3 DEF P

\* Counting is summing ones.
LEMMA SumOnes ==
  ASSUME NEW f, NEW S, IsFiniteSet(S), \A x \in S : f[x] = 1
  PROVE  SumOver(f, S) = Cardinality(S)
<1>. DEFINE P == {T \in SUBSET S : SumOver(f, T) = Cardinality(T)}
<1>1. ASSUME NEW T \in SUBSET S, \A x \in T : T \ {x} \in P
      PROVE  T \in P
  <2>1. IsFiniteSet(T) /\ Cardinality(T) \in Nat
    BY FS_Subset, FS_CardinalityType
  <2>2. CASE T = {}
    BY <2>2, SumEmpty, FS_EmptySet
  <2>3. CASE T # {}
    <3>1. SumOver(f, T) = f[Pick(T)] + SumOver(f, T \ {Pick(T)})
      BY <2>1, <2>3, SumPicked
    <3>2. Pick(T) \in T
      BY <2>3, Picked
    <3>3. Cardinality(T \ {Pick(T)}) = Cardinality(T) - 1
      BY <2>1, <3>2, FS_RemoveElement
    <3>. QED BY <1>1, <2>1, <3>1, <3>2, <3>3
  <2>. QED BY <2>2, <2>3
<1>. HIDE DEF P
<1>2. \A T \in SUBSET S : T \in P
  BY <1>1, EverySubset
<1>. QED BY <1>2 DEF P
=============================================================================
