----------------------------- MODULE FiniteSums -----------------------------
(***************************************************************************)
(* Facts about sums over finite sets, for the running totals and balances  *)
(* that other modules state with SumFunctionOnSet: the sum of no elements  *)
(* is 0, an element more adds its value, and values that agree add up to   *)
(* the same.  The library defines the sum by a recursion that takes the    *)
(* elements in an unspecified order; the order does not matter.            *)
(***************************************************************************)
EXTENDS Integers, FiniteSets, Functions, FiniteSetTheorems, WellFoundedInduction, TLAPS

\* The element the recursion takes first.
First(S) == CHOOSE x \in S : TRUE

Unfolds(g, f, S) ==
    g = [T \in SUBSET S |-> IF T = {} THEN 0 ELSE f[First(T)] + g[T \ {First(T)}]]

LEMMA SumIsChosen ==
    \A f, S : SumFunctionOnSet(f, S) = (CHOOSE g : Unfolds(g, f, S))[S]
BY DEF SumFunctionOnSet, FoldFunctionOnSet, MapThenFoldSet, First, Unfolds

LEMMA FirstIn == \A S : S # {} => First(S) \in S
BY DEF First

\* Induction over subsets: a counterexample comes with a smallest one.
LEMMA SmallestSubset ==
    \A S, Bad : IsFiniteSet(S) /\ Bad \subseteq SUBSET S /\ Bad # {} =>
        \E T \in Bad : \A U \in SUBSET T : U # T => U \notin Bad
<1> TAKE S, Bad
<1> HAVE IsFiniteSet(S) /\ Bad \subseteq SUBSET S /\ Bad # {}
<1>1. IsWellFoundedOn(StrictSubsetOrdering(S), FiniteSubsetsOf(S))
  BY FS_StrictSubsetOrderingWellFounded
<1>2. FiniteSubsetsOf(S) = SUBSET S
  BY FS_FiniteSubsetsOfFinite
<1>3. PICK T \in Bad : \A U \in Bad : ~(<<U, T>> \in StrictSubsetOrdering(S))
  BY <1>1, <1>2, WFMin
<1>4. ASSUME NEW U \in SUBSET T, U # T, U \in Bad PROVE FALSE
  BY <1>3, <1>4 DEF StrictSubsetOrdering
<1> QED
  BY <1>4

\* Two recursions over sets that share a subset agree on it.
LEMMA UnfoldsOnce ==
    ASSUME NEW f, NEW S, NEW T, NEW g, NEW h, Unfolds(g, f, S), Unfolds(h, f, T),
           NEW U, U \subseteq S, U \subseteq T, IsFiniteSet(U)
    PROVE  g[U] = h[U]
<1> DEFINE Bad == {V \in SUBSET U : g[V] # h[V]}
<1>1. SUFFICES ASSUME Bad # {} PROVE FALSE
  OBVIOUS
<1>2. PICK V \in Bad : \A W \in SUBSET V : W # V => W \notin Bad
  <2>1. Bad \subseteq SUBSET U
    OBVIOUS
  <2> HIDE DEF Bad
  <2> QED
    BY <1>1, <2>1, SmallestSubset
<1>3. V \in SUBSET S /\ V \in SUBSET T
  BY <1>2
<1>4. /\ g[V] = IF V = {} THEN 0 ELSE f[First(V)] + g[V \ {First(V)}]
      /\ h[V] = IF V = {} THEN 0 ELSE f[First(V)] + h[V \ {First(V)}]
  BY <1>3 DEF Unfolds
<1>5. V # {}
  BY <1>2, <1>4
<1>6. g[V \ {First(V)}] = h[V \ {First(V)}]
  BY <1>2, <1>5, FirstIn
<1> QED
  BY <1>2, <1>4, <1>5, <1>6

\* There is a recursion for every finite set.
LEMMA UnfoldsExists ==
    ASSUME NEW f, NEW S, IsFiniteSet(S)
    PROVE  \E g : Unfolds(g, f, S)
<1> DEFINE Bad == {T \in SUBSET S : ~\E g : Unfolds(g, f, T)}
           V(T) == SumFunctionOnSet(f, T)
<1>1. SUFFICES ASSUME Bad # {} PROVE FALSE
  OBVIOUS
<1>2. PICK T \in Bad : \A U \in SUBSET T : U # T => U \notin Bad
  <2>1. Bad \subseteq SUBSET S
    OBVIOUS
  <2> HIDE DEF Bad
  <2> QED
    BY <1>1, <2>1, SmallestSubset
<1>3. ASSUME NEW U \in SUBSET T, U # T
      PROVE  /\ Unfolds(CHOOSE g : Unfolds(g, f, U), f, U)
             /\ IsFiniteSet(U)
  <2>1. \E g : Unfolds(g, f, U)
    BY <1>2, <1>3
  <2>2. IsFiniteSet(U)
    BY <1>2, <1>3, FS_Subset
  <2> QED
    BY <2>1, <2>2
<1> DEFINE h == [U \in SUBSET T |-> IF U = {} THEN 0 ELSE f[First(U)] + V(U \ {First(U)})]
<1>4. ASSUME NEW U \in SUBSET T, U # T PROVE V(U) = h[U]
  <2> DEFINE g == CHOOSE k : Unfolds(k, f, U)
             W == U \ {First(U)}
             k == CHOOSE j : Unfolds(j, f, W)
  <2>1. V(U) = g[U] /\ V(W) = k[W]
    BY SumIsChosen
  <2>2. Unfolds(g, f, U) /\ IsFiniteSet(U)
    BY <1>3, <1>4
  <2>3. g[U] = IF U = {} THEN 0 ELSE f[First(U)] + g[W]
    BY <2>2 DEF Unfolds
  <2>4. U # {} => g[W] = k[W]
    <3> SUFFICES ASSUME U # {} PROVE g[W] = k[W]
      OBVIOUS
    <3>1. W \subseteq U /\ W # T /\ W \in SUBSET T
      BY <1>4, FirstIn
    <3>2. Unfolds(k, f, W) /\ IsFiniteSet(W)
      BY <1>3, <3>1
    <3> HIDE DEF g, k, W
    <3> QED
      BY <2>2, <3>1, <3>2, UnfoldsOnce
  <2> HIDE DEF g, k, V
  <2> QED
    BY <2>1, <2>3, <2>4
<1>5. ASSUME NEW U \in SUBSET T, U # {} PROVE V(U \ {First(U)}) = h[U \ {First(U)}]
  <2>1. U \ {First(U)} \in SUBSET T /\ U \ {First(U)} # T
    BY <1>5, FirstIn
  <2> HIDE DEF h, V
  <2> QED
    BY <1>4, <2>1
<1>6. Unfolds(h, f, T)
  BY <1>5 DEF Unfolds
<1> QED
  BY <1>2, <1>6

\* The sum of no elements, and of some.
LEMMA SumUnfolds ==
    ASSUME NEW f, NEW S, IsFiniteSet(S)
    PROVE  /\ S = {} => SumFunctionOnSet(f, S) = 0
           /\ S # {} => SumFunctionOnSet(f, S) =
                           f[First(S)] + SumFunctionOnSet(f, S \ {First(S)})
<1> DEFINE g == CHOOSE k : Unfolds(k, f, S)
           W == S \ {First(S)}
           k == CHOOSE j : Unfolds(j, f, W)
<1>1. SumFunctionOnSet(f, S) = g[S] /\ SumFunctionOnSet(f, W) = k[W]
  BY SumIsChosen
<1>2. IsFiniteSet(W)
  BY FS_Subset
<1>3. Unfolds(g, f, S) /\ Unfolds(k, f, W)
  BY <1>2, UnfoldsExists
<1>4. g[S] = IF S = {} THEN 0 ELSE f[First(S)] + g[W]
  BY <1>3 DEF Unfolds
<1> HIDE DEF g, k, W
<1>5. g[W] = k[W]
  BY <1>2, <1>3, UnfoldsOnce DEF W
<1> QED
  BY <1>1, <1>4, <1>5 DEF W

LEMMA SumEmpty == \A f : SumFunctionOnSet(f, {}) = 0
BY SumUnfolds, FS_EmptySet

\* The sum of integers is one, that of natural numbers too.
LEMMA SumType ==
    ASSUME NEW f, NEW S, IsFiniteSet(S), \A x \in S : f[x] \in Int
    PROVE  /\ SumFunctionOnSet(f, S) \in Int
           /\ (\A x \in S : f[x] >= 0) => SumFunctionOnSet(f, S) >= 0
<1> DEFINE Good(T) == /\ SumFunctionOnSet(f, T) \in Int
                      /\ (\A x \in S : f[x] >= 0) => SumFunctionOnSet(f, T) >= 0
           Bad == {T \in SUBSET S : ~Good(T)}
<1>1. SUFFICES ASSUME Bad # {} PROVE FALSE
  OBVIOUS
<1>2. PICK T \in Bad : \A U \in SUBSET T : U # T => U \notin Bad
  <2>1. Bad \subseteq SUBSET S
    OBVIOUS
  <2> HIDE DEF Bad
  <2> QED
    BY <1>1, <2>1, SmallestSubset
<1>3. IsFiniteSet(T)
  BY <1>2, FS_Subset
<1>4. T # {}
  <2>1. SumFunctionOnSet(f, {}) = 0
    BY SumEmpty
  <2>2. Good({})
    BY <2>1
  <2> HIDE DEF Good
  <2> QED
    BY <1>2, <2>2
<1>5. First(T) \in T /\ f[First(T)] \in Int
  BY <1>2, <1>4, FirstIn
<1>6. Good(T \ {First(T)})
  BY <1>2, <1>5
<1>7. SumFunctionOnSet(f, T) = f[First(T)] + SumFunctionOnSet(f, T \ {First(T)})
  BY <1>3, <1>4, SumUnfolds
<1>8. (\A x \in S : f[x] >= 0) => f[First(T)] >= 0
  BY <1>2, <1>5
<1>9. Good(T)
  BY <1>5, <1>6, <1>7, <1>8
<1> QED
  BY <1>2, <1>9

\* One element more, whichever the recursion takes first.
LEMMA SumAdd ==
    ASSUME NEW f, NEW S, IsFiniteSet(S), NEW x, x \notin S,
           \A y \in S \cup {x} : f[y] \in Int
    PROVE  SumFunctionOnSet(f, S \cup {x}) = SumFunctionOnSet(f, S) + f[x]
<1> DEFINE Sum(T) == SumFunctionOnSet(f, T)
           Bad == {T \in SUBSET S : \E z \in (S \cup {x}) \ T : Sum(T \cup {z}) # Sum(T) + f[z]}
<1>1. SUFFICES ASSUME Bad # {} PROVE FALSE
  OBVIOUS
<1>2. PICK T \in Bad : \A U \in SUBSET T : U # T => U \notin Bad
  <2>1. Bad \subseteq SUBSET S
    OBVIOUS
  <2> HIDE DEF Bad
  <2> QED
    BY <1>1, <2>1, SmallestSubset
<1>3. PICK z \in (S \cup {x}) \ T : Sum(T \cup {z}) # Sum(T) + f[z]
  BY <1>2
<1> DEFINE y == First(T \cup {z})
           U == T \ {y}
<1>4. IsFiniteSet(T) /\ IsFiniteSet(T \cup {z}) /\ IsFiniteSet(U)
  BY <1>2, FS_Subset, FS_AddElement
<1>5. \A W \in SUBSET T : Sum(W) \in Int
  BY <1>2, <1>4, FS_Subset, SumType
<1>6. Sum(T \cup {z}) = f[y] + Sum((T \cup {z}) \ {y}) /\ y \in T \cup {z}
  BY <1>4, SumUnfolds, FirstIn
<1>7. y # z
  <2> SUFFICES ASSUME y = z PROVE FALSE
    OBVIOUS
  <2>1. (T \cup {z}) \ {y} = T
    OBVIOUS
  <2>2. Sum(T) \in Int /\ f[z] \in Int
    BY <1>2, <1>3, <1>5
  <2>3. Sum(T \cup {z}) = f[z] + Sum(T)
    BY <1>6, <2>1
  <2> HIDE DEF Sum, y
  <2> QED
    BY <1>3, <2>2, <2>3
<1>8. y \in T /\ U \in SUBSET T /\ U # T /\ (T \cup {z}) \ {y} = U \cup {z} /\ T = U \cup {y}
  BY <1>6, <1>7
<1>9. \A w \in (S \cup {x}) \ U : Sum(U \cup {w}) = Sum(U) + f[w]
  BY <1>2, <1>8
<1> HIDE DEF y, U, Sum
<1>10. Sum(U \cup {z}) = Sum(U) + f[z] /\ Sum(T) = Sum(U) + f[y]
  <2>1. z \in (S \cup {x}) \ U /\ y \in (S \cup {x}) \ U
    BY <1>2, <1>3, <1>8 DEF U
  <2> QED
    BY <1>8, <1>9, <2>1
<1>11. Sum(U) \in Int /\ f[y] \in Int /\ f[z] \in Int
  BY <1>2, <1>3, <1>5, <1>8
<1>12. Sum(T \cup {z}) = f[y] + (Sum(U) + f[z])
  BY <1>6, <1>8, <1>10
<1>13. Sum(T \cup {z}) = Sum(T) + f[z]
  BY <1>10, <1>11, <1>12
<1> QED
  BY <1>3, <1>13

\* Values that agree add up to the same.
LEMMA SumEqual ==
    ASSUME NEW f, NEW g, NEW S, IsFiniteSet(S), \A x \in S : f[x] = g[x]
    PROVE  SumFunctionOnSet(f, S) = SumFunctionOnSet(g, S)
<1> DEFINE Bad == {T \in SUBSET S : SumFunctionOnSet(f, T) # SumFunctionOnSet(g, T)}
<1>1. SUFFICES ASSUME Bad # {} PROVE FALSE
  OBVIOUS
<1>2. PICK T \in Bad : \A U \in SUBSET T : U # T => U \notin Bad
  <2>1. Bad \subseteq SUBSET S
    OBVIOUS
  <2> HIDE DEF Bad
  <2> QED
    BY <1>1, <2>1, SmallestSubset
<1>3. IsFiniteSet(T)
  BY <1>2, FS_Subset
<1>4. T # {}
  BY <1>2, SumEmpty
<1>5. First(T) \in T /\ f[First(T)] = g[First(T)]
  BY <1>2, <1>4, FirstIn
<1>6. SumFunctionOnSet(f, T \ {First(T)}) = SumFunctionOnSet(g, T \ {First(T)})
  BY <1>2, <1>5
<1> QED
  BY <1>2, <1>3, <1>4, <1>5, <1>6, SumUnfolds

\* A change of one value changes the sum by as much.
LEMMA SumChange ==
    ASSUME NEW f, NEW g, NEW S, IsFiniteSet(S), NEW x \in S,
           \A y \in S : f[y] \in Int, g[x] \in Int, \A y \in S \ {x} : g[y] = f[y]
    PROVE  SumFunctionOnSet(g, S) = SumFunctionOnSet(f, S) - f[x] + g[x]
<1> DEFINE T == S \ {x}
<1>1. IsFiniteSet(T) /\ x \notin T /\ T \cup {x} = S
  BY FS_Subset
<1> HIDE DEF T
<1>2. T \subseteq S
  BY DEF T
<1>3. SumFunctionOnSet(f, S) = SumFunctionOnSet(f, T) + f[x]
  BY <1>1, SumAdd
<1>4. \A y \in T \cup {x} : g[y] \in Int
  BY <1>1, <1>2 DEF T
<1>5. SumFunctionOnSet(g, S) = SumFunctionOnSet(g, T) + g[x]
  BY <1>1, <1>4, SumAdd
<1>6. SumFunctionOnSet(g, T) = SumFunctionOnSet(f, T)
  BY <1>1, SumEqual DEF T
<1>7. SumFunctionOnSet(f, T) \in Int
  BY <1>1, <1>2, SumType
<1> QED
  BY <1>2, <1>3, <1>5, <1>6, <1>7

\* Sums add up over two sets that share nothing, and a value is at most the sum.
LEMMA SumPart ==
    ASSUME NEW f, NEW S, IsFiniteSet(S), NEW T \in SUBSET S,
           \A y \in S : f[y] \in Nat
    PROVE  SumFunctionOnSet(f, T) <= SumFunctionOnSet(f, S)
<1> DEFINE Sum(U) == SumFunctionOnSet(f, U)
           Bad == {U \in SUBSET (S \ T) : ~(Sum(T) <= Sum(T \cup U))}
<1>0. IsFiniteSet(S \ T) /\ \A U \in SUBSET S : IsFiniteSet(U) /\ Sum(U) \in Int
  BY FS_Subset, SumType
<1>1. SUFFICES ASSUME Bad # {} PROVE FALSE
  <2>1. T \cup (S \ T) = S
    OBVIOUS
  <2> QED
    BY <1>1, <2>1
<1>2. PICK U \in Bad : \A W \in SUBSET U : W # U => W \notin Bad
  <2>1. Bad \subseteq SUBSET (S \ T)
    OBVIOUS
  <2> HIDE DEF Bad
  <2> QED
    BY <1>0, <1>1, <2>1, SmallestSubset
<1>3. U # {}
  <2>1. Sum(T) <= Sum(T \cup {})
    <3>1. T \cup {} = T
      OBVIOUS
    <3> QED
      BY <1>0, <3>1
  <2> QED
    BY <1>2, <2>1
<1>4. PICK x \in U : TRUE
  BY <1>3
<1> DEFINE W == U \ {x}
<1>5. Sum(T) <= Sum(T \cup W)
  BY <1>2, <1>4
<1>6. x \notin T \cup W /\ (T \cup W) \cup {x} = T \cup U /\ T \cup W \in SUBSET S
  BY <1>2, <1>4
<1>7. Sum(T \cup U) = Sum(T \cup W) + f[x]
  <2> DEFINE V == T \cup W
  <2>1. IsFiniteSet(V) /\ x \notin V /\ V \cup {x} = T \cup U
    BY <1>0, <1>6
  <2>2. \A y \in V \cup {x} : f[y] \in Int
    BY <1>2, <1>4, <1>6
  <2> HIDE DEF V
  <2>3. SumFunctionOnSet(f, V \cup {x}) = SumFunctionOnSet(f, V) + f[x]
    BY <2>1, <2>2, SumAdd
  <2> QED
    BY <2>1, <2>3 DEF V
<1> HIDE DEF W
<1>8. f[x] \in Nat
  BY <1>2, <1>4
<1> HIDE DEF Sum
<1>9. Sum(T) <= Sum(T \cup U)
  BY <1>0, <1>5, <1>6, <1>7, <1>8
<1> QED
  BY <1>2, <1>9

\* Elements without a value of their own do not matter.
LEMMA SumSupport ==
    ASSUME NEW f, NEW S, IsFiniteSet(S), NEW T \in SUBSET S,
           \A y \in S : f[y] \in Int, \A y \in S \ T : f[y] = 0
    PROVE  SumFunctionOnSet(f, S) = SumFunctionOnSet(f, T)
<1> DEFINE Sum(U) == SumFunctionOnSet(f, U)
           Bad == {U \in SUBSET (S \ T) : Sum(T \cup U) # Sum(T)}
<1>0. IsFiniteSet(S \ T) /\ \A U \in SUBSET S : IsFiniteSet(U) /\ Sum(U) \in Int
  BY FS_Subset, SumType
<1>1. SUFFICES ASSUME Bad # {} PROVE FALSE
  <2>1. T \cup (S \ T) = S
    OBVIOUS
  <2>2. Bad = {} => Sum(T \cup (S \ T)) = Sum(T)
    OBVIOUS
  <2>3. Bad = {} => Sum(S) = Sum(T)
    BY <2>1, <2>2
  <2> QED
    BY <1>1, <2>3
<1>2. PICK U \in Bad : \A W \in SUBSET U : W # U => W \notin Bad
  <2>1. Bad \subseteq SUBSET (S \ T)
    OBVIOUS
  <2> HIDE DEF Bad
  <2> QED
    BY <1>0, <1>1, <2>1, SmallestSubset
<1>3. U # {}
  <2>1. T \cup {} = T
    OBVIOUS
  <2> QED
    BY <1>2, <2>1
<1>4. PICK x \in U : TRUE
  BY <1>3
<1> DEFINE V == T \cup (U \ {x})
<1>5. Sum(V) = Sum(T)
  BY <1>2, <1>4
<1>6. /\ IsFiniteSet(V) /\ x \notin V /\ V \cup {x} = T \cup U
      /\ \A y \in V \cup {x} : f[y] \in Int
      /\ f[x] = 0
      /\ Sum(V) \in Int
  BY <1>0, <1>2, <1>4
<1> HIDE DEF V
<1>7. SumFunctionOnSet(f, V \cup {x}) = SumFunctionOnSet(f, V) + f[x]
  BY <1>6, SumAdd
<1>8. Sum(T \cup U) = Sum(V)
  <2>1. Sum(T \cup U) = Sum(V) + f[x]
    BY <1>6, <1>7
  <2> HIDE DEF Sum
  <2> QED
    BY <1>6, <2>1
<1> QED
  BY <1>2, <1>5, <1>8

-----------------------------------------------------------------------------
\* The same of the sum of a function over its domain.

LEMMA SumOfNone == \A f : DOMAIN f = {} => SumFunction(f) = 0
BY SumEmpty DEF SumFunction

LEMMA SumOfType ==
    ASSUME NEW f, IsFiniteSet(DOMAIN f), \A x \in DOMAIN f : f[x] \in Int
    PROVE  SumFunction(f) \in Int
BY SumType DEF SumFunction

LEMMA SumOfAdded ==
    ASSUME NEW f, NEW g, IsFiniteSet(DOMAIN f), NEW x, x \notin DOMAIN f,
           DOMAIN g = DOMAIN f \cup {x}, \A y \in DOMAIN f : f[y] \in Int /\ g[y] = f[y],
           g[x] \in Int
    PROVE  SumFunction(g) = SumFunction(f) + g[x]
<1>1. SumFunctionOnSet(g, DOMAIN f \cup {x}) = SumFunctionOnSet(g, DOMAIN f) + g[x]
  <2>1. \A y \in DOMAIN f \cup {x} : g[y] \in Int
    OBVIOUS
  <2> QED
    BY <2>1, SumAdd
<1>2. SumFunctionOnSet(g, DOMAIN f) = SumFunctionOnSet(f, DOMAIN f)
  BY SumEqual
<1> QED
  BY <1>1, <1>2 DEF SumFunction

LEMMA SumOfChanged ==
    ASSUME NEW f, NEW g, IsFiniteSet(DOMAIN f), NEW x \in DOMAIN f, DOMAIN g = DOMAIN f,
           \A y \in DOMAIN f : f[y] \in Int, g[x] \in Int,
           \A y \in DOMAIN f \ {x} : g[y] = f[y]
    PROVE  SumFunction(g) = SumFunction(f) - f[x] + g[x]
<1>1. SumFunctionOnSet(g, DOMAIN f) = SumFunctionOnSet(f, DOMAIN f) - f[x] + g[x]
  BY SumChange
<1> QED
  BY <1>1 DEF SumFunction

LEMMA SumOfPart ==
    ASSUME NEW f, NEW g, IsFiniteSet(DOMAIN f), DOMAIN g \subseteq DOMAIN f,
           \A y \in DOMAIN f : f[y] \in Int, \A y \in DOMAIN g : g[y] = f[y]
    PROVE  /\ (\A y \in DOMAIN f \ DOMAIN g : f[y] = 0) => SumFunction(g) = SumFunction(f)
           /\ (\A y \in DOMAIN f : f[y] >= 0) => SumFunction(g) <= SumFunction(f)
<1>1. IsFiniteSet(DOMAIN g)
  BY FS_Subset
<1>2. SumFunctionOnSet(g, DOMAIN g) = SumFunctionOnSet(f, DOMAIN g)
  BY <1>1, SumEqual
<1>3. (\A y \in DOMAIN f \ DOMAIN g : f[y] = 0) =>
         SumFunctionOnSet(f, DOMAIN f) = SumFunctionOnSet(f, DOMAIN g)
  BY SumSupport
<1>4. ASSUME \A y \in DOMAIN f : f[y] >= 0
      PROVE  SumFunctionOnSet(f, DOMAIN g) <= SumFunctionOnSet(f, DOMAIN f)
  <2>1. \A y \in DOMAIN f : f[y] \in Nat
    BY <1>4
  <2> QED
    BY <2>1, SumPart
<1> QED
  BY <1>2, <1>3, <1>4 DEF SumFunction
=============================================================================
