-------------------------------- MODULE Sums --------------------------------
(***************************************************************************)
(* Sums of integers over finite sets, for the proofs: the stock of all     *)
(* sales, the units of all lines, the days of all requests. MapThenSumSet  *)
(* is a fold over an arbitrary order; the theorems give it the laws a proof*)
(* needs. The argument: a sum equals the balance of two sets of units, whose*)
(* cardinalities obey the laws of finite sets; that it does is shown by    *)
(* induction over the subsets, taken as the absence of a smallest          *)
(* counterexample, since an induction rule over a formula cannot be cited. *)
(***************************************************************************)
EXTENDS Integers, FiniteSetsExt, FiniteSetTheorems, WellFoundedInduction, TLAPS

\* The sum of an integer-valued function over a finite set.
SumOver(f, S) == MapThenSumSet(LAMBDA x : f[x], S)

\* The units of f over S: one element for each unit of a positive value, and
\* one for each unit of a negative one.
Gains(f, S)  == {u \in S \X Int : u[2] \in 1..f[u[1]]}
Losses(f, S) == {u \in S \X Int : u[2] \in 1..-f[u[1]]}
Balance(f, S) == Cardinality(Gains(f, S)) - Cardinality(Losses(f, S))

\* The units of one element.
LEMMA UnitsOfOne ==
    ASSUME NEW x, NEW n \in Int
    PROVE  /\ IsFiniteSet({x} \X (1..n))
           /\ Cardinality({x} \X (1..n)) = IF n > 0 THEN n ELSE 0
<1>1. /\ IsFiniteSet(1..n)
      /\ Cardinality(1..n) = IF n > 0 THEN n ELSE 0
  BY FS_Interval
<1>2. IsFiniteSet({x}) /\ Cardinality({x}) = 1
  BY FS_Singleton
<1>3. /\ IsFiniteSet({x} \X (1..n))
      /\ Cardinality({x} \X (1..n)) = 1 * Cardinality(1..n)
  BY <1>1, <1>2, FS_Product
<1>4. QED
  BY <1>1, <1>3

\* The gains and losses of the empty set, of which there are none.
LEMMA NothingToSum ==
    ASSUME NEW f
    PROVE  /\ IsFiniteSet(Gains(f, {})) /\ IsFiniteSet(Losses(f, {}))
           /\ Balance(f, {}) = 0
<1>1. Gains(f, {}) = {} /\ Losses(f, {}) = {}
  BY DEF Gains, Losses
<1>2. QED
  BY <1>1, FS_EmptySet DEF Balance

\* An element adds its own units to those of the rest, and no others.
LEMMA UnitsSplit ==
    ASSUME NEW f, NEW S, NEW x \in S, f[x] \in Int
    PROVE  /\ Gains(f, S) = Gains(f, S \ {x}) \cup ({x} \X (1..f[x]))
           /\ Losses(f, S) = Losses(f, S \ {x}) \cup ({x} \X (1..-f[x]))
           /\ Gains(f, S \ {x}) \cap ({x} \X (1..f[x])) = {}
           /\ Losses(f, S \ {x}) \cap ({x} \X (1..-f[x])) = {}
<1>1. 1..f[x] \subseteq Int /\ 1..-f[x] \subseteq Int
  OBVIOUS
<1>2. Gains(f, S) = Gains(f, S \ {x}) \cup ({x} \X (1..f[x]))
  BY <1>1 DEF Gains
<1>3. Losses(f, S) = Losses(f, S \ {x}) \cup ({x} \X (1..-f[x]))
  BY <1>1 DEF Losses
<1>4. Gains(f, S \ {x}) \cap ({x} \X (1..f[x])) = {}
  BY DEF Gains
<1>5. Losses(f, S \ {x}) \cap ({x} \X (1..-f[x])) = {}
  BY DEF Losses
<1>6. QED
  BY <1>2, <1>3, <1>4, <1>5

\* Removing an element with finitely many units left removes its value.
LEMMA BalanceOfOneMore ==
    ASSUME NEW f, NEW S, NEW x \in S, f[x] \in Int,
           IsFiniteSet(Gains(f, S \ {x})), IsFiniteSet(Losses(f, S \ {x}))
    PROVE  /\ IsFiniteSet(Gains(f, S)) /\ IsFiniteSet(Losses(f, S))
           /\ Balance(f, S) = f[x] + Balance(f, S \ {x})
<1> DEFINE G == Gains(f, S \ {x})
           L == Losses(f, S \ {x})
           P == {x} \X (1..f[x])
           N == {x} \X (1..-f[x])
<1>1. /\ IsFiniteSet(P) /\ IsFiniteSet(N)
      /\ Cardinality(P) = IF f[x] > 0 THEN f[x] ELSE 0
      /\ Cardinality(N) = IF -f[x] > 0 THEN -f[x] ELSE 0
  <2>1. -f[x] \in Int
    OBVIOUS
  <2>2. /\ IsFiniteSet(P)
        /\ Cardinality(P) = IF f[x] > 0 THEN f[x] ELSE 0
    BY UnitsOfOne, Zenon
  <2>3. /\ IsFiniteSet(N)
        /\ Cardinality(N) = IF -f[x] > 0 THEN -f[x] ELSE 0
    BY <2>1, UnitsOfOne, Zenon
  <2>4. QED
    BY <2>2, <2>3
<1>2. IsFiniteSet(G) /\ IsFiniteSet(L)
  OBVIOUS
<1>3. /\ Gains(f, S) = G \cup P /\ Losses(f, S) = L \cup N
      /\ G \cap P = {} /\ L \cap N = {}
  <2>1. /\ Gains(f, S) = Gains(f, S \ {x}) \cup ({x} \X (1..f[x]))
        /\ Losses(f, S) = Losses(f, S \ {x}) \cup ({x} \X (1..-f[x]))
        /\ Gains(f, S \ {x}) \cap ({x} \X (1..f[x])) = {}
        /\ Losses(f, S \ {x}) \cap ({x} \X (1..-f[x])) = {}
    BY ONLY UnitsSplit, x \in S, f[x] \in Int, Zenon
  <2>2. QED
    BY ONLY <2>1 DEF G, L, P, N
<1>4. /\ Cardinality(G) \in Nat /\ Cardinality(L) \in Nat
      /\ Cardinality(P) \in Nat /\ Cardinality(N) \in Nat
  BY <1>1, <1>2, FS_CardinalityType
<1>5. /\ IsFiniteSet(G \cup P) /\ IsFiniteSet(L \cup N)
      /\ Cardinality(G \cup P) = Cardinality(G) + Cardinality(P) - Cardinality(G \cap P)
      /\ Cardinality(L \cup N) = Cardinality(L) + Cardinality(N) - Cardinality(L \cap N)
  BY <1>1, <1>2, FS_Union
<1>6. Cardinality(G \cap P) = 0 /\ Cardinality(L \cap N) = 0
  BY <1>3, FS_EmptySet, Zenon
<1>7. /\ Cardinality(Gains(f, S)) = Cardinality(G) + Cardinality(P)
      /\ Cardinality(Losses(f, S)) = Cardinality(L) + Cardinality(N)
  <2>1. /\ Cardinality(G \cup P) = Cardinality(G) + Cardinality(P)
        /\ Cardinality(L \cup N) = Cardinality(L) + Cardinality(N)
    <3> HIDE DEF G, L, P, N
    <3> QED
      BY <1>4, <1>5, <1>6
  <2>2. QED
    BY <1>3, <2>1, Zenon
<1>8. Balance(f, S) = Cardinality(Gains(f, S)) - Cardinality(Losses(f, S))
  BY DEF Balance
<1>9. Balance(f, S \ {x}) = Cardinality(G) - Cardinality(L)
  BY DEF Balance
<1> HIDE DEF G, L, P, N
<1>10. Balance(f, S) = f[x] + Balance(f, S \ {x})
  BY <1>1, <1>4, <1>7, <1>8, <1>9
<1>11. IsFiniteSet(Gains(f, S)) /\ IsFiniteSet(Losses(f, S))
  BY <1>3, <1>5
<1>12. QED
  BY <1>10, <1>11

\* Induction over the finite subsets of a set, by the smallest counterexample:
\* of the subsets that lack a property, one has no proper subset that lacks it.
LEMMA SmallestSubset ==
    ASSUME NEW S, IsFiniteSet(S), NEW Bad, Bad \subseteq SUBSET S, Bad # {}
    PROVE  \E T \in Bad : \A U \in SUBSET T : U # T => U \notin Bad
<1> DEFINE R == StrictSubsetOrdering(S)
<1>1. IsWellFoundedOn(R, SUBSET S)
  BY FS_StrictSubsetOrderingWellFounded, FS_FiniteSubsetsOfFinite
<1> HIDE DEF R
<1>2. PICK T \in Bad : \A U \in Bad : ~ (<<U, T>> \in R)
  BY <1>1, WFMin
<1>3. ASSUME NEW U \in SUBSET T, U # T, U \in Bad
      PROVE  FALSE
  <2>1. <<U, T>> \in R
    BY <1>3 DEF R, StrictSubsetOrdering
  <2>2. QED
    BY <1>2, <1>3, <2>1
<1>4. QED
  BY <1>2, <1>3

\* A finite set of integers has finitely many units.
LEMMA UnitsFinite ==
    ASSUME NEW f, NEW S, IsFiniteSet(S), \A x \in S : f[x] \in Int
    PROVE  IsFiniteSet(Gains(f, S)) /\ IsFiniteSet(Losses(f, S))
<1> DEFINE Finite(T) == IsFiniteSet(Gains(f, T)) /\ IsFiniteSet(Losses(f, T))
           Bad == {T \in SUBSET S : ~ Finite(T)}
<1>1. SUFFICES ASSUME Bad # {}
               PROVE  FALSE
  OBVIOUS
<1>2. PICK T \in Bad : \A U \in SUBSET T : U # T => U \notin Bad
  <2>1. Bad \subseteq SUBSET S
    OBVIOUS
  <2> HIDE DEF Bad
  <2> QED
    BY <1>1, <2>1, SmallestSubset
<1>3. CASE T = {}
  BY <1>3, NothingToSum
<1>4. CASE T # {}
  <2>1. PICK x \in T : TRUE
    BY <1>4
  <2>2. Finite(T \ {x})
    BY <1>2, <2>1
  <2>3. f[x] \in Int
    OBVIOUS
  <2>4. QED
    BY <2>1, <2>2, <2>3, BalanceOfOneMore
<1>5. QED
  BY <1>3, <1>4

\* The equation the fold is defined by: what the element chosen first adds.
Recursion(f, S, iter) ==
    iter = [T \in SUBSET S |->
              IF T = {} THEN 0
              ELSE f[CHOOSE x \in T : TRUE] + iter[T \ {CHOOSE x \in T : TRUE}]]

\* The sum is the value at S of a function that solves the equation.
LEMMA SumIsFold ==
    ASSUME NEW f, NEW S
    PROVE  SumOver(f, S) = (CHOOSE iter : Recursion(f, S, iter))[S]
  BY DEF SumOver, MapThenSumSet, MapThenFoldSet, Recursion

\* The fold of a finite sum of integers is well defined, and it counts units.
THEOREM SumIsBalance ==
    ASSUME NEW f, NEW S, IsFiniteSet(S), \A x \in S : f[x] \in Int
    PROVE  SumOver(f, S) = Balance(f, S)
<1> DEFINE iter == CHOOSE iter : Recursion(f, S, iter)
           B == [T \in SUBSET S |-> Balance(f, T)]
<1>1. ASSUME NEW T \in SUBSET S, NEW x \in T
      PROVE  Balance(f, T) = f[x] + Balance(f, T \ {x})
  <2>1. IsFiniteSet(T \ {x}) /\ T \ {x} \in SUBSET S
    BY FS_Subset
  <2>2. IsFiniteSet(Gains(f, T \ {x})) /\ IsFiniteSet(Losses(f, T \ {x}))
    BY <2>1, UnitsFinite
  <2>3. QED
    BY <2>2, BalanceOfOneMore
<1>2. Recursion(f, S, B)
  <2>1. ASSUME NEW T \in SUBSET S
        PROVE  B[T] = IF T = {} THEN 0
                      ELSE f[CHOOSE x \in T : TRUE] + B[T \ {CHOOSE x \in T : TRUE}]
    <3>1. CASE T = {}
      BY <3>1, NothingToSum
    <3>2. CASE T # {}
      <4> DEFINE c == CHOOSE x \in T : TRUE
      <4>1. c \in T
        BY <3>2
      <4> HIDE DEF c
      <4>2. Balance(f, T) = f[c] + Balance(f, T \ {c})
        BY <1>1, <4>1
      <4>3. B[T] = f[c] + B[T \ {c}]
        BY <4>2
      <4>4. QED
        BY <3>2, <4>3 DEF c
    <3>3. QED
      BY <3>1, <3>2
  <2>2. QED
    BY <2>1, Zenon DEF Recursion
<1>3. Recursion(f, S, iter)
  BY <1>2, Zenon
<1> HIDE DEF iter
<1> DEFINE Bad == {T \in SUBSET S : iter[T] # Balance(f, T)}
<1>4. Bad = {}
  <2>1. SUFFICES ASSUME Bad # {}
                 PROVE  FALSE
    OBVIOUS
  <2>2. PICK T \in Bad : \A U \in SUBSET T : U # T => U \notin Bad
    <3>1. Bad \subseteq SUBSET S
      OBVIOUS
    <3> HIDE DEF Bad
    <3> QED
      BY <2>1, <3>1, SmallestSubset
  <2>3. CASE T = {}
    <3>1. iter[T] = 0
      BY <1>3, <2>3 DEF Recursion
    <3>2. QED
      BY <2>2, <2>3, <3>1, NothingToSum
  <2>4. CASE T # {}
    <3> DEFINE c == CHOOSE x \in T : TRUE
    <3>1. c \in T
      BY <2>4
    <3>2. iter[T] = f[c] + iter[T \ {c}]
      BY <1>3, <2>4 DEF Recursion
    <3> HIDE DEF c
    <3>3. iter[T \ {c}] = Balance(f, T \ {c})
      BY <2>2, <3>1
    <3>4. QED
      BY <1>1, <2>2, <3>1, <3>2, <3>3
  <2>5. QED
    BY <2>3, <2>4
<1>5. QED
  BY <1>4, SumIsFold DEF iter

-----------------------------------------------------------------------------
(* What the proofs use.                                                     *)

\* A sum of integers is an integer.
THEOREM SumIsInt ==
    ASSUME NEW f, NEW S, IsFiniteSet(S), \A x \in S : f[x] \in Int
    PROVE  SumOver(f, S) \in Int
  BY SumIsBalance, UnitsFinite, FS_CardinalityType DEF Balance

\* A sum of no values, or of zeros only, is 0.
THEOREM SumOfZeros ==
    ASSUME NEW f, NEW S, IsFiniteSet(S), \A x \in S : f[x] = 0
    PROVE  SumOver(f, S) = 0
<1>1. Gains(f, S) = {} /\ Losses(f, S) = {}
  <2>1. 1..0 = {} /\ 1..-0 = {}
    OBVIOUS
  <2>2. QED
    BY <2>1 DEF Gains, Losses
<1>2. SumOver(f, S) = Balance(f, S)
  BY SumIsBalance
<1>3. QED
  BY <1>1, <1>2, FS_EmptySet DEF Balance

\* A sum depends on the values it adds and on nothing else.
THEOREM SumOfEquals ==
    ASSUME NEW f, NEW g, NEW S, IsFiniteSet(S),
           \A x \in S : f[x] \in Int /\ g[x] = f[x]
    PROVE  SumOver(g, S) = SumOver(f, S)
<1>1. Gains(g, S) = Gains(f, S) /\ Losses(g, S) = Losses(f, S)
  BY DEF Gains, Losses
<1>2. SumOver(g, S) = Balance(g, S) /\ SumOver(f, S) = Balance(f, S)
  BY SumIsBalance
<1>3. QED
  BY <1>1, <1>2, Zenon DEF Balance

\* Every value counts once, in whatever order the values are added.
THEOREM SumWithout ==
    ASSUME NEW f, NEW S, IsFiniteSet(S), \A x \in S : f[x] \in Int, NEW x \in S
    PROVE  SumOver(f, S) = f[x] + SumOver(f, S \ {x})
<1>1. IsFiniteSet(S \ {x})
  BY FS_Subset
<1>2. IsFiniteSet(Gains(f, S \ {x})) /\ IsFiniteSet(Losses(f, S \ {x}))
  BY <1>1, UnitsFinite
<1>3. Balance(f, S) = f[x] + Balance(f, S \ {x})
  BY <1>2, BalanceOfOneMore
<1>4. SumOver(f, S) = Balance(f, S) /\ SumOver(f, S \ {x}) = Balance(f, S \ {x})
  BY <1>1, SumIsBalance
<1>5. QED
  BY <1>3, <1>4

\* Changing one value changes the sum by the difference.
THEOREM SumChanged ==
    ASSUME NEW f, NEW g, NEW S, IsFiniteSet(S), NEW x \in S,
           \A y \in S : f[y] \in Int, g[x] \in Int,
           \A y \in S \ {x} : g[y] = f[y]
    PROVE  SumOver(g, S) = SumOver(f, S) - f[x] + g[x]
<1>1. IsFiniteSet(S \ {x})
  BY FS_Subset
<1>2. \A y \in S : g[y] \in Int
  OBVIOUS
<1>3. SumOver(g, S \ {x}) = SumOver(f, S \ {x}) /\ SumOver(f, S \ {x}) \in Int
  BY <1>1, SumOfEquals, SumIsInt
<1>4. SumOver(g, S) = g[x] + SumOver(g, S \ {x})
  BY <1>2, SumWithout
<1>5. SumOver(f, S) = f[x] + SumOver(f, S \ {x})
  BY SumWithout
<1>6. f[x] \in Int
  OBVIOUS
<1>7. QED
  BY <1>3, <1>4, <1>5, <1>6

\* Elements of value 0 may be left out.
THEOREM SumOfPart ==
    ASSUME NEW f, NEW S, IsFiniteSet(S), \A x \in S : f[x] \in Int,
           NEW T \in SUBSET S, \A x \in S \ T : f[x] = 0
    PROVE  SumOver(f, T) = SumOver(f, S)
<1>1. IsFiniteSet(T)
  BY FS_Subset
<1>2. 1..0 = {} /\ 1..-0 = {}
  OBVIOUS
<1>3. Gains(f, T) = Gains(f, S) /\ Losses(f, T) = Losses(f, S)
  BY <1>2 DEF Gains, Losses
<1>4. SumOver(f, T) = Balance(f, T) /\ SumOver(f, S) = Balance(f, S)
  BY <1>1, SumIsBalance
<1>5. QED
  BY <1>3, <1>4, Zenon DEF Balance

\* Raising values never lowers the sum.
THEOREM SumOfLarger ==
    ASSUME NEW f, NEW g, NEW S, IsFiniteSet(S),
           \A x \in S : f[x] \in Int /\ g[x] \in Int /\ f[x] <= g[x]
    PROVE  SumOver(f, S) <= SumOver(g, S)
<1>1. Gains(f, S) \subseteq Gains(g, S) /\ Losses(g, S) \subseteq Losses(f, S)
  <2>1. ASSUME NEW a \in Int, NEW b \in Int, a <= b
        PROVE  1..a \subseteq 1..b /\ 1..-b \subseteq 1..-a
    BY <2>1
  <2>2. \A x \in S : 1..f[x] \subseteq 1..g[x] /\ 1..-g[x] \subseteq 1..-f[x]
    BY <2>1
  <2>3. QED
    BY <2>2, Zenon DEF Gains, Losses
<1>2. /\ IsFiniteSet(Gains(f, S)) /\ IsFiniteSet(Losses(f, S))
      /\ IsFiniteSet(Gains(g, S)) /\ IsFiniteSet(Losses(g, S))
  BY UnitsFinite
<1>3. /\ Cardinality(Gains(f, S)) <= Cardinality(Gains(g, S))
      /\ Cardinality(Losses(g, S)) <= Cardinality(Losses(f, S))
  BY <1>1, <1>2, FS_Subset
<1>4. /\ Cardinality(Gains(f, S)) \in Nat /\ Cardinality(Losses(f, S)) \in Nat
      /\ Cardinality(Gains(g, S)) \in Nat /\ Cardinality(Losses(g, S)) \in Nat
  BY <1>2, FS_CardinalityType
<1>5. SumOver(f, S) = Balance(f, S) /\ SumOver(g, S) = Balance(g, S)
  BY SumIsBalance
<1>6. QED
  BY <1>3, <1>4, <1>5 DEF Balance

\* The sum of the sums is the sum of both.
THEOREM SumOfBoth ==
    ASSUME NEW f, NEW g, NEW h, NEW S, IsFiniteSet(S),
           \A x \in S : f[x] \in Int /\ g[x] \in Int /\ h[x] = f[x] + g[x]
    PROVE  SumOver(h, S) = SumOver(f, S) + SumOver(g, S)
<1> DEFINE Adds(T) == SumOver(h, T) = SumOver(f, T) + SumOver(g, T)
           Bad == {T \in SUBSET S : ~ Adds(T)}
<1>1. SUFFICES ASSUME Bad # {}
               PROVE  FALSE
  OBVIOUS
<1>2. PICK T \in Bad : \A U \in SUBSET T : U # T => U \notin Bad
  <2>1. Bad \subseteq SUBSET S
    OBVIOUS
  <2> HIDE DEF Bad
  <2> QED
    BY <1>1, <2>1, SmallestSubset
<1>3. T \in SUBSET S /\ IsFiniteSet(T) /\ ~ Adds(T)
  BY FS_Subset
<1>4. CASE T = {}
  <2>1. SumOver(f, {}) = 0 /\ SumOver(g, {}) = 0 /\ SumOver(h, {}) = 0
    BY FS_EmptySet, SumOfZeros
  <2>2. QED
    BY <1>3, <1>4, <2>1
<1>5. CASE T # {}
  <2>1. PICK x \in T : TRUE
    BY <1>5
  <2> DEFINE R == T \ {x}
  <2>2. R \in SUBSET S /\ IsFiniteSet(R) /\ Adds(R)
    BY <1>2, <1>3, <2>1, FS_Subset
  <2>3. \A y \in T : f[y] \in Int /\ g[y] \in Int /\ h[y] \in Int
    BY <1>3
  <2>4. /\ SumOver(f, T) = f[x] + SumOver(f, R)
        /\ SumOver(g, T) = g[x] + SumOver(g, R)
        /\ SumOver(h, T) = h[x] + SumOver(h, R)
    BY <1>3, <2>3, SumWithout
  <2>5. SumOver(f, R) \in Int /\ SumOver(g, R) \in Int
    BY <2>2, <2>3, SumIsInt
  <2>6. f[x] \in Int /\ g[x] \in Int /\ h[x] = f[x] + g[x]
    BY <1>3, <2>1
  <2>7. Adds(T)
    BY <2>2, <2>4, <2>5, <2>6
  <2>8. QED
    BY <1>3, <2>7
<1>6. QED
  BY <1>4, <1>5

\* No value of a sum of natural numbers is above the sum.
THEOREM SumOfNaturals ==
    ASSUME NEW f, NEW S, IsFiniteSet(S), \A x \in S : f[x] \in Nat
    PROVE  /\ SumOver(f, S) \in Nat
           /\ \A x \in S : f[x] <= SumOver(f, S)
<1>1. ASSUME NEW T \in SUBSET S
      PROVE  SumOver(f, T) \in Nat
  <2> DEFINE zero == [x \in T |-> 0]
  <2>1. IsFiniteSet(T) /\ \A x \in T : f[x] \in Int /\ zero[x] \in Int /\ zero[x] <= f[x]
    BY FS_Subset
  <2>2. \A x \in T : zero[x] = 0
    OBVIOUS
  <2> HIDE DEF zero
  <2>3. SumOver(zero, T) = 0 /\ SumOver(zero, T) <= SumOver(f, T) /\ SumOver(f, T) \in Int
    BY <2>1, <2>2, SumOfZeros, SumOfLarger, SumIsInt
  <2>4. QED
    BY <2>3
<1>2. ASSUME NEW x \in S
      PROVE  f[x] <= SumOver(f, S)
  <2>1. SumOver(f, S) = f[x] + SumOver(f, S \ {x})
    BY SumWithout
  <2>2. SumOver(f, S \ {x}) \in Nat /\ f[x] \in Nat
    BY <1>1
  <2>3. QED
    BY <2>1, <2>2
<1>3. QED
  BY <1>1, <1>2

=============================================================================
