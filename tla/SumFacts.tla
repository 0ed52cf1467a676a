------------------------------ MODULE SumFacts ------------------------------
(***************************************************************************)
(* What Sum and Product give over finite sets: a sum does not depend on    *)
(* the order in which elements are taken, it grows with its function, and  *)
(* it may be taken apart by elements, by sets and by summands.             *)
(*                                                                         *)
(* Both are folds: recursive functions on the subsets of the set.  That    *)
(* the recursion has a solution, and only one, is shown by looking at a    *)
(* smallest set where it would not be so; every later fact the same way.   *)
(***************************************************************************)
EXTENDS Sums, Integers, FiniteSetTheorems, TLAPS

\* The element the folds take of a set.
First(s) == CHOOSE x \in s : TRUE

\* One step of adding up or of multiplying, and where they begin.
Begin(k) == IF k = "sum" THEN 0 ELSE 1
Step(k, x, y) == IF k = "sum" THEN x + y ELSE x * y

\* g solves the fold's recursion for f on the subsets of S.
Solves(k, g, f, S) ==
    g = [s \in SUBSET S |-> IF s = {} THEN Begin(k) ELSE Step(k, f[First(s)], g[s \ {First(s)}])]

AddsUp(g, f, S) ==
    g = [s \in SUBSET S |-> IF s = {} THEN 0 ELSE f[First(s)] + g[s \ {First(s)}]]

Multiplies(g, f, S) ==
    g = [s \in SUBSET S |-> IF s = {} THEN 1 ELSE f[First(s)] * g[s \ {First(s)}]]

\* Sum and Product are the values of some solutions.
LEMMA FoldsSolve ==
  ASSUME NEW f, NEW S
  PROVE  /\ Sum(f, S) = (CHOOSE g : AddsUp(g, f, S))[S]
         /\ Product(f, S) = (CHOOSE g : Multiplies(g, f, S))[S]
         /\ \A g : AddsUp(g, f, S) <=> Solves("sum", g, f, S)
         /\ \A g : Multiplies(g, f, S) <=> Solves("product", g, f, S)
  <1>1. Sum(f, S) = (CHOOSE g : AddsUp(g, f, S))[S]
    BY DEF Sum, MapThenSumSet, MapThenFoldSet, AddsUp, First
  <1>2. Product(f, S) = (CHOOSE g : Multiplies(g, f, S))[S]
    BY DEF Product, MapThenFoldSet, Multiplies, First
  <1>3. \A g : AddsUp(g, f, S) <=> Solves("sum", g, f, S)
    BY DEF AddsUp, Solves, Begin, Step
  <1>4. \A g : Multiplies(g, f, S) <=> Solves("product", g, f, S)
    BY DEF Multiplies, Solves, Begin, Step
  <1>5. QED
    BY <1>1, <1>2, <1>3, <1>4

\* Of some subsets of a finite set one has no other below it.
LEMMA Smallest ==
  ASSUME NEW S, IsFiniteSet(S), NEW Bad \in SUBSET (SUBSET S), Bad # {}
  PROVE  \E s \in Bad : \A t \in SUBSET s : t # s => t \notin Bad
  <1>1. IsWellFoundedOn(StrictSubsetOrdering(S), SUBSET S)
    BY FS_StrictSubsetOrderingWellFounded, FS_FiniteSubsetsOfFinite
  <1>2. PICK s \in Bad : \A t \in Bad : ~ (<<t, s>> \in StrictSubsetOrdering(S))
    BY <1>1, WFMin
  <1>3. ASSUME NEW t \in SUBSET s, t # s, t \in Bad PROVE FALSE
    BY <1>2, <1>3 DEF StrictSubsetOrdering
  <1>4. QED
    BY <1>3

\* Taking the first element leaves a smaller set.
LEMMA FirstIn ==
  ASSUME NEW S, S # {}
  PROVE  First(S) \in S /\ S \ {First(S)} \in SUBSET S /\ S \ {First(S)} # S
  BY DEF First

\* Solutions agree where both are defined.
LEMMA SolutionsAgree ==
  ASSUME NEW k, NEW S, IsFiniteSet(S), NEW T, NEW f, NEW g, NEW h,
         Solves(k, g, f, S), Solves(k, h, f, T)
  PROVE  \A s \in (SUBSET S) \cap (SUBSET T) : g[s] = h[s]
  <1> DEFINE Bad == {s \in SUBSET S : s \in SUBSET T /\ g[s] # h[s]}
  <1>1. SUFFICES ASSUME Bad # {} PROVE FALSE
    OBVIOUS
  <1>2. PICK s \in Bad : \A t \in SUBSET s : t # s => t \notin Bad
    <2>1. Bad \in SUBSET (SUBSET S)
      OBVIOUS
    <2> HIDE DEF Bad
    <2>2. QED
      BY <1>1, <2>1, Smallest
  <1>3. /\ g[s] = IF s = {} THEN Begin(k) ELSE Step(k, f[First(s)], g[s \ {First(s)}])
        /\ h[s] = IF s = {} THEN Begin(k) ELSE Step(k, f[First(s)], h[s \ {First(s)}])
    BY <1>2 DEF Solves
  <1>4. s # {} => g[s \ {First(s)}] = h[s \ {First(s)}]
    BY <1>2, FirstIn
  <1>5. QED
    BY <1>2, <1>3, <1>4

\* There is a solution on every finite set.
LEMMA SolutionExists ==
  ASSUME NEW k, NEW S, IsFiniteSet(S), NEW f
  PROVE  \E g : Solves(k, g, f, S)
  <1> DEFINE Bad == {s \in SUBSET S : ~ \E g : Solves(k, g, f, s)}
  <1>1. SUFFICES ASSUME Bad # {} PROVE FALSE
    OBVIOUS
  <1>2. PICK s \in Bad : \A t \in SUBSET s : t # s => t \notin Bad
    <2>1. Bad \in SUBSET (SUBSET S)
      OBVIOUS
    <2> HIDE DEF Bad
    <2>2. QED
      BY <1>1, <2>1, Smallest
  <1> DEFINE G(t) == (CHOOSE g : Solves(k, g, f, t))[t]
             h == [t \in SUBSET s |-> IF t = {} THEN Begin(k) ELSE Step(k, f[First(t)], G(t \ {First(t)}))]
  <1>3. ASSUME NEW t \in SUBSET s, t # s
        PROVE  Solves(k, CHOOSE g : Solves(k, g, f, t), f, t)
    BY <1>2, <1>3
  <1>4. ASSUME NEW t \in SUBSET s, t # s PROVE h[t] = G(t)
    <2> DEFINE g == CHOOSE g : Solves(k, g, f, t)
    <2>1. Solves(k, g, f, t)
      BY <1>3, <1>4
    <2>2. g[t] = IF t = {} THEN Begin(k) ELSE Step(k, f[First(t)], g[t \ {First(t)}])
      BY <2>1 DEF Solves
    <2>3. ASSUME t # {} PROVE g[t \ {First(t)}] = G(t \ {First(t)})
      <3> DEFINE u == t \ {First(t)}
      <3>1. u \in SUBSET s /\ u # s /\ u \in SUBSET t
        BY <1>4, <2>3, FirstIn
      <3>2. Solves(k, CHOOSE m : Solves(k, m, f, u), f, u)
        BY <1>3, <3>1
      <3>3. IsFiniteSet(t)
        BY <1>2, FS_Subset
      <3>4. QED
        BY <2>1, <3>1, <3>2, <3>3, SolutionsAgree
    <2>4. QED
      BY <1>4, <2>2, <2>3
  <1>5. Solves(k, h, f, s)
    <2>1. ASSUME NEW t \in SUBSET s, t # {}
          PROVE  G(t \ {First(t)}) = h[t \ {First(t)}]
      <3>1. t \ {First(t)} \in SUBSET s /\ t \ {First(t)} # s
        BY <2>1, FirstIn
      <3>2. QED
        BY <1>4, <3>1
    <2> HIDE DEF G
    <2>2. h = [t \in SUBSET s |-> IF t = {} THEN Begin(k) ELSE Step(k, f[First(t)], h[t \ {First(t)}])]
      BY <2>1
    <2>3. QED
      BY <2>2 DEF Solves
  <1>6. QED
    BY <1>2, <1>5

\* The sum of nothing is 0, and that of more begins with the first element.
LEMMA SumUnfolds ==
  ASSUME NEW S, IsFiniteSet(S), NEW f
  PROVE  Sum(f, S) = IF S = {} THEN 0 ELSE f[First(S)] + Sum(f, S \ {First(S)})
  <1>1. ASSUME NEW T \in SUBSET S
        PROVE  \E g : Solves("sum", g, f, T) /\ AddsUp(g, f, T) /\ Sum(f, T) = g[T]
    <2>1. IsFiniteSet(T)
      BY FS_Subset
    <2>2. \E g : AddsUp(g, f, T)
      BY <2>1, SolutionExists, FoldsSolve
    <2>3. AddsUp(CHOOSE g : AddsUp(g, f, T), f, T)
      BY <2>2
    <2>4. QED
      BY <2>3, FoldsSolve
  <1>2. PICK g : Solves("sum", g, f, S) /\ AddsUp(g, f, S) /\ Sum(f, S) = g[S]
    BY <1>1
  <1>3. ASSUME S # {} PROVE g[S \ {First(S)}] = Sum(f, S \ {First(S)})
    <2> DEFINE T == S \ {First(S)}
    <2>1. T \in SUBSET S
      OBVIOUS
    <2>2. PICK h : Solves("sum", h, f, T) /\ Sum(f, T) = h[T]
      BY <1>1, <2>1
    <2>3. T \in (SUBSET S) \cap (SUBSET T)
      BY <2>1
    <2> HIDE DEF T
    <2>4. \A t \in (SUBSET S) \cap (SUBSET T) : g[t] = h[t]
      BY <1>2, <2>2, SolutionsAgree
    <2>5. QED
      BY <2>2, <2>3, <2>4 DEF T
  <1>4. Sum(f, S) = IF S = {} THEN 0 ELSE f[First(S)] + g[S \ {First(S)}]
    BY <1>2 DEF AddsUp
  <1>5. QED
    BY <1>3, <1>4

\* The product of nothing is 1, and that of more begins with the first element.
LEMMA ProductUnfolds ==
  ASSUME NEW S, IsFiniteSet(S), NEW f
  PROVE  Product(f, S) = IF S = {} THEN 1 ELSE f[First(S)] * Product(f, S \ {First(S)})
  <1>1. ASSUME NEW T \in SUBSET S
        PROVE  \E g : Solves("product", g, f, T) /\ Multiplies(g, f, T) /\ Product(f, T) = g[T]
    <2>1. IsFiniteSet(T)
      BY FS_Subset
    <2>2. \E g : Multiplies(g, f, T)
      BY <2>1, SolutionExists, FoldsSolve
    <2>3. Multiplies(CHOOSE g : Multiplies(g, f, T), f, T)
      BY <2>2
    <2>4. QED
      BY <2>3, FoldsSolve
  <1>2. PICK g : Solves("product", g, f, S) /\ Multiplies(g, f, S) /\ Product(f, S) = g[S]
    BY <1>1
  <1>3. ASSUME S # {} PROVE g[S \ {First(S)}] = Product(f, S \ {First(S)})
    <2> DEFINE T == S \ {First(S)}
    <2>1. T \in SUBSET S
      OBVIOUS
    <2>2. PICK h : Solves("product", h, f, T) /\ Product(f, T) = h[T]
      BY <1>1, <2>1
    <2>3. T \in (SUBSET S) \cap (SUBSET T)
      BY <2>1
    <2> HIDE DEF T
    <2>4. \A t \in (SUBSET S) \cap (SUBSET T) : g[t] = h[t]
      BY <1>2, <2>2, SolutionsAgree
    <2>5. QED
      BY <2>2, <2>3, <2>4 DEF T
  <1>4. Product(f, S) = IF S = {} THEN 1 ELSE f[First(S)] * g[S \ {First(S)}]
    BY <1>2 DEF Multiplies
  <1>5. QED
    BY <1>3, <1>4

\* A sum of integers is an integer, one of numbers a number.
LEMMA SumIsInt ==
  ASSUME NEW S, IsFiniteSet(S), NEW f, \A x \in S : f[x] \in Int
  PROVE  Sum(f, S) \in Int
  <1> DEFINE Bad == {s \in SUBSET S : Sum(f, s) \notin Int}
  <1>1. SUFFICES ASSUME Bad # {} PROVE FALSE
    OBVIOUS
  <1>2. PICK s \in Bad : \A t \in SUBSET s : t # s => t \notin Bad
    <2>1. Bad \in SUBSET (SUBSET S)
      OBVIOUS
    <2> HIDE DEF Bad
    <2>2. QED
      BY <1>1, <2>1, Smallest
  <1>3. IsFiniteSet(s) /\ s # {} => Sum(f, s) = f[First(s)] + Sum(f, s \ {First(s)})
    BY SumUnfolds
  <1>4. s # {} => Sum(f, s \ {First(s)}) \in Int /\ First(s) \in S
    BY <1>2, FirstIn
  <1>5. IsFiniteSet(s)
    BY <1>2, FS_Subset
  <1>6. s = {} => Sum(f, s) = 0
    BY <1>5, SumUnfolds
  <1>7. QED
    BY <1>2, <1>3, <1>4, <1>5, <1>6

\* The sum of numbers is not negative.
LEMMA SumIsNat ==
  ASSUME NEW S, IsFiniteSet(S), NEW f, \A x \in S : f[x] \in Nat
  PROVE  Sum(f, S) \in Nat
  <1> DEFINE Bad == {s \in SUBSET S : Sum(f, s) \notin Nat}
  <1>1. SUFFICES ASSUME Bad # {} PROVE FALSE
    OBVIOUS
  <1>2. PICK s \in Bad : \A t \in SUBSET s : t # s => t \notin Bad
    <2>1. Bad \in SUBSET (SUBSET S)
      OBVIOUS
    <2> HIDE DEF Bad
    <2>2. QED
      BY <1>1, <2>1, Smallest
  <1>3. IsFiniteSet(s) /\ s # {} => Sum(f, s) = f[First(s)] + Sum(f, s \ {First(s)})
    BY SumUnfolds
  <1>4. s # {} => Sum(f, s \ {First(s)}) \in Nat /\ First(s) \in S
    BY <1>2, FirstIn
  <1>5. IsFiniteSet(s)
    BY <1>2, FS_Subset
  <1>6. s = {} => Sum(f, s) = 0
    BY <1>5, SumUnfolds
  <1>7. QED
    BY <1>2, <1>3, <1>4, <1>5, <1>6

\* Any element may be taken out first.
LEMMA SumTakes ==
  ASSUME NEW S, IsFiniteSet(S), NEW f, \A x \in S : f[x] \in Int
  PROVE  \A y \in S : Sum(f, S) = f[y] + Sum(f, S \ {y})
  <1> DEFINE Right(s, y) == Sum(f, s) = f[y] + Sum(f, s \ {y})
             Bad == {s \in SUBSET S : \E y \in s : ~Right(s, y)}
  <1>1. SUFFICES ASSUME Bad # {} PROVE FALSE
    OBVIOUS
  <1>2. PICK s \in Bad : \A t \in SUBSET s : t # s => t \notin Bad
    <2>1. Bad \in SUBSET (SUBSET S)
      OBVIOUS
    <2> HIDE DEF Bad
    <2>2. QED
      BY <1>1, <2>1, Smallest
  <1>3. PICK y \in s : ~Right(s, y)
    BY <1>2
  <1> DEFINE p == First(s)
  <1>4. IsFiniteSet(s) /\ p \in s /\ Right(s, p)
    <2>1. IsFiniteSet(s) /\ s # {}
      BY <1>2, <1>3, FS_Subset
    <2>2. QED
      BY <2>1, FirstIn, SumUnfolds
  <1>5. p # y
    BY <1>3, <1>4
  <1>6. Right(s \ {p}, y) /\ Right(s \ {y}, p)
    <2>1. s \ {p} \in SUBSET s /\ s \ {y} \in SUBSET s /\ s \ {p} # s /\ s \ {y} # s
      BY <1>3, <1>4
    <2>2. s \ {p} \notin Bad /\ s \ {y} \notin Bad /\ s \in SUBSET S
      BY <1>2, <2>1
    <2>3. y \in s \ {p} /\ p \in s \ {y} /\ s \ {p} \in SUBSET S /\ s \ {y} \in SUBSET S
      BY <1>3, <1>4, <1>5, <2>2
    <2> HIDE DEF Right
    <2>4. QED
      BY <2>2, <2>3
  <1>7. (s \ {p}) \ {y} = (s \ {y}) \ {p} /\ IsFiniteSet((s \ {p}) \ {y})
    BY <1>4, FS_Subset
  <1>8. f[p] \in Int /\ f[y] \in Int /\ Sum(f, (s \ {p}) \ {y}) \in Int
    BY <1>2, <1>3, <1>4, <1>7, SumIsInt
  <1> DEFINE rest == Sum(f, (s \ {p}) \ {y})
  <1>9. Sum(f, s) = f[p] + Sum(f, s \ {p}) /\ Sum(f, s \ {p}) = f[y] + rest
    BY <1>4, <1>6
  <1>10. Sum(f, s \ {y}) = f[p] + rest
    BY <1>6, <1>7
  <1>11. Sum(f, s) = f[y] + Sum(f, s \ {y})
    <2> HIDE DEF rest, p
    <2>1. rest \in Int /\ f[p] \in Int /\ f[y] \in Int
      BY <1>8 DEF rest
    <2>2. QED
      BY <1>9, <1>10, <2>1
  <1>12. QED
    BY <1>3, <1>11

\* The sum of nothing, and what one element more adds.
LEMMA SumAdds ==
  ASSUME NEW S, IsFiniteSet(S), NEW f, \A x \in S : f[x] \in Int,
         NEW y, y \notin S, f[y] \in Int
  PROVE  Sum(f, {}) = 0 /\ Sum(f, S \cup {y}) = Sum(f, S) + f[y]
  <1>1. IsFiniteSet(S \cup {y}) /\ IsFiniteSet({})
    BY FS_AddElement, FS_EmptySet
  <1>2. Sum(f, S \cup {y}) = f[y] + Sum(f, (S \cup {y}) \ {y})
    BY <1>1, SumTakes
  <1>3. (S \cup {y}) \ {y} = S
    OBVIOUS
  <1>4. Sum(f, {}) = 0
    BY <1>1, SumUnfolds
  <1>5. Sum(f, S \cup {y}) = f[y] + Sum(f, S) /\ Sum(f, S) \in Int
    BY <1>2, <1>3, SumIsInt
  <1>6. QED
    BY <1>4, <1>5

\* A sum is no larger than that of a function that is no smaller, and the same
\* where the functions agree.
LEMMA SumGrows ==
  ASSUME NEW S, IsFiniteSet(S), NEW f, NEW g,
         \A x \in S : f[x] \in Int /\ g[x] \in Int /\ f[x] <= g[x]
  PROVE  Sum(f, S) <= Sum(g, S)
  <1> DEFINE Bad == {s \in SUBSET S : ~(Sum(f, s) <= Sum(g, s))}
  <1>1. SUFFICES ASSUME Bad # {} PROVE FALSE
    OBVIOUS
  <1>2. PICK s \in Bad : \A t \in SUBSET s : t # s => t \notin Bad
    <2>1. Bad \in SUBSET (SUBSET S)
      OBVIOUS
    <2> HIDE DEF Bad
    <2>2. QED
      BY <1>1, <2>1, Smallest
  <1> DEFINE p == First(s)
  <1>3. IsFiniteSet(s)
    BY <1>2, FS_Subset
  <1>4. CASE s = {}
    <2>1. Sum(f, s) = 0 /\ Sum(g, s) = 0
      BY <1>3, <1>4, SumUnfolds
    <2>2. QED
      BY <1>2, <2>1
  <1>5. CASE s # {}
    <2>1. p \in S /\ s \ {p} \in SUBSET s /\ s \ {p} # s /\ s \in SUBSET S
      BY <1>2, <1>5, FirstIn
    <2>2. /\ Sum(f, s) = f[p] + Sum(f, s \ {p})
          /\ Sum(g, s) = g[p] + Sum(g, s \ {p})
      BY <1>3, <1>5, SumUnfolds
    <2>3. Sum(f, s \ {p}) <= Sum(g, s \ {p})
      BY <1>2, <2>1
    <2>4. Sum(f, s \ {p}) \in Int /\ Sum(g, s \ {p}) \in Int
      <3>1. IsFiniteSet(s \ {p}) /\ s \ {p} \in SUBSET S
        BY <1>3, <2>1, FS_Subset
      <3>2. QED
        BY <3>1, SumIsInt
    <2>5. QED
      BY <1>2, <2>1, <2>2, <2>3, <2>4
  <1>6. QED
    BY <1>4, <1>5

\* Functions that agree on the set have the same sum over it.
LEMMA SumSame ==
  ASSUME NEW S, IsFiniteSet(S), NEW f, NEW g, \A x \in S : f[x] \in Int /\ f[x] = g[x]
  PROVE  Sum(f, S) = Sum(g, S)
  <1>1. Sum(f, S) <= Sum(g, S) /\ Sum(g, S) <= Sum(f, S)
    BY SumGrows
  <1>2. Sum(f, S) \in Int /\ Sum(g, S) \in Int
    BY SumIsInt
  <1>3. QED
    BY <1>1, <1>2

\* Changing the function at one element changes the sum by as much.
LEMMA SumChanges ==
  ASSUME NEW S, IsFiniteSet(S), NEW f, NEW g, NEW y \in S,
         \A x \in S : f[x] \in Int /\ g[x] \in Int,
         \A x \in S : x # y => f[x] = g[x]
  PROVE  Sum(g, S) = Sum(f, S) + g[y] - f[y]
  <1>1. Sum(f, S) = f[y] + Sum(f, S \ {y}) /\ Sum(g, S) = g[y] + Sum(g, S \ {y})
    BY SumTakes
  <1>2. IsFiniteSet(S \ {y})
    BY FS_Subset
  <1>3. Sum(f, S \ {y}) = Sum(g, S \ {y}) /\ Sum(f, S \ {y}) \in Int
    BY <1>2, SumSame, SumIsInt
  <1>4. QED
    BY <1>1, <1>3

\* A product of positive numbers is one.
LEMMA ProductIsPositive ==
  ASSUME NEW S, IsFiniteSet(S), NEW f, \A x \in S : f[x] \in Nat \ {0}
  PROVE  Product(f, S) \in Nat \ {0}
  <1> DEFINE Bad == {s \in SUBSET S : Product(f, s) \notin Nat \ {0}}
  <1>1. SUFFICES ASSUME Bad # {} PROVE FALSE
    OBVIOUS
  <1>2. PICK s \in Bad : \A t \in SUBSET s : t # s => t \notin Bad
    <2>1. Bad \in SUBSET (SUBSET S)
      OBVIOUS
    <2> HIDE DEF Bad
    <2>2. QED
      BY <1>1, <2>1, Smallest
  <1>3. Product(f, s) = IF s = {} THEN 1 ELSE f[First(s)] * Product(f, s \ {First(s)})
    BY <1>2, FS_Subset, ProductUnfolds
  <1>4. s # {} => Product(f, s \ {First(s)}) \in Nat \ {0} /\ First(s) \in S
    BY <1>2, FirstIn
  <1>5. \A m, n \in Nat \ {0} : m * n \in Nat \ {0}
    OBVIOUS
  <1>6. QED
    BY <1>2, <1>3, <1>4, <1>5

\* A sum of two functions is the sum of their sums.
LEMMA SumPlus ==
  ASSUME NEW S, IsFiniteSet(S), NEW f, NEW g, NEW h,
         \A x \in S : g[x] \in Int /\ h[x] \in Int /\ f[x] = g[x] + h[x]
  PROVE  Sum(f, S) = Sum(g, S) + Sum(h, S)
  <1> DEFINE Bad == {s \in SUBSET S : Sum(f, s) # Sum(g, s) + Sum(h, s)}
  <1>1. SUFFICES ASSUME Bad # {} PROVE FALSE
    OBVIOUS
  <1>2. PICK s \in Bad : \A t \in SUBSET s : t # s => t \notin Bad
    <2>1. Bad \in SUBSET (SUBSET S)
      OBVIOUS
    <2> HIDE DEF Bad
    <2>2. QED
      BY <1>1, <2>1, Smallest
  <1> DEFINE p == First(s)
             t == s \ {p}
  <1>3. IsFiniteSet(s)
    BY <1>2, FS_Subset
  <1>4. /\ Sum(f, s) = IF s = {} THEN 0 ELSE f[p] + Sum(f, t)
        /\ Sum(g, s) = IF s = {} THEN 0 ELSE g[p] + Sum(g, t)
        /\ Sum(h, s) = IF s = {} THEN 0 ELSE h[p] + Sum(h, t)
    BY <1>3, SumUnfolds
  <1>5. CASE s = {}
    BY <1>2, <1>4, <1>5
  <1>6. CASE s # {}
    <2>1. p \in S /\ t \in SUBSET s /\ t # s /\ t \in SUBSET S
      BY <1>2, <1>6, FirstIn
    <2>2. Sum(f, t) = Sum(g, t) + Sum(h, t)
      BY <1>2, <2>1
    <2>3. IsFiniteSet(t)
      BY <1>3, <2>1, FS_Subset
    <2>4. Sum(g, t) \in Int /\ Sum(h, t) \in Int
      BY <2>1, <2>3, SumIsInt
    <2>5. g[p] \in Int /\ h[p] \in Int /\ f[p] = g[p] + h[p] /\ Sum(f, s) # Sum(g, s) + Sum(h, s)
      BY <1>2, <2>1
    <2> HIDE DEF p, t
    <2>6. QED
      BY <1>4, <1>6, <2>2, <2>4, <2>5
  <1>7. QED
    BY <1>5, <1>6

\* The sum over a set is that over a part of it and that over the rest.
LEMMA SumSplits ==
  ASSUME NEW S, IsFiniteSet(S), NEW f, \A x \in S : f[x] \in Int, NEW T \in SUBSET S
  PROVE  Sum(f, S) = Sum(f, T) + Sum(f, S \ T)
  <1> DEFINE Bad == {s \in SUBSET T : Sum(f, S) # Sum(f, s) + Sum(f, S \ s)}
  <1>1. SUFFICES ASSUME Bad # {} PROVE FALSE
    OBVIOUS
  <1>2. IsFiniteSet(T)
    BY FS_Subset
  <1>3. PICK s \in Bad : \A t \in SUBSET s : t # s => t \notin Bad
    <2>1. Bad \in SUBSET (SUBSET T)
      OBVIOUS
    <2> HIDE DEF Bad
    <2>2. QED
      BY <1>1, <1>2, <2>1, Smallest
  <1>4. IsFiniteSet(s) /\ s \in SUBSET S /\ IsFiniteSet({}) /\ Sum(f, S) \in Int
    BY <1>3, FS_Subset, FS_EmptySet, SumIsInt
  <1>5. ASSUME s = {} PROVE FALSE
    <2>1. Sum(f, s) = 0 /\ S \ s = S
      BY <1>4, <1>5, SumUnfolds
    <2>2. Sum(f, S) # Sum(f, s) + Sum(f, S \ s)
      BY <1>3
    <2>3. Sum(f, S \ s) = Sum(f, S)
      BY <2>1
    <2>4. QED
      BY <1>4, <2>1, <2>2, <2>3
  <1>6. PICK y : y \in s
    BY <1>5
  <1> DEFINE t == s \ {y}
  <1>7. Sum(f, S) = Sum(f, t) + Sum(f, S \ t)
    BY <1>3, <1>6
  <1>8. IsFiniteSet(t) /\ IsFiniteSet(S \ t) /\ IsFiniteSet(S \ s)
    BY <1>4, FS_Subset
  <1>9. Sum(f, s) = f[y] + Sum(f, t)
    BY <1>4, <1>6, SumTakes
  <1>10. Sum(f, S \ t) = f[y] + Sum(f, S \ s)
    <2>1. y \in S \ t /\ (S \ t) \ {y} = S \ s
      BY <1>4, <1>6
    <2>2. QED
      BY <1>8, <2>1, SumTakes
  <1>11. Sum(f, t) \in Int /\ Sum(f, S \ s) \in Int /\ f[y] \in Int
    BY <1>4, <1>6, <1>8, SumIsInt
  <1>12. Sum(f, S) # Sum(f, s) + Sum(f, S \ s)
    BY <1>3
  <1> HIDE DEF t
  <1>13. QED
    BY <1>4, <1>7, <1>9, <1>10, <1>11, <1>12

\* What bounds each element, times the number of elements, bounds the sum.
LEMMA SumBounded ==
  ASSUME NEW S, IsFiniteSet(S), NEW f, NEW g, NEW k \in Nat, NEW m \in Int, NEW n \in Int,
         \A x \in S : f[x] \in Int /\ g[x] \in Int /\ k * f[x] <= m * g[x] + n
  PROVE  k * Sum(f, S) <= m * Sum(g, S) + n * Cardinality(S)
  <1> DEFINE Bad == {s \in SUBSET S : ~(k * Sum(f, s) <= m * Sum(g, s) + n * Cardinality(s))}
  <1>1. SUFFICES ASSUME Bad # {} PROVE FALSE
    OBVIOUS
  <1>2. PICK s \in Bad : \A t \in SUBSET s : t # s => t \notin Bad
    <2>1. Bad \in SUBSET (SUBSET S)
      OBVIOUS
    <2> HIDE DEF Bad
    <2>2. QED
      BY <1>1, <2>1, Smallest
  <1> DEFINE p == First(s)
             t == s \ {p}
  <1>3. IsFiniteSet(s)
    BY <1>2, FS_Subset
  <1>4. /\ Sum(f, s) = IF s = {} THEN 0 ELSE f[p] + Sum(f, t)
        /\ Sum(g, s) = IF s = {} THEN 0 ELSE g[p] + Sum(g, t)
    BY <1>3, SumUnfolds
  <1>5. CASE s = {}
    <2>1. Cardinality(s) = 0
      BY <1>5, FS_EmptySet
    <2>2. k * 0 = 0 /\ m * 0 = 0 /\ n * 0 = 0
      OBVIOUS
    <2>3. QED
      BY <1>2, <1>4, <1>5, <2>1, <2>2
  <1>6. CASE s # {}
    <2>1. p \in S /\ p \in s /\ t \in SUBSET s /\ t # s /\ t \in SUBSET S
      BY <1>2, <1>6, FirstIn
    <2>2. k * Sum(f, t) <= m * Sum(g, t) + n * Cardinality(t)
      BY <1>2, <2>1
    <2>3. IsFiniteSet(t) /\ Cardinality(t) \in Nat
      BY <1>3, <2>1, FS_Subset, FS_CardinalityType
    <2>4. Cardinality(s) = Cardinality(t) + 1
      <3>1. p \notin t /\ s = t \cup {p}
        BY <2>1
      <3> HIDE DEF t
      <3>2. QED
        BY <2>3, <3>1, FS_AddElement
    <2>5. Sum(f, t) \in Int /\ Sum(g, t) \in Int
      BY <2>1, <2>3, SumIsInt
    <2>6. f[p] \in Int /\ g[p] \in Int /\ k * f[p] <= m * g[p] + n
      BY <2>1
    <2>7. /\ k * (f[p] + Sum(f, t)) = k * f[p] + k * Sum(f, t)
          /\ m * (g[p] + Sum(g, t)) = m * g[p] + m * Sum(g, t)
          /\ n * (Cardinality(t) + 1) = n * Cardinality(t) + n
      <3> HIDE DEF p, t
      <3>1. \A x, y, z \in Int : x * (y + z) = x * y + x * z
        OBVIOUS
      <3>2. QED
        BY <2>3, <2>5, <2>6, <3>1
    <2>8. /\ k * f[p] \in Int /\ k * Sum(f, t) \in Int /\ m * g[p] \in Int
          /\ m * Sum(g, t) \in Int /\ n * Cardinality(t) \in Int
      BY <2>3, <2>5, <2>6
    <2>9. ~(k * Sum(f, s) <= m * Sum(g, s) + n * Cardinality(s))
      BY <1>2
    <2>10. k * Sum(f, s) <= m * Sum(g, s) + n * Cardinality(s)
      <3>1. /\ k * Sum(f, s) = k * f[p] + k * Sum(f, t)
            /\ m * Sum(g, s) = m * g[p] + m * Sum(g, t)
            /\ n * Cardinality(s) = n * Cardinality(t) + n
        BY <1>4, <1>6, <2>4, <2>7
      <3> DEFINE a == k * f[p]
                 b == k * Sum(f, t)
                 c == m * g[p]
                 d == m * Sum(g, t)
                 e == n * Cardinality(t)
      <3>2. a \in Int /\ b \in Int /\ c \in Int /\ d \in Int /\ e \in Int /\ a <= c + n /\ b <= d + e
        BY <2>2, <2>6, <2>8
      <3> HIDE DEF a, b, c, d, e
      <3>3. a + b <= (c + d) + (e + n)
        BY <3>2
      <3>4. QED
        BY <3>1, <3>3 DEF a, b, c, d, e
    <2>11. QED
      BY <2>9, <2>10
  <1>7. QED
    BY <1>5, <1>6

\* No element of a sum of numbers is larger than the sum.
LEMMA SumIsLeast ==
  ASSUME NEW S, IsFiniteSet(S), NEW f, \A x \in S : f[x] \in Nat, NEW y \in S
  PROVE  f[y] <= Sum(f, S) /\ Sum(f, S) \in Nat
  <1>1. Sum(f, S) = f[y] + Sum(f, S \ {y})
    BY SumTakes
  <1>2. IsFiniteSet(S \ {y})
    BY FS_Subset
  <1>3. Sum(f, S \ {y}) \in Nat /\ f[y] \in Nat
    BY <1>2, SumIsNat
  <1>4. QED
    BY <1>1, <1>3

=============================================================================
