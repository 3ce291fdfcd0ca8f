--------------------------- MODULE CollectionTheorems ---------------------------
(***************************************************************************)
(* Facts about sums of integer-valued functions over finite sets, for the  *)
(* proofs about balances, and about selections from sequences, for those   *)
(* about lists.  A sum is SumFunctionOnSet of the community module         *)
(* Functions: a fold that removes one chosen element at a time.            *)
(*                                                                         *)
(* Induction is stated about subsets of Nat: a set of naturals that holds  *)
(* 0 and, with each number, the next one, is all of Nat.                   *)
(***************************************************************************)
EXTENDS Selections, FiniteSets, Functions, FiniteSetTheorems, SequenceTheorems,
        WellFoundedInduction, TLAPS

\* Every nonempty set of naturals has a least element.
LEMMA LeastNatural ==
  ASSUME NEW T \in SUBSET Nat, T # {}
  PROVE  \E x \in T : \A y \in T : x <= y
<1>1. IsWellFoundedOn(OpToRel(<, Nat), Nat)
  BY NatLessThanWellFounded
<1>2. PICK x \in T : \A y \in T : ~ (<<y, x>> \in OpToRel(<, Nat))
  BY <1>1, WFMin
<1>3. \A m, n \in Nat : (<<m, n>> \in OpToRel(<, Nat)) <=> m < n
  BY DEF OpToRel
<1>4. \A y \in T : ~ (y < x)
  BY <1>2, <1>3, Zenon
<1>5. \A y \in T : y \in Nat /\ x \in Nat
  OBVIOUS
<1>6. \A y \in T : x <= y
  BY <1>4, <1>5
<1> QED
  BY <1>6

\* Induction over the naturals, with a set in the place of a predicate.
LEMMA InductionOnNat ==
  ASSUME NEW S, 0 \in S, \A n \in Nat : n \in S => n + 1 \in S
  PROVE  \A n \in Nat : n \in S
<1> SUFFICES ASSUME Nat \ S # {} PROVE FALSE
  OBVIOUS
<1>1. PICK x \in Nat \ S : \A y \in Nat \ S : x <= y
  BY LeastNatural
<1>2. x - 1 \in Nat
  BY <1>1
<1>3. x - 1 \in S
  BY <1>1, <1>2
<1>4. (x - 1) + 1 = x
  BY <1>1
<1> QED
  BY <1>1, <1>2, <1>3, <1>4

\* The fold behind a sum: a function from the subsets of S that adds, for a
\* nonempty subset, one chosen element to the sum of the others.
FoldEquation(g, f, S) ==
  \A T \in SUBSET S :
     g[T] = IF T = {} THEN 0
                      ELSE LET x == CHOOSE x \in T : TRUE IN f[x] + g[T \ {x}]

IsFold(g, f, S) ==
  /\ g \in [SUBSET S -> Int]
  /\ FoldEquation(g, f, S)

\* Such a function exists: it is built for the subsets of at most n elements.
LEMMA FoldExists ==
  ASSUME NEW S, IsFiniteSet(S), NEW f, \A x \in S : f[x] \in Int
  PROVE  \E g : IsFold(g, f, S)
<1> DEFINE Small(n) == {T \in SUBSET S : Cardinality(T) <= n}
           Step(g, T) == IF T = {} THEN 0
                         ELSE LET x == CHOOSE x \in T : TRUE IN f[x] + g[T \ {x}]
           Good(n) == \E g \in [Small(n) -> Int] : \A T \in Small(n) : g[T] = Step(g, T)
           G == {n \in Nat : Good(n)}
<1>0. \A T \in SUBSET S : IsFiniteSet(T) /\ Cardinality(T) \in Nat
  BY FS_Subset, FS_CardinalityType
<1>1. \A T \in SUBSET S : Cardinality(T) = 0 <=> T = {}
  BY <1>0, FS_EmptySet
<1>2. ASSUME NEW T \in SUBSET S, T # {}
      PROVE  LET x == CHOOSE x \in T : TRUE
             IN  x \in T /\ T \ {x} \in SUBSET S /\ Cardinality(T \ {x}) = Cardinality(T) - 1
  <2>1. (CHOOSE x \in T : TRUE) \in T
    BY <1>2
  <2> QED
    BY <2>1, <1>0, FS_RemoveElement
<1>3. 0 \in G
  <2>1. Small(0) = {{}}
    BY <1>0, <1>1, FS_EmptySet
  <2>2. [T \in Small(0) |-> 0] \in [Small(0) -> Int]
    OBVIOUS
  <2>3. \A T \in Small(0) : [U \in Small(0) |-> 0][T] = Step([U \in Small(0) |-> 0], T)
    BY <2>1
  <2> HIDE DEF Small, Step
  <2> QED
    BY <2>2, <2>3
<1>4. ASSUME NEW n \in Nat, n \in G PROVE n + 1 \in G
  <2>1. PICK g \in [Small(n) -> Int] : \A T \in Small(n) : g[T] = Step(g, T)
    BY <1>4
  <2> DEFINE h == [T \in Small(n + 1) |-> Step(g, T)]
  <2>2. \A T \in Small(n + 1) : T # {} => T \ {CHOOSE x \in T : TRUE} \in Small(n)
    BY <1>0, <1>2
  <2>3. \A T \in Small(n + 1) : Step(g, T) \in Int
    <3> SUFFICES ASSUME NEW T \in Small(n + 1), T # {} PROVE Step(g, T) \in Int
      OBVIOUS
    <3>1. (CHOOSE x \in T : TRUE) \in S
      BY <1>2
    <3>2. g[T \ {CHOOSE x \in T : TRUE}] \in Int
      BY <2>2
    <3> QED
      BY <3>1, <3>2
  <2>4. h \in [Small(n + 1) -> Int]
    BY <2>3
  <2>5. \A T \in Small(n) : T \in Small(n + 1) /\ h[T] = g[T]
    BY <1>0, <2>1
  <2>6. ASSUME NEW T \in Small(n + 1) PROVE h[T] = Step(h, T)
    <3>1. h[T] = Step(g, T)
      OBVIOUS
    <3>2. T # {} => h[T \ {CHOOSE x \in T : TRUE}] = g[T \ {CHOOSE x \in T : TRUE}]
      BY <2>2, <2>5
    <3> HIDE DEF h
    <3> QED
      BY <3>1, <3>2
  <2> HIDE DEF Small, Step, h
  <2> QED
    BY <2>4, <2>6
<1>5. \A n \in Nat : n \in G
  <2> HIDE DEF G
  <2> QED
    BY <1>3, <1>4, InductionOnNat
<1>6. Cardinality(S) \in Nat
  BY FS_CardinalityType
<1>7. Small(Cardinality(S)) = SUBSET S
  BY FS_Subset
<1>8. PICK g \in [SUBSET S -> Int] : \A T \in SUBSET S : g[T] = Step(g, T)
  <2>1. Good(Cardinality(S))
    BY <1>5, <1>6
  <2> HIDE DEF Small, Step
  <2> QED
    BY <2>1, <1>7
<1> QED
  BY <1>8 DEF IsFold, FoldEquation

\* What the fold computes does not depend on the element it takes first: any
\* element of the set can be set apart.
LEMMA FoldSplits ==
  ASSUME NEW S, IsFiniteSet(S), NEW f, \A x \in S : f[x] \in Int,
         NEW g, IsFold(g, f, S)
  PROVE  \A T \in SUBSET S : \A y \in T : g[T] = f[y] + g[T \ {y}]
<1> DEFINE Splits(T) == \A y \in T : g[T] = f[y] + g[T \ {y}]
           G == {n \in Nat : \A T \in SUBSET S : Cardinality(T) = n => Splits(T)}
<1>0. \A T \in SUBSET S : IsFiniteSet(T) /\ Cardinality(T) \in Nat
  BY FS_Subset, FS_CardinalityType
<1>1. ASSUME NEW T \in SUBSET S, NEW x \in T
      PROVE  T \ {x} \in SUBSET S /\ Cardinality(T \ {x}) = Cardinality(T) - 1
  BY <1>0, <1>1, FS_RemoveElement
<1>2. 0 \in G
  <2>1. \A T \in SUBSET S : Cardinality(T) = 0 => T = {}
    BY <1>0, FS_EmptySet
  <2> QED
    BY <2>1
<1>3. ASSUME NEW n \in Nat, n \in G PROVE n + 1 \in G
  <2> SUFFICES ASSUME NEW T \in SUBSET S, Cardinality(T) = n + 1, NEW y \in T
               PROVE  g[T] = f[y] + g[T \ {y}]
    OBVIOUS
  <2> DEFINE x == CHOOSE x \in T : TRUE
  <2>1. x \in T
    OBVIOUS
  <2>2. g[T] = f[x] + g[T \ {x}]
    BY <2>1 DEF IsFold, FoldEquation
  <2> HIDE DEF x
  <2>3. CASE x = y
    BY <2>2, <2>3
  <2>4. CASE x # y
    <3>1. /\ y \in T \ {x} /\ x \in T \ {y}
          /\ T \ {x} \in SUBSET S /\ T \ {y} \in SUBSET S
      BY <2>1, <2>4
    <3>2. Cardinality(T \ {x}) = n /\ Cardinality(T \ {y}) = n
      BY <1>1, <2>1
    <3>3. g[T \ {x}] = f[y] + g[(T \ {x}) \ {y}]
      BY <1>3, <3>1, <3>2
    <3>4. g[T \ {y}] = f[x] + g[(T \ {y}) \ {x}]
      BY <1>3, <3>1, <3>2
    <3>5. g[(T \ {x}) \ {y}] = g[(T \ {y}) \ {x}]
      <4>1. (T \ {x}) \ {y} = (T \ {y}) \ {x}
        OBVIOUS
      <4> QED
        BY <4>1
    <3>6. f[x] \in Int /\ f[y] \in Int /\ g[(T \ {y}) \ {x}] \in Int
      BY <2>1, <3>1 DEF IsFold, FoldEquation
    <3> QED
      BY <2>2, <3>3, <3>4, <3>5, <3>6
  <2> QED
    BY <2>3, <2>4
<1>4. \A n \in Nat : n \in G
  <2> HIDE DEF G
  <2> QED
    BY <1>2, <1>3, InductionOnNat
<1> QED
  BY <1>0, <1>4

\* A fold over a set agrees with the fold over any larger set.
LEMMA FoldUnique ==
  ASSUME NEW S, IsFiniteSet(S), NEW f, NEW U \in SUBSET S,
         NEW g, FoldEquation(g, f, S), NEW h, FoldEquation(h, f, U)
  PROVE  \A T \in SUBSET U : g[T] = h[T]
<1> DEFINE G == {n \in Nat : \A T \in SUBSET U : Cardinality(T) = n => g[T] = h[T]}
<1>0. \A T \in SUBSET U : IsFiniteSet(T) /\ Cardinality(T) \in Nat
  BY FS_Subset, FS_CardinalityType
<1>1. 0 \in G
  BY <1>0, FS_EmptySet DEF IsFold, FoldEquation
<1>2. ASSUME NEW n \in Nat, n \in G PROVE n + 1 \in G
  <2> SUFFICES ASSUME NEW T \in SUBSET U, Cardinality(T) = n + 1 PROVE g[T] = h[T]
    OBVIOUS
  <2> DEFINE x == CHOOSE x \in T : TRUE
  <2>1. T # {}
    BY FS_EmptySet
  <2>2. g[T] = f[x] + g[T \ {x}] /\ h[T] = f[x] + h[T \ {x}]
    BY <2>1 DEF IsFold, FoldEquation
  <2>3. x \in T
    BY <2>1
  <2> HIDE DEF x
  <2>4. Cardinality(T \ {x}) = n /\ T \ {x} \in SUBSET U
    BY <1>0, <2>3, FS_RemoveElement
  <2> QED
    BY <1>2, <2>2, <2>4
<1>3. \A n \in Nat : n \in G
  <2> HIDE DEF G
  <2> QED
    BY <1>1, <1>2, InductionOnNat
<1> QED
  BY <1>0, <1>3

\* SumFunctionOnSet is the value of a fold.
LEMMA SumIsFold ==
  ASSUME NEW S, IsFiniteSet(S), NEW f, \A x \in S : f[x] \in Int
  PROVE  \E g : IsFold(g, f, S) /\ SumFunctionOnSet(f, S) = g[S]
<1> DEFINE Unfold(g) == [T \in SUBSET S |->
                           IF T = {} THEN 0
                           ELSE LET x == CHOOSE x \in T : TRUE IN f[x] + g[T \ {x}]]
           iter == CHOOSE g : g = Unfold(g)
<1>1. SumFunctionOnSet(f, S) = iter[S]
  BY DEF SumFunctionOnSet, FoldFunctionOnSet, MapThenFoldSet
<1>2. PICK h : IsFold(h, f, S)
  BY FoldExists
<1>3. h = Unfold(h)
  BY <1>2 DEF IsFold, FoldEquation
<1>4. iter = Unfold(iter)
  <2> HIDE DEF Unfold
  <2> QED
    BY <1>3
<1> HIDE DEF iter
<1>5. FoldEquation(iter, f, S)
  BY <1>4 DEF FoldEquation
<1>6. \A T \in SUBSET S : h[T] = iter[T]
  BY <1>2, <1>5, FoldUnique DEF IsFold
<1> QED
  BY <1>1, <1>2, <1>6

--------------------------------------------------------------------------------
(***************************************************************************)
(* The three equations of a finite sum.                                    *)
(***************************************************************************)

\* A sum is an integer, is zero over the empty set, and any one of its terms
\* can be set apart.
THEOREM SumProperties ==
  ASSUME NEW S, IsFiniteSet(S), NEW f, \A x \in S : f[x] \in Int
  PROVE  /\ SumFunctionOnSet(f, S) \in Int
         /\ S = {} => SumFunctionOnSet(f, S) = 0
         /\ \A x \in S : SumFunctionOnSet(f, S) = f[x] + SumFunctionOnSet(f, S \ {x})
<1>1. PICK g : IsFold(g, f, S) /\ SumFunctionOnSet(f, S) = g[S]
  BY SumIsFold
<1>2. SumFunctionOnSet(f, S) \in Int
  BY <1>1 DEF IsFold
<1>3. S = {} => SumFunctionOnSet(f, S) = 0
  BY <1>1 DEF IsFold, FoldEquation
<1>4. ASSUME NEW x \in S
      PROVE  SumFunctionOnSet(f, S) = f[x] + SumFunctionOnSet(f, S \ {x})
  <2>1. IsFiniteSet(S \ {x})
    BY FS_Subset
  <2>2. PICK h : IsFold(h, f, S \ {x}) /\ SumFunctionOnSet(f, S \ {x}) = h[S \ {x}]
    BY <2>1, SumIsFold
  <2>3. g[S \ {x}] = h[S \ {x}]
    <3>1. FoldEquation(g, f, S) /\ FoldEquation(h, f, S \ {x}) /\ S \ {x} \in SUBSET S
      BY <1>1, <2>2 DEF IsFold
    <3>2. \A T \in SUBSET (S \ {x}) : g[T] = h[T]
      BY <3>1, FoldUnique
    <3> QED
      BY <3>2
  <2>4. g[S] = f[x] + g[S \ {x}]
    BY <1>1, FoldSplits
  <2> QED
    BY <1>1, <2>2, <2>3, <2>4
<1> QED
  BY <1>2, <1>3, <1>4

--------------------------------------------------------------------------------
(***************************************************************************)
(* Consequences: the shapes in which sums meet the ledgers.                *)
(***************************************************************************)

\* Induction on a finite set, built up one element at a time.
LEMMA InductionOnSet ==
  ASSUME NEW S, IsFiniteSet(S), NEW G,
         {} \in G,
         \A T \in SUBSET S : T \in G => \A x \in S \ T : T \cup {x} \in G
  PROVE  S \in G
<1> DEFINE N == {n \in Nat : \A T \in SUBSET S : Cardinality(T) = n => T \in G}
<1>0. \A T \in SUBSET S : IsFiniteSet(T) /\ Cardinality(T) \in Nat
  BY FS_Subset, FS_CardinalityType
<1>1. 0 \in N
  BY <1>0, FS_EmptySet
<1>2. ASSUME NEW n \in Nat, n \in N PROVE n + 1 \in N
  <2> SUFFICES ASSUME NEW T \in SUBSET S, Cardinality(T) = n + 1 PROVE T \in G
    OBVIOUS
  <2>0. Cardinality({}) = 0 /\ IsFiniteSet(T)
    BY <1>0, FS_EmptySet
  <2>1. PICK x \in T : TRUE
    <3> SUFFICES ASSUME T = {} PROVE FALSE
      OBVIOUS
    <3>1. Cardinality({}) = n + 1
      OBVIOUS
    <3> QED
      BY <2>0, <3>1
  <2>2. Cardinality(T \ {x}) = n
    <3>1. Cardinality(T \ {x}) = Cardinality(T) - 1
      BY <2>0, <2>1, FS_RemoveElement
    <3> QED
      BY <3>1
  <2>3. T \ {x} \in SUBSET S /\ x \in S \ (T \ {x}) /\ T = (T \ {x}) \cup {x}
    BY <2>1
  <2> QED
    BY <1>2, <2>2, <2>3
<1>3. \A n \in Nat : n \in N
  <2> HIDE DEF N
  <2> QED
    BY <1>1, <1>2, InductionOnNat
<1> QED
  BY <1>0, <1>3

\* A sum over a set with one more element.
LEMMA SumInsert ==
  ASSUME NEW S, IsFiniteSet(S), NEW x, x \notin S,
         NEW f, \A y \in S \cup {x} : f[y] \in Int
  PROVE  SumFunctionOnSet(f, S \cup {x}) = f[x] + SumFunctionOnSet(f, S)
<1>1. IsFiniteSet(S \cup {x}) /\ (S \cup {x}) \ {x} = S
  BY FS_AddElement
<1>2. \A y \in S \cup {x} :
        SumFunctionOnSet(f, S \cup {x}) = f[y] + SumFunctionOnSet(f, (S \cup {x}) \ {y})
  BY <1>1, SumProperties
<1> QED
  BY <1>1, <1>2

\* The sum of a termwise sum is the sum of the sums.
LEMMA SumAdds ==
  ASSUME NEW S, IsFiniteSet(S), NEW f, NEW p, NEW q,
         \A x \in S : p[x] \in Int /\ q[x] \in Int /\ f[x] = p[x] + q[x]
  PROVE  SumFunctionOnSet(f, S) = SumFunctionOnSet(p, S) + SumFunctionOnSet(q, S)
<1> DEFINE Adds(T) == SumFunctionOnSet(f, T) = SumFunctionOnSet(p, T) + SumFunctionOnSet(q, T)
           G == {T \in SUBSET S : Adds(T)}
<1>0. \A T \in SUBSET S : /\ IsFiniteSet(T)
                          /\ SumFunctionOnSet(f, T) \in Int
                          /\ SumFunctionOnSet(p, T) \in Int
                          /\ SumFunctionOnSet(q, T) \in Int
  <2> TAKE T \in SUBSET S
  <2>1. IsFiniteSet(T) /\ \A x \in T : f[x] \in Int /\ p[x] \in Int /\ q[x] \in Int
    BY FS_Subset
  <2> QED
    BY <2>1, SumProperties
<1>1. {} \in G
  <2>1. IsFiniteSet({})
    BY FS_EmptySet
  <2>2. /\ SumFunctionOnSet(f, {}) = 0
        /\ SumFunctionOnSet(p, {}) = 0
        /\ SumFunctionOnSet(q, {}) = 0
    BY <2>1, SumProperties
  <2> QED
    BY <2>2
<1>2. ASSUME NEW T \in SUBSET S, T \in G, NEW x \in S \ T PROVE T \cup {x} \in G
  <2>1. IsFiniteSet(T) /\ \A y \in T \cup {x} : f[y] \in Int /\ p[y] \in Int /\ q[y] \in Int
    BY <1>0
  <2>2. /\ SumFunctionOnSet(f, T \cup {x}) = f[x] + SumFunctionOnSet(f, T)
        /\ SumFunctionOnSet(p, T \cup {x}) = p[x] + SumFunctionOnSet(p, T)
        /\ SumFunctionOnSet(q, T \cup {x}) = q[x] + SumFunctionOnSet(q, T)
    BY <2>1, SumInsert
  <2>3. Adds(T)
    BY <1>2
  <2>4. f[x] = p[x] + q[x] /\ f[x] \in Int /\ p[x] \in Int /\ q[x] \in Int
    OBVIOUS
  <2>5. Adds(T \cup {x})
    BY <1>0, <2>2, <2>3, <2>4
  <2> QED
    BY <2>5
<1>3. S \in G
  <2> HIDE DEF G
  <2> QED
    BY <1>1, <1>2, InductionOnSet
<1> QED
  BY <1>3

\* A function that is zero but at one place sums to its value there.
LEMMA SumOfPoint ==
  ASSUME NEW S, IsFiniteSet(S), NEW f, NEW a, NEW v \in Int,
         \A x \in S : f[x] = IF x = a THEN v ELSE 0
  PROVE  SumFunctionOnSet(f, S) = IF a \in S THEN v ELSE 0
<1> DEFINE Point(T) == SumFunctionOnSet(f, T) = IF a \in T THEN v ELSE 0
           G == {T \in SUBSET S : Point(T)}
<1>1. {} \in G
  <2>1. IsFiniteSet({})
    BY FS_EmptySet
  <2>2. SumFunctionOnSet(f, {}) = 0
    BY <2>1, SumProperties
  <2> QED
    BY <2>2
<1>2. ASSUME NEW T \in SUBSET S, T \in G, NEW x \in S \ T PROVE T \cup {x} \in G
  <2>1. IsFiniteSet(T) /\ \A y \in T \cup {x} : f[y] \in Int
    BY FS_Subset
  <2>2. SumFunctionOnSet(f, T \cup {x}) = f[x] + SumFunctionOnSet(f, T)
    BY <2>1, SumInsert
  <2>3. SumFunctionOnSet(f, T) = IF a \in T THEN v ELSE 0
    BY <1>2
  <2>4. f[x] = IF x = a THEN v ELSE 0
    OBVIOUS
  <2>5. Point(T \cup {x})
    BY <2>2, <2>3, <2>4
  <2> QED
    BY <2>5
<1>3. S \in G
  <2> HIDE DEF G
  <2> QED
    BY <1>1, <1>2, InductionOnSet
<1> QED
  BY <1>3

\* Raising one term raises the sum by as much.
LEMMA SumUpdate ==
  ASSUME NEW S, IsFiniteSet(S), NEW f \in [S -> Int], NEW a \in S, NEW v \in Int
  PROVE  SumFunction([f EXCEPT ![a] = v]) = SumFunction(f) + v - f[a]
<1> DEFINE h == [f EXCEPT ![a] = v]
           d == [x \in S |-> IF x = a THEN v - f[a] ELSE 0]
<1>1. \A x \in S : f[x] \in Int /\ d[x] \in Int /\ h[x] = f[x] + d[x]
  OBVIOUS
<1>2. DOMAIN f = S /\ DOMAIN h = S
  OBVIOUS
<1>3. SumFunctionOnSet(d, S) = v - f[a]
  <2>1. v - f[a] \in Int /\ \A x \in S : d[x] = IF x = a THEN v - f[a] ELSE 0
    OBVIOUS
  <2> HIDE DEF d
  <2> QED
    BY <2>1, SumOfPoint
<1>4. SumFunctionOnSet(f, S) \in Int
  BY SumProperties
<1> HIDE DEF h, d
<1>5. SumFunctionOnSet(h, S) = SumFunctionOnSet(f, S) + SumFunctionOnSet(d, S)
  BY <1>1, SumAdds
<1>6. SumFunction(h) = SumFunctionOnSet(f, S) + v - f[a]
  BY <1>2, <1>3, <1>4, <1>5 DEF SumFunction
<1> QED
  BY <1>2, <1>6 DEF SumFunction, h


\* A sum of nonnegative terms is nonnegative, and no term exceeds it.
LEMMA SumBoundsTerms ==
  ASSUME NEW S, IsFiniteSet(S), NEW f, \A x \in S : f[x] \in Nat
  PROVE  /\ SumFunctionOnSet(f, S) \in Nat
         /\ \A x \in S : f[x] <= SumFunctionOnSet(f, S)
<1> DEFINE G == {T \in SUBSET S : SumFunctionOnSet(f, T) \in Nat}
<1>1. {} \in G
  <2>1. IsFiniteSet({})
    BY FS_EmptySet
  <2>2. SumFunctionOnSet(f, {}) = 0
    BY <2>1, SumProperties
  <2> QED
    BY <2>2
<1>2. ASSUME NEW T \in SUBSET S, T \in G, NEW x \in S \ T PROVE T \cup {x} \in G
  <2>1. IsFiniteSet(T) /\ \A y \in T \cup {x} : f[y] \in Int
    BY FS_Subset
  <2>2. SumFunctionOnSet(f, T \cup {x}) = f[x] + SumFunctionOnSet(f, T)
    BY <2>1, SumInsert
  <2>3. f[x] \in Nat /\ SumFunctionOnSet(f, T) \in Nat
    BY <1>2
  <2> QED
    BY <2>2, <2>3
<1>3. \A T \in SUBSET S : SumFunctionOnSet(f, T) \in Nat
  <2> SUFFICES ASSUME NEW T \in SUBSET S PROVE T \in G
    OBVIOUS
  <2>1. IsFiniteSet(T)
    BY FS_Subset
  <2>2. \A U \in SUBSET T : U \in G => \A x \in T \ U : U \cup {x} \in G
    BY <1>2
  <2> HIDE DEF G
  <2> QED
    BY <1>1, <2>1, <2>2, InductionOnSet
<1>4. ASSUME NEW x \in S PROVE f[x] <= SumFunctionOnSet(f, S)
  <2>1. SumFunctionOnSet(f, S) = f[x] + SumFunctionOnSet(f, S \ {x})
    BY SumProperties
  <2>2. SumFunctionOnSet(f, S \ {x}) \in Nat
    BY <1>3
  <2> QED
    BY <2>1, <2>2
<1> QED
  BY <1>3, <1>4

\* Sums of functions that agree are equal.
LEMMA SumAgrees ==
  ASSUME NEW S, IsFiniteSet(S), NEW f, NEW h, \A x \in S : f[x] \in Int /\ h[x] = f[x]
  PROVE  SumFunctionOnSet(h, S) = SumFunctionOnSet(f, S)
<1> DEFINE z == [x \in S |-> 0]
<1>1. \A x \in S : z[x] = 0
  OBVIOUS
<1>2. SumFunctionOnSet(z, S) = 0
  <2>1. \A x \in S : z[x] = IF x = 0 THEN 0 ELSE 0
    BY <1>1
  <2> HIDE DEF z
  <2> QED
    BY <2>1, SumOfPoint
<1> HIDE DEF z
<1>3. SumFunctionOnSet(h, S) = SumFunctionOnSet(f, S) + SumFunctionOnSet(z, S)
  BY <1>1, SumAdds
<1>4. SumFunctionOnSet(f, S) \in Int
  BY SumProperties
<1> QED
  BY <1>2, <1>3, <1>4

\* Dealing the terms of a sum out to recipients neither creates nor loses
\* anything: adding up what each recipient gets gives the sum.
THEOREM SumDealt ==
  ASSUME NEW A, IsFiniteSet(A), NEW I, IsFiniteSet(I),
         NEW to \in [I -> A], NEW n \in [I -> Int]
  PROVE  SumFunctionOnSet(
            [a \in A |-> SumFunctionOnSet([i \in I |-> IF to[i] = a THEN n[i] ELSE 0], I)], A)
         = SumFunctionOnSet(n, I)
<1> DEFINE Got(a) == [i \in I |-> IF to[i] = a THEN n[i] ELSE 0]
           Dealt(J) == [a \in A |-> SumFunctionOnSet(Got(a), J)]
           G == {J \in SUBSET I : SumFunctionOnSet(Dealt(J), A) = SumFunctionOnSet(n, J)}
<1>0. \A J \in SUBSET I : /\ IsFiniteSet(J)
                          /\ \A a \in A : SumFunctionOnSet(Got(a), J) \in Int
                          /\ SumFunctionOnSet(n, J) \in Int
  <2> TAKE J \in SUBSET I
  <2>1. IsFiniteSet(J)
    BY FS_Subset
  <2>2. SumFunctionOnSet(n, J) \in Int
    BY <2>1, SumProperties
  <2>3. ASSUME NEW a \in A PROVE SumFunctionOnSet(Got(a), J) \in Int
    <3>1. \A i \in J : Got(a)[i] \in Int
      OBVIOUS
    <3> HIDE DEF Got
    <3> QED
      BY <2>1, <3>1, SumProperties
  <2> QED
    BY <2>1, <2>2, <2>3
<1>1. {} \in G
  <2>1. IsFiniteSet({})
    BY FS_EmptySet
  <2>2. SumFunctionOnSet(n, {}) = 0 /\ \A a \in A : SumFunctionOnSet(Got(a), {}) = 0
    BY <2>1, SumProperties
  <2>3. \A x \in A : Dealt({})[x] = IF x = 0 THEN 0 ELSE 0
    BY <2>2
  <2>4. SumFunctionOnSet(Dealt({}), A) = 0
    <3> HIDE DEF Dealt
    <3> QED
      BY <2>3, SumOfPoint, SMTT(20)
  <2> QED
    BY <2>2, <2>4
<1>2. ASSUME NEW J \in SUBSET I, J \in G, NEW i \in I \ J PROVE J \cup {i} \in G
  <2> DEFINE point == [a \in A |-> IF a = to[i] THEN n[i] ELSE 0]
  <2>1. \A a \in A : Dealt(J \cup {i})[a] = Dealt(J)[a] + point[a]
    <3> TAKE a \in A
    <3>1. /\ IsFiniteSet(J) /\ \A j \in J \cup {i} : Got(a)[j] \in Int
          /\ Got(a)[i] = point[a]
      BY <1>0
    <3>2. SumFunctionOnSet(Got(a), J \cup {i}) = Got(a)[i] + SumFunctionOnSet(Got(a), J)
      <4> HIDE DEF Got
      <4> QED
        BY <3>1, SumInsert
    <3>3. point[a] \in Int /\ SumFunctionOnSet(Got(a), J) \in Int
      BY <1>0
    <3> QED
      BY <3>1, <3>2, <3>3
  <2>2. \A a \in A : Dealt(J)[a] \in Int /\ point[a] \in Int
    BY <1>0
  <2>3. SumFunctionOnSet(point, A) = n[i]
    <3>1. n[i] \in Int /\ to[i] \in A /\ \A a \in A : point[a] = IF a = to[i] THEN n[i] ELSE 0
      OBVIOUS
    <3> HIDE DEF point
    <3> QED
      BY <3>1, SumOfPoint
  <2>4. SumFunctionOnSet(n, J \cup {i}) = n[i] + SumFunctionOnSet(n, J)
    <3>1. IsFiniteSet(J) /\ \A j \in J \cup {i} : n[j] \in Int
      BY <1>0
    <3> QED
      BY <3>1, SumInsert
  <2>5. SumFunctionOnSet(Dealt(J), A) = SumFunctionOnSet(n, J)
    BY <1>2
  <2>6. SumFunctionOnSet(Dealt(J \cup {i}), A) = SumFunctionOnSet(Dealt(J), A) + n[i]
    <3>1. \A a \in A : /\ Dealt(J)[a] \in Int
                       /\ point[a] \in Int
                       /\ Dealt(J \cup {i})[a] = Dealt(J)[a] + point[a]
      BY <2>1, <2>2
    <3> DEFINE old == Dealt(J)
               new == Dealt(J \cup {i})
    <3>2. \A a \in A : old[a] \in Int /\ point[a] \in Int /\ new[a] = old[a] + point[a]
      BY <3>1
    <3> HIDE DEF old, new, point
    <3>3. SumFunctionOnSet(new, A) = SumFunctionOnSet(old, A) + SumFunctionOnSet(point, A)
      BY <3>2, SumAdds
    <3> QED
      BY <2>3, <3>3 DEF old, new
  <2>7. n[i] \in Int /\ SumFunctionOnSet(n, J) \in Int
    BY <1>0
  <2>8. SumFunctionOnSet(Dealt(J \cup {i}), A) = SumFunctionOnSet(n, J \cup {i})
    BY <2>4, <2>5, <2>6, <2>7
  <2> QED
    BY <2>8
<1>3. I \in G
  <2> HIDE DEF G
  <2> QED
    BY <1>1, <1>2, InductionOnSet
<1> QED
  BY <1>3

--------------------------------------------------------------------------------
(***************************************************************************)
(* Selections.                                                             *)
(***************************************************************************)

\* The recursive function behind a selection satisfies its equations.
LEMMA ChosenFollows ==
  ASSUME NEW s, NEW S, Len(s) \in Nat
  PROVE  /\ ChosenUpTo(s, S)[0] = <<>>
         /\ \A i \in 1 .. Len(s) :
              ChosenUpTo(s, S)[i] = IF s[i] \in S THEN Append(ChosenUpTo(s, S)[i - 1], s[i])
                                                  ELSE ChosenUpTo(s, S)[i - 1]
<1> DEFINE L == Len(s)
           With(prev, i) == IF s[i] \in S THEN Append(prev, s[i]) ELSE prev
           Unfold(g) == [n \in 0 .. L |->
                           IF n = 0 THEN <<>>
                           ELSE IF s[n] \in S THEN Append(g[n - 1], s[n]) ELSE g[n - 1]]
           Good(g, n) == g[0] = <<>> /\ \A i \in 1 .. n : g[i] = With(g[i - 1], i)
           N == {n \in Nat : \E g : Good(g, n)}
           a == CHOOSE g : g = Unfold(g)
<1>1. ChosenUpTo(s, S) = a
  BY DEF ChosenUpTo
<1>2. 0 \in N
  <2> DEFINE g == [i \in {0} |-> <<>>]
  <2>1. g[0] = <<>>
    OBVIOUS
  <2>2. Good(g, 0)
    BY <2>1
  <2> QED
    BY <2>2
<1>3. ASSUME NEW n \in Nat, n \in N PROVE n + 1 \in N
  <2> HIDE DEF With
  <2>1. PICK g : Good(g, n)
    BY <1>3
  <2> DEFINE h == [i \in 0 .. n + 1 |-> IF i = n + 1 THEN With(g[n], n + 1) ELSE g[i]]
  <2>2. \A i \in 0 .. n : h[i] = g[i]
    OBVIOUS
  <2>3. h[n + 1] = With(g[n], n + 1)
    OBVIOUS
  <2> HIDE DEF h
  <2>4. h[0] = <<>>
    BY <2>1, <2>2
  <2>5. \A i \in 1 .. n + 1 : h[i] = With(h[i - 1], i)
    <3> TAKE i \in 1 .. n + 1
    <3>1. CASE i = n + 1
      <4>1. (n + 1) - 1 = n /\ h[n] = g[n]
        BY <2>2
      <4> QED
        BY <2>3, <3>1, <4>1
    <3>2. CASE i # n + 1
      <4>1. i \in 1 .. n /\ i \in 0 .. n /\ i - 1 \in 0 .. n
        BY <3>2
      <4>2. h[i] = g[i] /\ h[i - 1] = g[i - 1]
        BY <2>2, <4>1
      <4>3. g[i] = With(g[i - 1], i)
        BY <2>1, <4>1
      <4> QED
        BY <4>2, <4>3
    <3> QED
      BY <3>1, <3>2
  <2>6. Good(h, n + 1)
    BY <2>4, <2>5
  <2> QED
    BY <2>6
<1>4. L \in N
  <2> HIDE DEF N, L
  <2>1. L \in Nat
    BY DEF L
  <2> QED
    BY <1>2, <1>3, <2>1, InductionOnNat
<1>5. PICK g : Good(g, L)
  BY <1>4
<1> DEFINE h == [i \in 0 .. L |-> g[i]]
<1>6. L \in Nat
  OBVIOUS
<1>7. \A i \in 0 .. L : h[i] = IF i = 0 THEN <<>> ELSE With(h[i - 1], i)
  <2> TAKE i \in 0 .. L
  <2> HIDE DEF L, With
  <2>1. CASE i = 0
    BY <1>5, <1>6, <2>1
  <2>2. CASE i # 0
    <3>1. i \in 1 .. L /\ i - 1 \in 0 .. L
      BY <1>6, <2>2
    <3>2. h[i] = g[i] /\ h[i - 1] = g[i - 1]
      BY <3>1
    <3> QED
      BY <1>5, <2>2, <3>1, <3>2
  <2> QED
    BY <2>1, <2>2
<1>8. h = Unfold(h)
  BY <1>7
<1>9. a = Unfold(a)
  BY <1>8, Zenon
<1>10. \A i \in 0 .. L : a[i] = IF i = 0 THEN <<>> ELSE With(a[i - 1], i)
  <2> DEFINE u == Unfold(a)
  <2>1. \A i \in 0 .. L : u[i] = IF i = 0 THEN <<>> ELSE With(a[i - 1], i)
    OBVIOUS
  <2>2. a = u
    BY <1>9
  <2> HIDE DEF u, a
  <2> QED
    BY <2>1, <2>2
<1>11. a[0] = <<>> /\ \A i \in 1 .. L : a[i] = With(a[i - 1], i)
  <2> HIDE DEF a, L, With
  <2>1. 0 \in 0 .. L /\ \A i \in 1 .. L : i \in 0 .. L /\ i # 0
    BY <1>6
  <2> QED
    BY <1>10, <2>1
<1> QED
  BY <1>1, <1>11

LEMMA AppendedRange ==
  ASSUME NEW T, NEW s \in Seq(T), NEW e \in T
  PROVE  Range(Append(s, e)) = Range(s) \cup {e}
<1> DEFINE t == Append(s, e)
           n == Len(s)
<1>1. n \in Nat /\ DOMAIN s = 1 .. n
  BY LenProperties
<1>2. /\ t \in Seq(T) /\ Len(t) = n + 1
      /\ \A i \in 1 .. n : t[i] = s[i]
      /\ t[n + 1] = e
  BY AppendProperties
<1>3. DOMAIN t = 1 .. n + 1
  BY <1>2, LenProperties
<1> HIDE DEF t, n
<1>4. \A i \in 1 .. n + 1 : i \in 1 .. n \/ i = n + 1
  BY <1>1
<1>5. \A i \in 1 .. n : i \in 1 .. n + 1
  BY <1>1
<1>6. n + 1 \in 1 .. n + 1
  BY <1>1
<1>7. Range(t) \subseteq Range(s) \cup {e}
  BY <1>1, <1>2, <1>3, <1>4 DEF Range
<1>8. Range(s) \subseteq Range(t)
  BY <1>1, <1>2, <1>3, <1>5 DEF Range
<1>9. e \in Range(t)
  BY <1>2, <1>3, <1>6 DEF Range
<1> QED
  BY <1>7, <1>8, <1>9 DEF t

LEMMA AppendedInjective ==
  ASSUME NEW T, NEW s \in Seq(T), NEW e \in T, IsInjective(s), e \notin Range(s)
  PROVE  IsInjective(Append(s, e))
<1> DEFINE t == Append(s, e)
           n == Len(s)
<1>1. n \in Nat /\ DOMAIN s = 1 .. n
  BY LenProperties
<1>2. /\ t \in Seq(T) /\ Len(t) = n + 1
      /\ \A i \in 1 .. n : t[i] = s[i]
      /\ t[n + 1] = e
  BY AppendProperties
<1>3. DOMAIN t = 1 .. n + 1
  BY <1>2, LenProperties
<1>4. \A i \in 1 .. n : s[i] # e
  BY <1>1 DEF Range
<1> HIDE DEF t, n
<1>5. \A i \in 1 .. n + 1 : i \in 1 .. n \/ i = n + 1
  BY <1>1
<1>6. ASSUME NEW i \in 1 .. n + 1, NEW j \in 1 .. n + 1, t[i] = t[j] PROVE i = j
  <2>1. CASE i \in 1 .. n /\ j \in 1 .. n
    BY <1>1, <1>2, <1>6, <2>1 DEF IsInjective
  <2>2. CASE i = n + 1 /\ j \in 1 .. n
    BY <1>2, <1>4, <1>6, <2>2
  <2>3. CASE i \in 1 .. n /\ j = n + 1
    BY <1>2, <1>4, <1>6, <2>3
  <2> QED
    BY <1>5, <2>1, <2>2, <2>3
<1>7. IsInjective(t)
  BY <1>3, <1>6 DEF IsInjective
<1> QED
  BY <1>7 DEF t

\* What is selected from a prefix: its elements that belong, each as often as it
\* occurs there.
LEMMA ChosenFromPrefix ==
  ASSUME NEW T, NEW s \in Seq(T), NEW S
  PROVE  \A n \in 0 .. Len(s) :
           /\ ChosenUpTo(s, S)[n] \in Seq(T \cap S)
           /\ Len(ChosenUpTo(s, S)[n]) <= n
           /\ Range(ChosenUpTo(s, S)[n]) = {s[i] : i \in 1 .. n} \cap S
           /\ IsInjective(s) => IsInjective(ChosenUpTo(s, S)[n])
<1> DEFINE L == Len(s)
           c == ChosenUpTo(s, S)
           Good(n) == /\ c[n] \in Seq(T \cap S)
                      /\ Len(c[n]) <= n
                      /\ Range(c[n]) = {s[i] : i \in 1 .. n} \cap S
                      /\ IsInjective(s) => IsInjective(c[n])
           N == {n \in Nat : n <= L => Good(n)}
<1>1. L \in Nat /\ DOMAIN s = 1 .. L
  BY LenProperties
<1>2. c[0] = <<>> /\ \A i \in 1 .. L : c[i] = IF s[i] \in S THEN Append(c[i - 1], s[i]) ELSE c[i - 1]
  BY <1>1, ChosenFollows
<1>3. \A i \in 1 .. L : s[i] \in T
  BY ElementOfSeq
<1> HIDE DEF c
<1>4. 0 \in N
  <2>1. c[0] \in Seq(T \cap S) /\ Len(c[0]) <= 0
    BY <1>2, EmptySeq
  <2>2. Range(<<>>) = {} /\ IsInjective(<<>>)
    BY DEF Range, IsInjective
  <2>3. {s[i] : i \in 1 .. 0} = {}
    OBVIOUS
  <2>4. Good(0)
    BY <1>2, <2>1, <2>2, <2>3
  <2> QED
    BY <2>4
<1>5. ASSUME NEW n \in Nat, n \in N PROVE n + 1 \in N
  <2> SUFFICES ASSUME n + 1 <= L PROVE Good(n + 1)
    OBVIOUS
  <2>1. n + 1 \in 1 .. L /\ (n + 1) - 1 = n /\ n <= L
    BY <1>1
  <2>2. Good(n)
    BY <1>5, <2>1
  <2> DEFINE e == s[n + 1]
  <2>3. e \in T
    BY <1>3, <2>1
  <2>4. c[n + 1] = IF e \in S THEN Append(c[n], e) ELSE c[n]
    BY <1>2, <2>1
  <2>5. {s[i] : i \in 1 .. n + 1} = {s[i] : i \in 1 .. n} \cup {e}
    <3>1. \A i : i \in 1 .. n + 1 <=> (i \in 1 .. n \/ i = n + 1)
      OBVIOUS
    <3> QED
      BY <3>1
  <2>6. Len(c[n]) \in Nat
    BY <2>2, LenProperties
  <2>7. CASE e \notin S
    <3>1. c[n + 1] = c[n]
      BY <2>4, <2>7
    <3>2. Len(c[n + 1]) <= n + 1
      BY <2>2, <2>6, <3>1
    <3>3. {s[i] : i \in 1 .. n + 1} \cap S = {s[i] : i \in 1 .. n} \cap S
      BY <2>5, <2>7
    <3> QED
      BY <2>2, <3>1, <3>2, <3>3
  <2>8. CASE e \in S
    <3>1. c[n + 1] = Append(c[n], e) /\ e \in T \cap S
      BY <2>3, <2>4, <2>8
    <3>2. c[n + 1] \in Seq(T \cap S) /\ Len(c[n + 1]) = Len(c[n]) + 1
      BY <2>2, <3>1, AppendProperties
    <3>3. Range(c[n + 1]) = Range(c[n]) \cup {e}
      BY <2>2, <3>1, AppendedRange, SMTT(20)
    <3>4. Range(c[n + 1]) = {s[i] : i \in 1 .. n + 1} \cap S
      BY <2>2, <2>5, <2>8, <3>3
    <3>5. ASSUME IsInjective(s) PROVE IsInjective(c[n + 1])
      <4>1. e \notin {s[i] : i \in 1 .. n}
        <5>1. \A i \in 1 .. n : i \in 1 .. L /\ i # n + 1
          BY <1>1, <2>1
        <5> QED
          BY <1>1, <2>1, <3>5, <5>1 DEF IsInjective
      <4>2. e \notin Range(c[n])
        BY <2>2, <4>1
      <4> QED
        BY <2>2, <3>1, <3>5, <4>2, AppendedInjective
    <3>6. Len(c[n + 1]) <= n + 1
      BY <2>2, <2>6, <3>2
    <3> QED
      BY <3>2, <3>4, <3>5, <3>6
  <2> QED
    BY <2>7, <2>8
<1>6. \A n \in Nat : n \in N
  <2> HIDE DEF N
  <2> QED
    BY <1>4, <1>5, InductionOnNat
<1>7. \A n \in 0 .. L : Good(n)
  <2> HIDE DEF Good
  <2> QED
    BY <1>1, <1>6
<1> QED
  BY <1>7 DEF c

\* What is selected from a sequence.
LEMMA ChosenProperties ==
  ASSUME NEW T, NEW s \in Seq(T), NEW S
  PROVE  /\ Chosen(s, S) \in Seq(T \cap S)
         /\ Chosen(s, S) \in Seq(T)
         /\ Len(Chosen(s, S)) <= Len(s)
         /\ Range(Chosen(s, S)) = Range(s) \cap S
         /\ IsInjective(s) => IsInjective(Chosen(s, S))
<1>1. Len(s) \in Nat /\ DOMAIN s = 1 .. Len(s)
  BY LenProperties
<1>2. Len(s) \in 0 .. Len(s)
  BY <1>1
<1> DEFINE c == ChosenUpTo(s, S)[Len(s)]
<1>3. /\ c \in Seq(T \cap S)
      /\ Len(c) <= Len(s)
      /\ Range(c) = {s[i] : i \in 1 .. Len(s)} \cap S
      /\ IsInjective(s) => IsInjective(c)
  BY <1>2, ChosenFromPrefix
<1>4. Range(s) = {s[i] : i \in 1 .. Len(s)}
  BY <1>1 DEF Range
<1> HIDE DEF c
<1>5. c \in Seq(T)
  BY <1>3, SeqMonotonic
<1>6. Chosen(s, S) = c
  BY DEF Chosen, c
<1> QED
  BY <1>3, <1>4, <1>5, <1>6

\* Two selections agree when the same elements belong.
LEMMA ChosenUpToAgrees ==
  ASSUME NEW T, NEW s \in Seq(T), NEW t \in Seq(T), NEW S, NEW R,
         NEW m \in Nat, m <= Len(s), m <= Len(t),
         \A i \in 1 .. m : s[i] = t[i] /\ (s[i] \in S <=> t[i] \in R)
  PROVE  ChosenUpTo(s, S)[m] = ChosenUpTo(t, R)[m]
<1> DEFINE c == ChosenUpTo(s, S)
           d == ChosenUpTo(t, R)
           N == {n \in Nat : n <= m => c[n] = d[n]}
<1>1. Len(s) \in Nat /\ Len(t) \in Nat
  BY LenProperties
<1>2. c[0] = <<>> /\ \A i \in 1 .. Len(s) : c[i] = IF s[i] \in S THEN Append(c[i - 1], s[i]) ELSE c[i - 1]
  BY <1>1, ChosenFollows
<1>3. d[0] = <<>> /\ \A i \in 1 .. Len(t) : d[i] = IF t[i] \in R THEN Append(d[i - 1], t[i]) ELSE d[i - 1]
  BY <1>1, ChosenFollows
<1> HIDE DEF c, d
<1>4. 0 \in N
  BY <1>2, <1>3
<1>5. ASSUME NEW n \in Nat, n \in N PROVE n + 1 \in N
  <2> SUFFICES ASSUME n + 1 <= m PROVE c[n + 1] = d[n + 1]
    OBVIOUS
  <2>1. /\ n + 1 \in 1 .. Len(s) /\ n + 1 \in 1 .. Len(t) /\ n + 1 \in 1 .. m
        /\ (n + 1) - 1 = n /\ n <= m
    BY <1>1
  <2>2. c[n] = d[n]
    BY <1>5, <2>1
  <2>3. c[n + 1] = IF s[n + 1] \in S THEN Append(c[n], s[n + 1]) ELSE c[n]
    BY <1>2, <2>1
  <2>4. d[n + 1] = IF t[n + 1] \in R THEN Append(d[n], t[n + 1]) ELSE d[n]
    BY <1>3, <2>1
  <2>5. s[n + 1] = t[n + 1] /\ (s[n + 1] \in S <=> t[n + 1] \in R)
    BY <2>1
  <2> QED
    BY <2>2, <2>3, <2>4, <2>5
<1>6. m \in N
  <2> HIDE DEF N
  <2> QED
    BY <1>4, <1>5, InductionOnNat
<1> QED
  BY <1>6 DEF c, d

LEMMA ChosenAgrees ==
  ASSUME NEW T, NEW s \in Seq(T), NEW S, NEW R, \A x \in Range(s) : x \in S <=> x \in R
  PROVE  Chosen(s, S) = Chosen(s, R)
<1>1. Len(s) \in Nat /\ DOMAIN s = 1 .. Len(s)
  BY LenProperties
<1>2. \A i \in 1 .. Len(s) : s[i] = s[i] /\ (s[i] \in S <=> s[i] \in R)
  BY <1>1 DEF Range
<1>3. ChosenUpTo(s, S)[Len(s)] = ChosenUpTo(s, R)[Len(s)]
  BY <1>1, <1>2, ChosenUpToAgrees
<1> QED
  BY <1>3 DEF Chosen

\* An element appended to a sequence is appended to the selection if it belongs.
LEMMA ChosenAppends ==
  ASSUME NEW T, NEW s \in Seq(T), NEW e \in T, NEW S
  PROVE  Chosen(Append(s, e), S) = IF e \in S THEN Append(Chosen(s, S), e) ELSE Chosen(s, S)
<1> DEFINE n == Len(s)
           t == Append(s, e)
<1>1. n \in Nat
  BY LenProperties
<1>2. /\ t \in Seq(T) /\ Len(t) = n + 1
      /\ \A i \in 1 .. n : t[i] = s[i]
      /\ t[n + 1] = e
  BY AppendProperties
<1> HIDE DEF t
<1>3. n + 1 \in 1 .. Len(t) /\ (n + 1) - 1 = n /\ Len(t) \in Nat /\ n <= Len(t) /\ n <= Len(s)
  BY <1>1, <1>2
<1>4. ChosenUpTo(t, S)[n + 1]
      = IF t[n + 1] \in S THEN Append(ChosenUpTo(t, S)[n], t[n + 1]) ELSE ChosenUpTo(t, S)[n]
  BY <1>3, ChosenFollows
<1>5. ChosenUpTo(t, S)[n] = ChosenUpTo(s, S)[n]
  <2> HIDE DEF n
  <2>1. \A i \in 1 .. n : s[i] = t[i]
    BY <1>2
  <2>2. t \in Seq(T) /\ n <= Len(t) /\ n <= Len(s)
    BY <1>2, <1>3
  <2>3. ASSUME NEW u \in Seq(T), NEW m \in Nat, m <= Len(s), m <= Len(u),
               \A i \in 1 .. m : s[i] = u[i]
        PROVE  ChosenUpTo(s, S)[m] = ChosenUpTo(u, S)[m]
    BY <2>3, ChosenUpToAgrees
  <2> QED
    BY <1>1, <2>1, <2>2, <2>3
<1>6. Chosen(t, S) = ChosenUpTo(t, S)[n + 1] /\ Chosen(s, S) = ChosenUpTo(s, S)[n]
  BY <1>2 DEF Chosen
<1> QED
  BY <1>2, <1>4, <1>5, <1>6 DEF t

LEMMA ChosenOfNone ==
  ASSUME NEW S
  PROVE  Chosen(<<>>, S) = <<>>
<1>1. Len(<<>>) = 0
  BY EmptySeq
<1> QED
  BY <1>1, ChosenFollows DEF Chosen

\* A selection from a selection.
LEMMA ChosenTwice ==
  ASSUME NEW T, NEW s \in Seq(T), NEW S, NEW R
  PROVE  Chosen(Chosen(s, S), R) = Chosen(s, S \cap R)
<1> DEFINE L == Len(s)
           c == ChosenUpTo(s, S)
           d == ChosenUpTo(s, S \cap R)
           N == {n \in Nat : n <= L => Chosen(c[n], R) = d[n]}
<1>1. L \in Nat
  BY LenProperties
<1>2. c[0] = <<>> /\ \A i \in 1 .. L : c[i] = IF s[i] \in S THEN Append(c[i - 1], s[i]) ELSE c[i - 1]
  BY <1>1, ChosenFollows
<1>3. d[0] = <<>> /\ \A i \in 1 .. L : d[i] = IF s[i] \in S \cap R THEN Append(d[i - 1], s[i]) ELSE d[i - 1]
  BY <1>1, ChosenFollows
<1>4. \A i \in 0 .. L : c[i] \in Seq(T)
  <2>1. \A i \in 0 .. L : c[i] \in Seq(T \cap S)
    BY ChosenFromPrefix
  <2>2. T \cap S \subseteq T
    OBVIOUS
  <2> HIDE DEF c, L
  <2> QED
    BY <2>1, <2>2, SeqMonotonic
<1>5. \A i \in 1 .. L : s[i] \in T
  BY ElementOfSeq
<1> HIDE DEF c, d
<1>6. 0 \in N
  BY <1>2, <1>3, ChosenOfNone
<1>7. ASSUME NEW n \in Nat, n \in N PROVE n + 1 \in N
  <2> SUFFICES ASSUME n + 1 <= L PROVE Chosen(c[n + 1], R) = d[n + 1]
    OBVIOUS
  <2>1. n + 1 \in 1 .. L /\ (n + 1) - 1 = n /\ n <= L /\ n \in 0 .. L
    BY <1>1
  <2>2. Chosen(c[n], R) = d[n]
    BY <1>7, <2>1
  <2> DEFINE e == s[n + 1]
  <2>3. c[n + 1] = IF e \in S THEN Append(c[n], e) ELSE c[n]
    BY <1>2, <2>1
  <2>4. d[n + 1] = IF e \in S \cap R THEN Append(d[n], e) ELSE d[n]
    BY <1>3, <2>1
  <2>5. e \in T /\ c[n] \in Seq(T)
    BY <1>4, <1>5, <2>1
  <2> HIDE DEF e
  <2>6. Chosen(Append(c[n], e), R) = IF e \in R THEN Append(Chosen(c[n], R), e) ELSE Chosen(c[n], R)
    BY <2>5, ChosenAppends
  <2> QED
    BY <2>2, <2>3, <2>4, <2>6
<1>8. L \in N
  <2> HIDE DEF N, L
  <2> QED
    BY <1>1, <1>6, <1>7, InductionOnNat
<1>9. Chosen(c[L], R) = d[L]
  BY <1>1, <1>8
<1> QED
  BY <1>9 DEF Chosen, c, d, L

\* What is selected from a selection is selected by both.
LEMMA ChosenAgain ==
  ASSUME NEW T, NEW s \in Seq(T), NEW S, NEW R, NEW D,
         \A x \in Range(s) : x \in D <=> x \in S /\ x \in R
  PROVE  Chosen(Chosen(s, S), R) = Chosen(s, D)
<1>1. Chosen(Chosen(s, S), R) = Chosen(s, S \cap R)
  BY ChosenTwice
<1>2. \A x \in Range(s) : x \in S \cap R <=> x \in D
  OBVIOUS
<1>3. Chosen(s, S \cap R) = Chosen(s, D)
  BY <1>2, ChosenAgrees
<1> QED
  BY <1>1, <1>3

\* An element appended, where what belongs changes only for elements to come.
LEMMA ChosenExtends ==
  ASSUME NEW T, NEW s \in Seq(T), NEW e \in T, NEW S, NEW R,
         \A x \in Range(s) : x \in S <=> x \in R
  PROVE  Chosen(Append(s, e), R) = IF e \in R THEN Append(Chosen(s, S), e) ELSE Chosen(s, S)
<1>1. Chosen(Append(s, e), R) = IF e \in R THEN Append(Chosen(s, R), e) ELSE Chosen(s, R)
  BY ChosenAppends
<1>2. Chosen(s, S) = Chosen(s, R)
  BY ChosenAgrees
<1> QED
  BY <1>1, <1>2

--------------------------------------------------------------------------------
(***************************************************************************)
(* Selections from the numbers 1 to n, in order.                           *)
(***************************************************************************)

LEMMA NumbersAppend ==
  ASSUME NEW n \in Nat
  PROVE  /\ [i \in 1 .. n |-> i] \in Seq(1 .. n)
         /\ Len([i \in 1 .. n |-> i]) = n
         /\ Range([i \in 1 .. n |-> i]) = 1 .. n
         /\ IsInjective([i \in 1 .. n |-> i])
         /\ Append([i \in 1 .. n |-> i], n + 1) = [i \in 1 .. n + 1 |-> i]
<1> DEFINE s == [i \in 1 .. n |-> i]
           t == [i \in 1 .. n + 1 |-> i]
<1>1. s \in Seq(1 .. n) /\ Len(s) = n
  OBVIOUS
<1>2. Range(s) = 1 .. n /\ IsInjective(s)
  BY DEF Range, IsInjective
<1>3. t \in Seq(1 .. n + 1) /\ Len(t) = n + 1
  OBVIOUS
<1>4. s \in Seq(1 .. n + 1) /\ n + 1 \in 1 .. n + 1
  OBVIOUS
<1>5. \A i \in 1 .. n : s[i] = i
  OBVIOUS
<1>6. \A i \in 1 .. n + 1 : t[i] = i /\ (i \in 1 .. n \/ i = n + 1)
  OBVIOUS
<1> HIDE DEF s, t
<1>7. /\ Append(s, n + 1) \in Seq(1 .. n + 1)
      /\ Len(Append(s, n + 1)) = n + 1
      /\ \A i \in 1 .. n : Append(s, n + 1)[i] = s[i]
      /\ Append(s, n + 1)[n + 1] = n + 1
  BY <1>1, <1>4, AppendProperties
<1>8. \A i \in 1 .. n + 1 : Append(s, n + 1)[i] = t[i]
  BY <1>5, <1>6, <1>7
<1>9. Append(s, n + 1) = t
  BY <1>3, <1>7, <1>8, SeqEqual
<1> QED
  BY <1>1, <1>2, <1>9 DEF s, t

LEMMA ChosenNumbers ==
  ASSUME NEW n \in Nat, NEW S
  PROVE  /\ Chosen([i \in 1 .. n |-> i], S) \in Seq(1 .. n)
         /\ Range(Chosen([i \in 1 .. n |-> i], S)) = (1 .. n) \cap S
         /\ IsInjective(Chosen([i \in 1 .. n |-> i], S))
<1> DEFINE s == [i \in 1 .. n |-> i]
<1>1. s \in Seq(1 .. n) /\ Range(s) = 1 .. n /\ IsInjective(s)
  BY NumbersAppend
<1> HIDE DEF s
<1>2. /\ Chosen(s, S) \in Seq(1 .. n)
      /\ Range(Chosen(s, S)) = Range(s) \cap S
      /\ IsInjective(Chosen(s, S))
  BY <1>1, ChosenProperties
<1> QED
  BY <1>1, <1>2 DEF s

LEMMA ChosenNumbersExtend ==
  ASSUME NEW n \in Nat, NEW S, NEW R, \A i \in 1 .. n : i \in S <=> i \in R
  PROVE  Chosen([i \in 1 .. n + 1 |-> i], R)
         = IF n + 1 \in R THEN Append(Chosen([i \in 1 .. n |-> i], S), n + 1)
                          ELSE Chosen([i \in 1 .. n |-> i], S)
<1> DEFINE s == [i \in 1 .. n |-> i]
<1>1. /\ s \in Seq(1 .. n) /\ Range(s) = 1 .. n
      /\ Append(s, n + 1) = [i \in 1 .. n + 1 |-> i]
  BY NumbersAppend
<1> HIDE DEF s
<1>2. s \in Seq(Nat)
  <2>1. 1 .. n \subseteq Nat
    OBVIOUS
  <2> QED
    BY <1>1, <2>1, SeqMonotonic
<1>3. \A x \in Range(s) : x \in S <=> x \in R
  BY <1>1
<1> DEFINE next == n + 1
<1>4. next \in Nat
  OBVIOUS
<1> HIDE DEF next
<1>5. Chosen(Append(s, next), R) = IF next \in R THEN Append(Chosen(s, S), next)
                                                 ELSE Chosen(s, S)
  BY <1>2, <1>3, <1>4, ChosenExtends
<1> QED
  BY <1>1, <1>5 DEF s, next

LEMMA ChosenNumbersAgree ==
  ASSUME NEW n \in Nat, NEW S, NEW R, \A i \in 1 .. n : i \in S <=> i \in R
  PROVE  Chosen([i \in 1 .. n |-> i], S) = Chosen([i \in 1 .. n |-> i], R)
<1> DEFINE s == [i \in 1 .. n |-> i]
<1>1. s \in Seq(1 .. n) /\ Range(s) = 1 .. n
  BY NumbersAppend
<1> HIDE DEF s
<1>2. Chosen(s, S) = Chosen(s, R)
  BY <1>1, ChosenAgrees
<1> QED
  BY <1>2 DEF s
================================================================================
