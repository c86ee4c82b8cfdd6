----------------------------- MODULE SumTheorems -----------------------------
(***************************************************************************)
(* Sums of the values of a function over a finite set, as the models write *)
(* them (SumFunctionOnSet): what the amounts of payments and refunds, and  *)
(* the excess of rounding, add up to.                                      *)
(*                                                                         *)
(* Induction is stated with sets: a set of subsets that holds the empty    *)
(* one, and each one whose parts it holds, holds every finite one.  It     *)
(* rests on the least element of a set of natural numbers.                 *)
(***************************************************************************)
EXTENDS Integers, Functions, FiniteSetTheorems, WellFoundedInduction, TLAPS

\* A set of natural numbers that is not empty has a least element.
LEMMA LeastNatural ==
  ASSUME NEW N \in SUBSET Nat, N # {}
  PROVE  \E n \in N : \A m \in N : n <= m
  <1>1. PICK n \in N : \A m \in N : <<m, n>> \notin OpToRel(<, Nat)
    BY WFMin, NatLessThanWellFounded, Zenon
  <1>2. ASSUME NEW m \in N PROVE ~ (m < n)
    <2>1. ASSUME m < n PROVE <<m, n>> \in OpToRel(<, Nat)
      BY <2>1 DEF OpToRel
    <2>2. QED
      BY <1>1, <2>1
  <1>3. QED
    BY <1>2

\* Whatever the empty set has, and a set has when all those with one element
\* less have it, every finite set has.
LEMMA FiniteInduction ==
  ASSUME NEW S, IsFiniteSet(S), NEW Good,
         {} \in Good,
         ASSUME NEW T \in SUBSET S, T # {}, \A x \in T : T \ {x} \in Good
         PROVE  T \in Good
  PROVE  S \in Good
  <1> DEFINE Bad == {T \in SUBSET S : T \notin Good}
             Sizes == {Cardinality(T) : T \in Bad}
  <1>1. SUFFICES ASSUME S \notin Good PROVE FALSE
    OBVIOUS
  <1>2. \A T \in SUBSET S : IsFiniteSet(T) /\ Cardinality(T) \in Nat
    BY FS_Subset, FS_CardinalityType
  <1>3. Sizes \in SUBSET Nat /\ Sizes # {}
    BY <1>1, <1>2
  <1>4. PICK n \in Sizes : \A m \in Sizes : n <= m
    <2> HIDE DEF Sizes
    <2>1. QED
      BY <1>3, LeastNatural, Zenon
  <1>5. PICK T \in Bad : n = Cardinality(T)
    BY <1>4
  <1>6. ASSUME NEW x \in T PROVE T \ {x} \in Good
    <2>1. Cardinality(T \ {x}) = Cardinality(T) - 1
      BY <1>2, FS_RemoveElement
    <2>2. Cardinality(T \ {x}) \notin Sizes
      <3>1. n \in Nat /\ ~ (n <= Cardinality(T \ {x}))
        BY <1>2, <1>5, <2>1
      <3>2. QED
        BY <1>4, <3>1, Zenon
    <2>3. QED
      BY <2>2
  <1>7. QED
    BY <1>5, <1>6

-----------------------------------------------------------------------------
(* The recursion behind the sum.                                           *)

\* The element with which the sum begins.
First(s) == CHOOSE x \in s : TRUE

\* g adds up f over each set of D, every set by its first element and the rest.
Adds(g, f, D) ==
  g = [s \in D |-> IF s = {} THEN 0 ELSE f[First(s)] + g[s \ {First(s)}]]

\* g adds up f over every subset of S.
AddsBelow(g, f, S) == Adds(g, f, SUBSET S)

\* There is such a function on the subsets of a finite set.
LEMMA AdderExists ==
  ASSUME NEW f, NEW S, IsFiniteSet(S)
  PROVE  \E g : Adds(g, f, SUBSET S)
  <1> DEFINE D(n) == {s \in SUBSET S : Cardinality(s) <= n}
             Bad == {n \in Nat : ~ \E g : Adds(g, f, D(n))}
  <1>1. \A s \in SUBSET S : IsFiniteSet(s) /\ Cardinality(s) \in Nat
    BY FS_Subset, FS_CardinalityType
  <1>2. 0 \notin Bad
    <2> DEFINE g == [s \in D(0) |-> 0]
    <2>1. \A s \in D(0) : s = {}
      BY <1>1, FS_EmptySet
    <2>2. Adds(g, f, D(0))
      BY <2>1 DEF Adds
    <2>3. QED
      BY <2>2
  <1>3. ASSUME NEW n \in Nat, n \notin Bad
        PROVE  n + 1 \notin Bad
    <2>1. PICK g : Adds(g, f, D(n))
      BY <1>3
    <2> DEFINE h == [s \in D(n + 1) |->
                       IF s = {} THEN 0 ELSE f[First(s)] + g[s \ {First(s)}]]
    <2>2. ASSUME NEW s \in D(n + 1), s # {}
          PROVE  h[s \ {First(s)}] = g[s \ {First(s)}]
      <3> DEFINE t == s \ {First(s)}
      <3>1. First(s) \in s
        BY <2>2 DEF First
      <3>2. Cardinality(t) = Cardinality(s) - 1
        BY <1>1, <3>1, FS_RemoveElement
      <3>3. t \in D(n) /\ t \in D(n + 1)
        BY <1>1, <3>2
      <3> HIDE DEF t
      <3>4. g[t] = IF t = {} THEN 0 ELSE f[First(t)] + g[t \ {First(t)}]
        BY <2>1, <3>3, Zenon DEF Adds
      <3>5. h[t] = IF t = {} THEN 0 ELSE f[First(t)] + g[t \ {First(t)}]
        BY <3>3
      <3>6. QED
        BY <3>4, <3>5 DEF t
    <2>3. Adds(h, f, D(n + 1))
      <3>1. [s \in D(n + 1) |-> IF s = {} THEN 0 ELSE f[First(s)] + h[s \ {First(s)}]]
              = [s \in D(n + 1) |-> IF s = {} THEN 0 ELSE f[First(s)] + g[s \ {First(s)}]]
        <4> HIDE DEF h
        <4>1. QED
          BY <2>2
      <3>2. QED
        BY <3>1, Zenon DEF Adds
    <2>4. QED
      BY <2>3
  <1>4. Bad = {}
    <2>1. SUFFICES ASSUME Bad # {} PROVE FALSE
      OBVIOUS
    <2>2. PICK n \in Bad : \A m \in Bad : n <= m
      <3>1. Bad \in SUBSET Nat
        OBVIOUS
      <3> HIDE DEF Bad
      <3>2. QED
        BY <2>1, <3>1, LeastNatural, Zenon
    <2>3. n \in Nat /\ n # 0
      BY <1>2
    <2>4. n - 1 \in Nat /\ n - 1 \notin Bad
      <3> HIDE DEF Bad
      <3>1. QED
        BY <2>2, <2>3
    <2>5. (n - 1) + 1 \notin Bad
      <3> HIDE DEF Bad
      <3>1. QED
        BY <1>3, <2>4
    <2>6. QED
      BY <2>2, <2>3, <2>5
  <1>5. D(Cardinality(S)) = SUBSET S
    BY <1>1, FS_Subset
  <1>6. \E g : Adds(g, f, D(Cardinality(S)))
    BY <1>1, <1>4
  <1>7. QED
    BY <1>5, <1>6, Zenon

\* On a smaller set the recursion gives the same sums.
LEMMA AddersAgree ==
  ASSUME NEW f, NEW S, NEW T, NEW g, NEW h,
         IsFiniteSet(S), T \subseteq S,
         AddsBelow(g, f, S), AddsBelow(h, f, T)
  PROVE  g[T] = h[T]
  <1> DEFINE Good == {s \in SUBSET T : g[s] = h[s]}
  <1>1. \A s \in SUBSET T :
          /\ g[s] = IF s = {} THEN 0 ELSE f[First(s)] + g[s \ {First(s)}]
          /\ h[s] = IF s = {} THEN 0 ELSE f[First(s)] + h[s \ {First(s)}]
    BY Zenon DEF AddsBelow, Adds
  <1>2. {} \in Good
    BY <1>1
  <1>3. ASSUME NEW s \in SUBSET T, s # {}, \A x \in s : s \ {x} \in Good
        PROVE  s \in Good
    <2>1. First(s) \in s
      BY <1>3 DEF First
    <2>2. QED
      BY <1>1, <1>3, <2>1
  <1>4. IsFiniteSet(T)
    BY FS_Subset
  <1>5. T \in Good
    <2> HIDE DEF Good
    <2>1. QED
      BY <1>2, <1>3, <1>4, FiniteInduction
  <1>6. QED
    BY <1>5

\* A sum is what its recursion says.
LEMMA SumIsAdded ==
  ASSUME NEW f, NEW S, IsFiniteSet(S)
  PROVE  \E g : AddsBelow(g, f, S) /\ SumFunctionOnSet(f, S) = g[S]
  <1> DEFINE g == CHOOSE h : AddsBelow(h, f, S)
  <1>1. AddsBelow(g, f, S)
    BY AdderExists, Zenon DEF AddsBelow
  <1>2. SumFunctionOnSet(f, S) = g[S]
    BY Zenon DEF SumFunctionOnSet, FoldFunctionOnSet, MapThenFoldSet, AddsBelow, Adds, First
  <1>3. QED
    BY <1>1, <1>2, Zenon

\* What the recursion gives for a part is the sum over that part.
LEMMA PartIsAdded ==
  ASSUME NEW f, NEW S, NEW T, NEW g,
         IsFiniteSet(S), T \subseteq S, AddsBelow(g, f, S)
  PROVE  SumFunctionOnSet(f, T) = g[T]
  <1>1. \A h : AddsBelow(h, f, T) => g[T] = h[T]
    BY AddersAgree, Zenon
  <1>2. IsFiniteSet(T)
    BY FS_Subset
  <1>3. QED
    BY <1>1, <1>2, SumIsAdded, Zenon

\* The sum over no elements.
LEMMA SumEmpty == ASSUME NEW f PROVE SumFunctionOnSet(f, {}) = 0
  <1>1. PICK g : AddsBelow(g, f, {}) /\ SumFunctionOnSet(f, {}) = g[{}]
    BY SumIsAdded, FS_EmptySet, Zenon
  <1>2. QED
    BY <1>1 DEF AddsBelow, Adds

\* The sum over a set is that of its first element and of the rest.
LEMMA SumUnfold ==
  ASSUME NEW f, NEW S, IsFiniteSet(S), S # {}
  PROVE  SumFunctionOnSet(f, S)
           = f[First(S)] + SumFunctionOnSet(f, S \ {First(S)})
  <1>1. PICK T : T = S \ {First(S)}
    OBVIOUS
  <1>2. IsFiniteSet(T) /\ T \subseteq S
    BY <1>1, FS_Subset
  <1>3. PICK g : AddsBelow(g, f, S) /\ SumFunctionOnSet(f, S) = g[S]
    BY SumIsAdded, Zenon
  <1>4. SumFunctionOnSet(f, T) = g[T]
    BY <1>2, <1>3, PartIsAdded, Zenon
  <1>5. g[S] = f[First(S)] + g[T]
    <2>1. \A s \in SUBSET S :
            g[s] = IF s = {} THEN 0 ELSE f[First(s)] + g[s \ {First(s)}]
      BY <1>3, Zenon DEF AddsBelow, Adds
    <2>2. g[S] = IF S = {} THEN 0 ELSE f[First(S)] + g[S \ {First(S)}]
      BY <2>1
    <2>3. QED
      BY <1>1, <2>2
  <1>6. QED
    BY <1>1, <1>3, <1>4, <1>5

-----------------------------------------------------------------------------
(* What the proofs about amounts use.                                      *)

\* A sum of whole numbers is one.
LEMMA SumInt ==
  ASSUME NEW S, IsFiniteSet(S), NEW f, \A x \in S : f[x] \in Int
  PROVE  SumFunctionOnSet(f, S) \in Int
  <1> DEFINE Good == {T \in SUBSET S : SumFunctionOnSet(f, T) \in Int}
  <1>1. {} \in Good
    BY SumEmpty
  <1>2. ASSUME NEW T \in SUBSET S, T # {}, \A x \in T : T \ {x} \in Good
        PROVE  T \in Good
    <2>1. First(T) \in T
      BY <1>2 DEF First
    <2>2. SumFunctionOnSet(f, T) = f[First(T)] + SumFunctionOnSet(f, T \ {First(T)})
      BY <1>2, FS_Subset, SumUnfold
    <2>3. QED
      BY <1>2, <2>1, <2>2
  <1>3. S \in Good
    <2> HIDE DEF Good
    <2>1. QED
      BY <1>1, <1>2, FiniteInduction
  <1>4. QED
    BY <1>3

\* Any element may be taken out of a sum.
LEMMA SumPick ==
  ASSUME NEW S, IsFiniteSet(S), NEW f, \A x \in S : f[x] \in Int, NEW y \in S
  PROVE  SumFunctionOnSet(f, S) = f[y] + SumFunctionOnSet(f, S \ {y})
  <1> DEFINE Sum(T) == SumFunctionOnSet(f, T)
             Good == {T \in SUBSET S : \A x \in T : Sum(T) = f[x] + Sum(T \ {x})}
  <1>0. \A T \in SUBSET S : IsFiniteSet(T) /\ Sum(T) \in Int
    <2>1. ASSUME NEW T \in SUBSET S PROVE IsFiniteSet(T) /\ Sum(T) \in Int
      <3>1. IsFiniteSet(T)
        BY FS_Subset
      <3>2. QED
        BY <3>1, SumInt
    <2>2. QED
      BY <2>1
  <1>1. {} \in Good
    OBVIOUS
  <1>2. ASSUME NEW T \in SUBSET S, T # {}, \A x \in T : T \ {x} \in Good
        PROVE  T \in Good
    <2> DEFINE a == First(T)
    <2>1. a \in T
      BY <1>2 DEF First
    <2>2. Sum(T) = f[a] + Sum(T \ {a})
      BY <1>0, <1>2, SumUnfold, Zenon
    <2> HIDE DEF a
    <2>3. ASSUME NEW x \in T, x # a
          PROVE  Sum(T) = f[x] + Sum(T \ {x})
      <3>1. Sum(T \ {a}) = f[x] + Sum((T \ {a}) \ {x})
        BY <1>2, <2>1, <2>3
      <3>2. Sum(T \ {x}) = f[a] + Sum((T \ {x}) \ {a})
        BY <1>2, <2>1, <2>3
      <3>3. (T \ {a}) \ {x} = (T \ {x}) \ {a}
        OBVIOUS
      <3>4. /\ Sum((T \ {a}) \ {x}) \in Int
            /\ f[x] \in Int /\ f[a] \in Int
        BY <1>0, <2>1
      <3>5. Sum((T \ {x}) \ {a}) = Sum((T \ {a}) \ {x})
        BY <3>3, Zenon
      <3> HIDE DEF Sum
      <3>6. ASSUME NEW u, u = Sum((T \ {a}) \ {x}),
                   NEW v, v = Sum(T \ {a}),
                   NEW w, w = Sum(T \ {x})
            PROVE  Sum(T) = f[x] + w
        <4>1. v = f[x] + u /\ w = f[a] + u
          BY <3>1, <3>2, <3>5, <3>6, Zenon
        <4>2. Sum(T) = f[a] + v
          BY <2>2, <3>6, Zenon
        <4>3. u \in Int
          BY <3>4, <3>6, Zenon
        <4>4. QED
          BY <3>4, <4>1, <4>2, <4>3
      <3>7. QED
        BY <3>6, Zenon
    <2>4. QED
      BY <2>2, <2>3
  <1>3. S \in Good
    <2> HIDE DEF Good
    <2>1. QED
      BY <1>1, <1>2, FiniteInduction
  <1>4. QED
    BY <1>3

\* A sum grows by what is added to its set.
LEMMA SumAdd ==
  ASSUME NEW S, IsFiniteSet(S), NEW y, y \notin S,
         NEW f, \A x \in S \cup {y} : f[x] \in Int
  PROVE  SumFunctionOnSet(f, S \cup {y}) = f[y] + SumFunctionOnSet(f, S)
  <1>1. IsFiniteSet(S \cup {y})
    BY FS_AddElement
  <1>2. (S \cup {y}) \ {y} = S
    OBVIOUS
  <1>3. PICK T : T = S \cup {y}
    OBVIOUS
  <1>4. SumFunctionOnSet(f, T) = f[y] + SumFunctionOnSet(f, T \ {y})
    BY <1>1, <1>3, SumPick
  <1>5. QED
    BY <1>2, <1>3, <1>4, Zenon

\* A sum looks at the function on its set only.
LEMMA SumSame ==
  ASSUME NEW S, IsFiniteSet(S), NEW f, NEW g, \A x \in S : f[x] = g[x]
  PROVE  SumFunctionOnSet(f, S) = SumFunctionOnSet(g, S)
  <1> DEFINE Good == {T \in SUBSET S : SumFunctionOnSet(f, T) = SumFunctionOnSet(g, T)}
  <1>1. {} \in Good
    BY SumEmpty
  <1>2. ASSUME NEW T \in SUBSET S, T # {}, \A x \in T : T \ {x} \in Good
        PROVE  T \in Good
    <2>1. First(T) \in T
      BY <1>2 DEF First
    <2>2. IsFiniteSet(T)
      BY FS_Subset
    <2>3. SumFunctionOnSet(f, T) = f[First(T)] + SumFunctionOnSet(f, T \ {First(T)})
      BY <1>2, <2>2, SumUnfold
    <2>4. SumFunctionOnSet(g, T) = g[First(T)] + SumFunctionOnSet(g, T \ {First(T)})
      BY <1>2, <2>2, SumUnfold
    <2>5. QED
      BY <1>2, <2>1, <2>3, <2>4
  <1>3. S \in Good
    <2> HIDE DEF Good
    <2>1. QED
      BY <1>1, <1>2, FiniteInduction
  <1>4. QED
    BY <1>3

\* A sum of natural numbers is one.
LEMMA SumNat ==
  ASSUME NEW S, IsFiniteSet(S), NEW f, \A x \in S : f[x] \in Nat
  PROVE  SumFunctionOnSet(f, S) \in Nat
  <1> DEFINE Good == {T \in SUBSET S : SumFunctionOnSet(f, T) \in Nat}
  <1>1. {} \in Good
    BY SumEmpty
  <1>2. ASSUME NEW T \in SUBSET S, T # {}, \A x \in T : T \ {x} \in Good
        PROVE  T \in Good
    <2>1. First(T) \in T
      BY <1>2 DEF First
    <2>2. SumFunctionOnSet(f, T) = f[First(T)] + SumFunctionOnSet(f, T \ {First(T)})
      BY <1>2, FS_Subset, SumUnfold
    <2>3. QED
      BY <1>2, <2>1, <2>2
  <1>3. S \in Good
    <2> HIDE DEF Good
    <2>1. QED
      BY <1>1, <1>2, FiniteInduction
  <1>4. QED
    BY <1>3

\* Sums are taken term by term.
LEMMA SumPlus ==
  ASSUME NEW S, IsFiniteSet(S), NEW f, NEW g, NEW h,
         \A x \in S : f[x] \in Int /\ g[x] \in Int /\ h[x] = f[x] + g[x]
  PROVE  SumFunctionOnSet(h, S) = SumFunctionOnSet(f, S) + SumFunctionOnSet(g, S)
  <1> DEFINE Plus(T) == SumFunctionOnSet(h, T)
                          = SumFunctionOnSet(f, T) + SumFunctionOnSet(g, T)
             Good == {T \in SUBSET S : Plus(T)}
  <1>1. {} \in Good
    BY SumEmpty
  <1>2. ASSUME NEW T \in SUBSET S, T # {}, \A x \in T : T \ {x} \in Good
        PROVE  T \in Good
    <2>1. PICK y : y = First(T)
      OBVIOUS
    <2>2. y \in T
      BY <1>2, <2>1 DEF First
    <2>3. PICK U : U = T \ {y}
      OBVIOUS
    <2>4. IsFiniteSet(T) /\ IsFiniteSet(U) /\ U \in SUBSET S
      BY <2>3, FS_Subset
    <2>5. /\ SumFunctionOnSet(f, T) = f[y] + SumFunctionOnSet(f, U)
          /\ SumFunctionOnSet(g, T) = g[y] + SumFunctionOnSet(g, U)
          /\ SumFunctionOnSet(h, T) = h[y] + SumFunctionOnSet(h, U)
      BY <1>2, <2>1, <2>3, <2>4, SumUnfold, Zenon
    <2>6. /\ SumFunctionOnSet(f, U) \in Int
          /\ SumFunctionOnSet(g, U) \in Int
      <3>1. \A x \in U : f[x] \in Int /\ g[x] \in Int
        BY <2>4
      <3>2. QED
        BY <2>4, <3>1, SumInt
    <2>7. Plus(U)
      BY <1>2, <2>2, <2>3
    <2>8. f[y] \in Int /\ g[y] \in Int /\ h[y] = f[y] + g[y]
      BY <2>2
    <2>9. Plus(T)
      BY <2>5, <2>6, <2>7, <2>8
    <2>10. QED
      BY <2>9
  <1>3. S \in Good
    <2> HIDE DEF Good
    <2>1. QED
      BY <1>1, <1>2, FiniteInduction
  <1>4. QED
    BY <1>3

\* A sum of natural numbers is not less than the sum of a part of them.
LEMMA SumOfPart ==
  ASSUME NEW S, IsFiniteSet(S), NEW f, \A x \in S : f[x] \in Nat, NEW P \in SUBSET S
  PROVE  SumFunctionOnSet(f, P) <= SumFunctionOnSet(f, S)
  <1> DEFINE Sum(U) == SumFunctionOnSet(f, U)
             Good == {T \in SUBSET S : \A U \in SUBSET T : Sum(U) <= Sum(T)}
  <1>1. ASSUME NEW T \in SUBSET S PROVE IsFiniteSet(T) /\ Sum(T) \in Nat
    <2>1. IsFiniteSet(T)
      BY FS_Subset
    <2>2. QED
      BY <2>1, SumNat
  <1>2. {} \in Good
    BY SumEmpty
  <1>3. ASSUME NEW T \in SUBSET S, T # {}, \A x \in T : T \ {x} \in Good
        PROVE  T \in Good
    <2>1. ASSUME NEW U \in SUBSET T, U # T PROVE Sum(U) <= Sum(T)
      <3>1. PICK x \in T : x \notin U
        BY <2>1
      <3>2. IsFiniteSet(T) /\ \A y \in T : f[y] \in Int
        BY <1>1
      <3>3. Sum(T) = f[x] + Sum(T \ {x})
        BY <3>2, SumPick
      <3>4. Sum(U) <= Sum(T \ {x})
        BY <1>3, <3>1
      <3>5. Sum(U) \in Nat /\ Sum(T \ {x}) \in Nat /\ f[x] \in Nat
        BY <1>1
      <3> HIDE DEF Sum
      <3>6. QED
        BY <3>3, <3>4, <3>5
    <2>2. Sum(T) <= Sum(T)
      BY <1>1
    <2>3. QED
      BY <2>1, <2>2
  <1>4. S \in Good
    <2> HIDE DEF Good
    <2>1. QED
      BY <1>2, <1>3, FiniteInduction
  <1>5. QED
    BY <1>4

\* A sum of natural numbers is zero if each of them is.
LEMMA SumZero ==
  ASSUME NEW S, IsFiniteSet(S), NEW f, \A x \in S : f[x] \in Nat
  PROVE  SumFunctionOnSet(f, S) = 0 <=> \A x \in S : f[x] = 0
  <1>1. ASSUME \A x \in S : f[x] = 0 PROVE SumFunctionOnSet(f, S) = 0
    <2> DEFINE Good == {T \in SUBSET S : SumFunctionOnSet(f, T) = 0}
    <2>1. {} \in Good
      BY SumEmpty
    <2>2. ASSUME NEW T \in SUBSET S, T # {}, \A x \in T : T \ {x} \in Good
          PROVE  T \in Good
      <3>1. First(T) \in T
        BY <2>2 DEF First
      <3>2. SumFunctionOnSet(f, T) = f[First(T)] + SumFunctionOnSet(f, T \ {First(T)})
        BY <2>2, FS_Subset, SumUnfold
      <3>3. QED
        BY <1>1, <2>2, <3>1, <3>2
    <2>3. S \in Good
      <3> HIDE DEF Good
      <3>1. QED
        BY <2>1, <2>2, FiniteInduction
    <2>4. QED
      BY <2>3
  <1>2. ASSUME SumFunctionOnSet(f, S) = 0, NEW y \in S PROVE f[y] = 0
    <2>1. \A x \in S : f[x] \in Int
      OBVIOUS
    <2>2. SumFunctionOnSet(f, S) = f[y] + SumFunctionOnSet(f, S \ {y})
      BY <2>1, SumPick
    <2>3. IsFiniteSet(S \ {y}) /\ \A x \in S \ {y} : f[x] \in Nat
      BY FS_Subset
    <2>4. SumFunctionOnSet(f, S \ {y}) \in Nat
      BY <2>3, SumNat
    <2>5. QED
      BY <1>2, <2>2, <2>4
  <1>3. QED
    BY <1>1, <1>2

-----------------------------------------------------------------------------
(* Multiples.                                                              *)

\* A number is a multiple and what remains.
LEMMA Quotient ==
  ASSUME NEW M \in Nat \ {0}, NEW a \in Nat
  PROVE  \E q \in Int : a = (q * M) + (a % M)
  <1>1. ASSUME NEW q, q = a \div M, NEW r, r = a % M
        PROVE  q \in Int /\ a = q * M + r
    BY <1>1
  <1>2. a \div M \in Int /\ a = ((a \div M) * M) + (a % M)
    BY <1>1, Zenon
  <1>3. QED
    BY <1>2, Zenon

\* Nothing remains of multiples, and only of them.
LEMMA MultipleIs ==
  ASSUME NEW M \in Nat \ {0}, NEW a \in Nat
  PROVE  a % M = 0 <=> \E q \in Int : a = q * M
  <1>1. a % M = 0 => \E q \in Int : a = q * M
    <2>1. PICK q \in Int : a = (q * M) + (a % M)
      BY Quotient
    <2>2. PICK p : p = q * M
      OBVIOUS
    <2>3. a % M = 0 => a = p
      BY <2>1, <2>2
    <2>4. QED
      BY <2>2, <2>3
  <1>2. ASSUME NEW q \in Int, a = q * M PROVE a % M = 0
    BY <1>2
  <1>3. QED
    BY <1>1, <1>2

\* The sum of two multiples is one.
LEMMA MultipleSum ==
  ASSUME NEW M \in Nat \ {0}, NEW a \in Nat, NEW b \in Nat, a % M = 0, b % M = 0
  PROVE  (a + b) % M = 0
  <1>1. PICK q \in Int : a = q * M
    BY MultipleIs
  <1>2. PICK p \in Int : b = p * M
    BY MultipleIs
  <1>3. q * M + p * M = (q + p) * M
    OBVIOUS
  <1>4. a + b = (q + p) * M /\ a + b \in Nat /\ q + p \in Int
    BY <1>1, <1>2, <1>3
  <1>5. QED
    BY <1>4, MultipleIs

\* So is the sum of any number of them.
LEMMA SumMultiple ==
  ASSUME NEW M \in Nat \ {0}, NEW S, IsFiniteSet(S), NEW f,
         \A x \in S : f[x] \in Nat /\ f[x] % M = 0
  PROVE  SumFunctionOnSet(f, S) % M = 0
  <1> DEFINE Good == {T \in SUBSET S : SumFunctionOnSet(f, T) % M = 0}
  <1>1. {} \in Good
    <2>1. 0 % M = 0
      OBVIOUS
    <2>2. QED
      BY <2>1, SumEmpty
  <1>2. ASSUME NEW T \in SUBSET S, T # {}, \A x \in T : T \ {x} \in Good
        PROVE  T \in Good
    <2>1. PICK y : y = First(T)
      OBVIOUS
    <2>2. y \in T
      BY <1>2, <2>1 DEF First
    <2>3. PICK U : U = T \ {y}
      OBVIOUS
    <2>4. IsFiniteSet(T) /\ IsFiniteSet(U) /\ U \in SUBSET S
      BY <2>3, FS_Subset
    <2>5. SumFunctionOnSet(f, T) = f[y] + SumFunctionOnSet(f, U)
      BY <1>2, <2>1, <2>3, <2>4, SumUnfold, Zenon
    <2>6. SumFunctionOnSet(f, U) \in Nat
      <3>1. \A x \in U : f[x] \in Nat
        BY <2>4
      <3>2. QED
        BY <2>4, <3>1, SumNat
    <2>7. SumFunctionOnSet(f, U) % M = 0
      BY <1>2, <2>2, <2>3
    <2>8. (f[y] + SumFunctionOnSet(f, U)) % M = 0
      BY <2>2, <2>6, <2>7, MultipleSum
    <2>9. QED
      BY <2>5, <2>8
  <1>3. S \in Good
    <2> HIDE DEF Good
    <2>1. QED
      BY <1>1, <1>2, FiniteInduction
  <1>4. QED
    BY <1>3

\* What a number lacks to the next multiple is less than a multiple.
LEMMA NextMultiple ==
  ASSUME NEW M \in Nat \ {0}, NEW a \in Nat, a % M # 0,
         NEW r, r = a + (M - (a % M))
  PROVE  r \in Nat /\ a < r /\ r < a + M /\ r % M = 0
  <1>1. PICK m : m = a % M
    OBVIOUS
  <1>2. m \in 1 .. M - 1
    BY <1>1
  <1>3. PICK q \in Int : a = q * M + m
    BY <1>1, Quotient
  <1>4. PICK p : p = q * M
    OBVIOUS
  <1>5. p \in Int /\ M + p = (q + 1) * M
    BY <1>4
  <1>6. r = a + (M - m) /\ a = p + m
    BY <1>1, <1>3, <1>4
  <1>7. r = M + p /\ r \in Nat /\ a < r /\ r < a + M
    BY <1>2, <1>5, <1>6
  <1>8. r = (q + 1) * M /\ q + 1 \in Int
    BY <1>5, <1>7
  <1>9. r % M = 0
    BY <1>7, <1>8, MultipleIs
  <1>10. QED
    BY <1>7, <1>9
=============================================================================
