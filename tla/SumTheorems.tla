------------------------------ MODULE SumTheorems ------------------------------
(***************************************************************************)
(* What a sum over a table is, in whatever order it takes the rows.  The   *)
(* library's induction over finite sets takes a predicate; here every      *)
(* induction goes by a least counterexample instead.                       *)
(***************************************************************************)
EXTENDS Integers, Functions, FiniteSetTheorems, WellFoundedInduction, TLAPS

Sum(f, S) == SumFunctionOnSet(f, S)

\* The row a sum takes first.
pick(s) == CHOOSE x \in s : TRUE

\* g adds up f over the sets of D.
Adds(g, f, D) ==
  g = [s \in D |-> IF s = {} THEN 0 ELSE f[pick(s)] + g[s \ {pick(s)}]]

\* A set of numbers has a least one.
LEMMA LeastNumber ==
  ASSUME NEW T \in SUBSET Nat, T # {}
  PROVE  \E n \in T : \A m \in T : n <= m
<1>1. PICK n \in T : \A m \in T : ~ (<<m, n>> \in OpToRel(<, Nat))
  BY WFMin, NatLessThanWellFounded, Zenon
<1>2. \A m \in T : ~(m < n)
  BY <1>1 DEF OpToRel
<1>3. QED
  BY <1>2

\* And so has a collection of finite sets.
LEMMA LeastSet ==
  ASSUME NEW S, IsFiniteSet(S), NEW T \in SUBSET SUBSET S, T # {}
  PROVE  \E s \in T : \A t \in T : Cardinality(s) <= Cardinality(t)
<1>1. \A t \in T : Cardinality(t) \in Nat
  BY FS_Subset, FS_CardinalityType
<1> DEFINE N == {Cardinality(t) : t \in T}
<1>2. N \in SUBSET Nat /\ N # {}
  BY <1>1
<1> HIDE DEF N
<1>3. PICK n \in N : \A m \in N : n <= m
  BY <1>2, LeastNumber
<1>4. QED
  BY <1>3 DEF N

\* Taking one element out makes a set smaller by one.
LEMMA Smaller ==
  ASSUME NEW S, IsFiniteSet(S), NEW s \in SUBSET S, NEW x \in s
  PROVE  /\ s \ {x} \in SUBSET S
         /\ Cardinality(s) \in Nat /\ Cardinality(s \ {x}) \in Nat
         /\ Cardinality(s \ {x}) = Cardinality(s) - 1
<1>1. IsFiniteSet(s)
  BY FS_Subset
<1>2. QED
  BY <1>1, FS_RemoveElement, FS_CardinalityType

LEMMA Picked == ASSUME NEW s, s # {} PROVE pick(s) \in s
BY DEF pick

\* There is a function that adds up f over all subsets of a finite set.
LEMMA Exists ==
  ASSUME NEW f, NEW S, IsFiniteSet(S)
  PROVE  \E g : Adds(g, f, SUBSET S)
<1> DEFINE Upto(n) == {s \in SUBSET S : Cardinality(s) <= n}
           Bad == {n \in Nat : ~ \E g : Adds(g, f, Upto(n))}
<1>1. Bad = {}
  <2> SUFFICES ASSUME Bad # {} PROVE FALSE
    OBVIOUS
  <2>1. PICK n \in Bad : \A m \in Bad : n <= m
    BY LeastNumber
  <2>2. n # 0
    <3> DEFINE z == [s \in Upto(0) |-> 0]
    <3>1. \A s \in Upto(0) : s = {}
      BY FS_Subset, FS_EmptySet, FS_CardinalityType
    <3>2. z = [s \in Upto(0) |-> IF s = {} THEN 0 ELSE f[pick(s)] + z[s \ {pick(s)}]]
      BY <3>1
    <3>3. QED
      BY <3>2 DEF Adds
  <2>3. n \in Nat
    OBVIOUS
  <2>4. n - 1 \in Nat /\ ~(n <= n - 1)
    BY <2>2, <2>3
  <2>5. n - 1 \notin Bad
    <3> HIDE DEF Bad
    <3> QED BY <2>1, <2>4
  <2>6. PICK g : Adds(g, f, Upto(n - 1))
    BY <2>4, <2>5
  <2> DEFINE h == [s \in Upto(n) |-> IF s = {} THEN 0 ELSE f[pick(s)] + g[s \ {pick(s)}]]
  <2>7. \A s \in Upto(n - 1) : s \in Upto(n) /\ h[s] = g[s]
    <3>1. \A s \in Upto(n - 1) : s \in Upto(n)
      BY <2>3, FS_Subset, FS_CardinalityType
    <3>2. \A s \in Upto(n - 1) :
            g[s] = IF s = {} THEN 0 ELSE f[pick(s)] + g[s \ {pick(s)}]
      BY <2>6 DEF Adds
    <3>3. QED
      BY <3>1, <3>2
  <2>8. \A s \in Upto(n) : s # {} => s \ {pick(s)} \in Upto(n - 1)
    BY <2>3, Smaller, Picked
  <2>9. h = [s \in Upto(n) |-> IF s = {} THEN 0 ELSE f[pick(s)] + h[s \ {pick(s)}]]
    BY <2>7, <2>8
  <2>10. QED
    BY <2>9 DEF Adds
<1>2. Cardinality(S) \in Nat /\ Upto(Cardinality(S)) = SUBSET S
  BY FS_Subset, FS_CardinalityType
<1>3. QED
  BY <1>1, <1>2

\* Any two agree where both are defined.
LEMMA Agree ==
  ASSUME NEW f, NEW S, IsFiniteSet(S), NEW T \in SUBSET S, NEW g, NEW h,
         Adds(g, f, SUBSET S), Adds(h, f, SUBSET T)
  PROVE  g[T] = h[T]
<1> DEFINE Bad == {s \in SUBSET T : g[s] # h[s]}
<1>0. IsFiniteSet(T)
  BY FS_Subset
<1>1. ASSUME Bad # {} PROVE FALSE
  <2>1. PICK s \in Bad : \A t \in Bad : Cardinality(s) <= Cardinality(t)
    BY <1>0, <1>1, LeastSet
  <2>2. g[s] = IF s = {} THEN 0 ELSE f[pick(s)] + g[s \ {pick(s)}]
    BY DEF Adds
  <2>3. h[s] = IF s = {} THEN 0 ELSE f[pick(s)] + h[s \ {pick(s)}]
    BY DEF Adds
  <2>4. s # {}
    BY <2>2, <2>3
  <2>5. s \ {pick(s)} \in SUBSET T /\ s \ {pick(s)} \notin Bad
    BY <1>0, <2>1, <2>4, Smaller, Picked
  <2>6. QED
    BY <2>2, <2>3, <2>5
<1>2. QED
  BY <1>1

\* The library's sum is the value of such a function.
LEMMA SumIs ==
  ASSUME NEW f, NEW S, IsFiniteSet(S)
  PROVE  \E g : Adds(g, f, SUBSET S) /\ Sum(f, S) = g[S]
<1> DEFINE iter == CHOOSE g : Adds(g, f, SUBSET S)
<1>1. Adds(iter, f, SUBSET S)
  BY Exists
<1>2. Sum(f, S) = iter[S]
  BY DEF Sum, SumFunctionOnSet, FoldFunctionOnSet, MapThenFoldSet, pick, Adds
<1>3. QED
  BY <1>1, <1>2

\* A sum is 0, or its first term and the sum of the rest.
LEMMA SumStep ==
  ASSUME NEW f, NEW S, IsFiniteSet(S)
  PROVE  Sum(f, S) = IF S = {} THEN 0 ELSE f[pick(S)] + Sum(f, S \ {pick(S)})
<1>1. PICK g : Adds(g, f, SUBSET S) /\ Sum(f, S) = g[S]
  BY SumIs
<1>2. g[S] = IF S = {} THEN 0 ELSE f[pick(S)] + g[S \ {pick(S)}]
  BY <1>1 DEF Adds
<1>3. ASSUME NEW T \in SUBSET S PROVE g[T] = Sum(f, T)
  <2>1. IsFiniteSet(T)
    BY FS_Subset
  <2>2. PICK h : Adds(h, f, SUBSET T) /\ Sum(f, T) = h[T]
    BY <2>1, SumIs
  <2>3. Adds(g, f, SUBSET S)
    BY <1>1
  <2>4. QED
    BY <2>2, <2>3, Agree
<1>4. QED
  BY <1>1, <1>2, <1>3

\* A sum of integers is one.
LEMMA SumType ==
  ASSUME NEW f, NEW S, IsFiniteSet(S), \A x \in S : f[x] \in Int
  PROVE  Sum(f, S) \in Int
<1> DEFINE Bad == {T \in SUBSET S : Sum(f, T) \notin Int}
<1>1. ASSUME Bad # {} PROVE FALSE
  <2>1. PICK T \in Bad : \A U \in Bad : Cardinality(T) <= Cardinality(U)
    BY <1>1, LeastSet
  <2>2. IsFiniteSet(T)
    BY FS_Subset
  <2>3. Sum(f, T) = IF T = {} THEN 0 ELSE f[pick(T)] + Sum(f, T \ {pick(T)})
    BY <2>2, SumStep
  <2>4. T # {} /\ pick(T) \in S
    BY <2>3, Picked
  <2>5. T \ {pick(T)} \in SUBSET S /\ T \ {pick(T)} \notin Bad
    BY <2>1, <2>4, Smaller, Picked
  <2>6. QED
    BY <2>3, <2>4, <2>5
<1>2. QED
  BY <1>1

\* The terms may be taken in any order.
LEMMA SumRemove ==
  ASSUME NEW f, NEW S, IsFiniteSet(S), \A x \in S : f[x] \in Int, NEW e \in S
  PROVE  Sum(f, S) = f[e] + Sum(f, S \ {e})
<1> DEFINE Bad == {T \in SUBSET S : \E x \in T : Sum(f, T) # f[x] + Sum(f, T \ {x})}
<1>1. ASSUME Bad # {} PROVE FALSE
  <2>1. PICK T \in Bad : \A U \in Bad : Cardinality(T) <= Cardinality(U)
    BY <1>1, LeastSet
  <2>2. PICK x \in T : Sum(f, T) # f[x] + Sum(f, T \ {x})
    OBVIOUS
  <2>3. \A U \in SUBSET S : IsFiniteSet(U)
    BY FS_Subset
  <2> DEFINE p == pick(T)
  <2>4. p \in T /\ Sum(f, T) = f[p] + Sum(f, T \ {p})
    BY <2>3, SumStep, Picked
  <2> HIDE DEF p
  <2>5. p # x
    BY <2>2, <2>4
  <2>6. /\ T \ {p} \in SUBSET S /\ T \ {p} \notin Bad
        /\ T \ {x} \in SUBSET S /\ T \ {x} \notin Bad
    <3>1. \A y \in T : T \ {y} \in SUBSET S /\ ~(Cardinality(T) <= Cardinality(T \ {y}))
      BY Smaller
    <3>2. QED
      BY <2>1, <2>4, <3>1
  <2>7. x \in T \ {p} /\ p \in T \ {x} /\ (T \ {p}) \ {x} = (T \ {x}) \ {p}
    BY <2>4, <2>5
  <2>8. /\ Sum(f, T \ {p}) = f[x] + Sum(f, (T \ {p}) \ {x})
        /\ Sum(f, T \ {x}) = f[p] + Sum(f, (T \ {p}) \ {x})
    BY <2>6, <2>7
  <2>9. Sum(f, (T \ {p}) \ {x}) \in Int /\ f[x] \in Int /\ f[p] \in Int
    <3>1. (T \ {p}) \ {x} \in SUBSET S
      OBVIOUS
    <3>2. QED
      BY <2>3, <2>4, <3>1, SumType
  <2>10. QED
    BY <2>2, <2>4, <2>8, <2>9
<1>2. QED
  BY <1>1

\* Equal terms, equal sums.
LEMMA SumSame ==
  ASSUME NEW f, NEW g, NEW S, IsFiniteSet(S), \A x \in S : f[x] = g[x]
  PROVE  Sum(f, S) = Sum(g, S)
<1> DEFINE Bad == {T \in SUBSET S : Sum(f, T) # Sum(g, T)}
<1>1. ASSUME Bad # {} PROVE FALSE
  <2>1. PICK T \in Bad : \A U \in Bad : Cardinality(T) <= Cardinality(U)
    BY <1>1, LeastSet
  <2>2. IsFiniteSet(T)
    BY FS_Subset
  <2>3. /\ Sum(f, T) = IF T = {} THEN 0 ELSE f[pick(T)] + Sum(f, T \ {pick(T)})
        /\ Sum(g, T) = IF T = {} THEN 0 ELSE g[pick(T)] + Sum(g, T \ {pick(T)})
    BY <2>2, SumStep
  <2>4. T # {} /\ pick(T) \in S
    BY <2>3, Picked
  <2>5. T \ {pick(T)} \in SUBSET S /\ T \ {pick(T)} \notin Bad
    BY <2>1, <2>4, Smaller, Picked
  <2>6. QED
    BY <2>3, <2>4, <2>5
<1>2. QED
  BY <1>1

\* Nothing adds up to zero.
LEMMA SumZero ==
  ASSUME NEW f, NEW S, IsFiniteSet(S), \A x \in S : f[x] = 0
  PROVE  Sum(f, S) = 0
<1> DEFINE Bad == {T \in SUBSET S : Sum(f, T) # 0}
<1>1. ASSUME Bad # {} PROVE FALSE
  <2>1. PICK T \in Bad : \A U \in Bad : Cardinality(T) <= Cardinality(U)
    BY <1>1, LeastSet
  <2>2. IsFiniteSet(T)
    BY FS_Subset
  <2>3. Sum(f, T) = IF T = {} THEN 0 ELSE f[pick(T)] + Sum(f, T \ {pick(T)})
    BY <2>2, SumStep
  <2>4. T # {} /\ pick(T) \in S
    BY <2>3, Picked
  <2>5. T \ {pick(T)} \in SUBSET S /\ T \ {pick(T)} \notin Bad
    BY <2>1, <2>4, Smaller, Picked
  <2>6. QED
    BY <2>3, <2>4, <2>5
<1>2. QED
  BY <1>1

\* When one term changes, the sum changes by the difference.
LEMMA OneTermChanges ==
  ASSUME NEW f, NEW g, NEW S, IsFiniteSet(S), NEW e \in S,
         \A x \in S : f[x] \in Int /\ g[x] \in Int,
         \A x \in S \ {e} : g[x] = f[x]
  PROVE  Sum(g, S) = Sum(f, S) + (g[e] - f[e])
<1>1. IsFiniteSet(S \ {e})
  BY FS_RemoveElement
<1>2. Sum(f, S \ {e}) \in Int /\ Sum(f, S \ {e}) = Sum(g, S \ {e})
  BY <1>1, SumType, SumSame
<1>3. Sum(f, S) = f[e] + Sum(f, S \ {e}) /\ Sum(g, S) = g[e] + Sum(g, S \ {e})
  BY SumRemove
<1>4. QED
  BY <1>2, <1>3

\* When a term comes in addition, the sum grows by it.
LEMMA OneTermMore ==
  ASSUME NEW f, NEW g, NEW S, IsFiniteSet(S), NEW e, e \notin S,
         \A x \in S : f[x] \in Int /\ g[x] = f[x], g[e] \in Int
  PROVE  Sum(g, S \cup {e}) = Sum(f, S) + g[e]
<1>1. IsFiniteSet(S \cup {e}) /\ (S \cup {e}) \ {e} = S
  BY FS_AddElement
<1>2. Sum(f, S) \in Int /\ Sum(f, S) = Sum(g, S)
  BY SumType, SumSame
<1>3. \A x \in S \cup {e} : g[x] \in Int
  OBVIOUS
<1>4. Sum(g, S \cup {e}) = g[e] + Sum(g, S)
  <2> DEFINE T == S \cup {e}
  <2>1. IsFiniteSet(T) /\ e \in T /\ T \ {e} = S /\ \A x \in T : g[x] \in Int
    BY <1>1, <1>3
  <2> HIDE DEF T
  <2>2. Sum(g, T) = g[e] + Sum(g, T \ {e})
    BY <2>1, SumRemove
  <2>3. QED
    BY <2>1, <2>2 DEF T
<1>5. QED
  BY <1>2, <1>4

\* A sum of a function is that over its domain.
LEMMA SumFunctionIs == ASSUME NEW f PROVE SumFunction(f) = Sum(f, DOMAIN f)
BY DEF SumFunction, Sum, SumFunctionOnSet

\* A sum of numbers is not negative, and none of them exceeds it.
LEMMA TermBelowSum ==
  ASSUME NEW f, NEW S, IsFiniteSet(S), \A x \in S : f[x] \in Nat, NEW e \in S
  PROVE  f[e] <= Sum(f, S)
<1> DEFINE Bad == {T \in SUBSET S : ~(Sum(f, T) \in Nat)}
<1>1. ASSUME Bad # {} PROVE FALSE
  <2>1. PICK T \in Bad : \A U \in Bad : Cardinality(T) <= Cardinality(U)
    BY <1>1, LeastSet
  <2>2. IsFiniteSet(T)
    BY FS_Subset
  <2>3. Sum(f, T) = IF T = {} THEN 0 ELSE f[pick(T)] + Sum(f, T \ {pick(T)})
    BY <2>2, SumStep
  <2>4. T # {} /\ pick(T) \in S
    BY <2>3, Picked
  <2>5. T \ {pick(T)} \in SUBSET S /\ T \ {pick(T)} \notin Bad
    BY <2>1, <2>4, Smaller, Picked
  <2>6. QED
    BY <2>3, <2>4, <2>5
<1>2. Sum(f, S \ {e}) \in Nat
  BY <1>1
<1>3. Sum(f, S) = f[e] + Sum(f, S \ {e})
  BY SumRemove
<1>4. QED
  BY <1>2, <1>3
===============================================================================
