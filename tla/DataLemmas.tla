------------------------------ MODULE DataLemmas ------------------------------
(***************************************************************************)
(* Lemmas about data that the proofs of several components share:          *)
(* induction over the natural numbers, stated for sets and functions       *)
(* rather than for operators; sums and orders of finite sets; and the      *)
(* sequences of module Listing.                                            *)
(***************************************************************************)
EXTENDS Listing, SequencesExt, FiniteSetsExt, TLAPS, FiniteSetTheorems, WellFoundedInduction

-----------------------------------------------------------------------------
(* Induction and recursion. *)

\* A set of numbers that has 0, and with each number the next, has all of them.
LEMMA SetInduction ==
    ASSUME NEW S \in SUBSET Nat, 0 \in S, \A k \in S : k + 1 \in S
    PROVE  S = Nat
<1>1. SUFFICES ASSUME Nat \ S # {} PROVE FALSE
  OBVIOUS
<1> DEFINE Less == {ss \in Nat \X Nat : ss[1] < ss[2]}
<1>2. IsWellFoundedOn(Less, Nat)
  BY NatLessThanWellFounded, Zenon DEF OpToRel
<1> HIDE DEF Less
<1>3. PICK x \in Nat \ S : \A y \in Nat \ S : <<y, x>> \notin Less
  BY <1>1, <1>2, WFMin
<1>4. x # 0 /\ x - 1 \in Nat /\ x - 1 \notin S
  BY <1>3
<1>5. <<x - 1, x>> \in Less
  BY <1>4 DEF Less
<1> QED
  BY <1>3, <1>4, <1>5

\* The functions that give the next value, by number and value.
StepsOf(n, V) == [1..n -> [V -> V]]

\* A function defined step by step from b exists.
LEMMA Recursion ==
    ASSUME NEW n \in Nat, NEW V, NEW b \in V, NEW step \in StepsOf(n, V)
    PROVE  \E f \in [0..n -> V] : f[0] = b /\ \A i \in 1..n : f[i] = step[i][f[i - 1]]
<1> USE DEF StepsOf
<1> DEFINE Rec(k, f) == f[0] = b /\ \A i \in 1..k : f[i] = step[i][f[i - 1]]
           S == {k \in Nat : k <= n => \E f \in [0..k -> V] : Rec(k, f)}
<1>1. 0 \in S
  <2> DEFINE f == [i \in 0..0 |-> b]
  <2>1. f \in [0..0 -> V] /\ Rec(0, f)
    OBVIOUS
  <2> QED
    BY <2>1
<1>2. ASSUME NEW k \in Nat, k \in S PROVE k + 1 \in S
  <2> SUFFICES ASSUME k + 1 <= n PROVE \E f \in [0..k+1 -> V] : Rec(k + 1, f)
    OBVIOUS
  <2>1. PICK g \in [0..k -> V] : Rec(k, g)
    BY <1>2
  <2> DEFINE f == [i \in 0..k+1 |-> IF i = k + 1 THEN step[k + 1][g[k]] ELSE g[i]]
  <2>2. f \in [0..k+1 -> V]
    OBVIOUS
  <2>3. f[0] = b
    BY <2>1
  <2>4. ASSUME NEW i \in 1..k+1 PROVE f[i] = step[i][f[i - 1]]
    <3>1. i - 1 \in 0..k /\ f[i - 1] = g[i - 1]
      OBVIOUS
    <3>2. CASE i = k + 1
      BY <3>1, <3>2
    <3>3. CASE i \in 1..k
      BY <2>1, <3>1, <3>3
    <3> QED
      BY <3>2, <3>3
  <2> QED
    BY <2>2, <2>3, <2>4
<1> HIDE DEF S
<1>3. S = Nat
  BY <1>1, <1>2, SetInduction DEF S
<1> QED
  BY <1>3 DEF S

-----------------------------------------------------------------------------
(* Sums and orders of finite sets. *)

\* The members of S that are left when one of them is taken out.
LEMMA OneLess ==
    ASSUME NEW S, IsFiniteSet(S), NEW s \in SUBSET S, NEW x \in s
    PROVE  /\ IsFiniteSet(s) /\ Cardinality(s) \in Nat /\ Cardinality(s) > 0
           /\ IsFiniteSet(s \ {x}) /\ Cardinality(s \ {x}) = Cardinality(s) - 1
<1>1. IsFiniteSet(s)
  BY FS_Subset
<1>2. IsFiniteSet(s \ {x}) /\ Cardinality(s \ {x}) = Cardinality(s) - 1
  BY <1>1, FS_RemoveElement
<1>3. Cardinality(s) \in Nat /\ (Cardinality(s) = 0 <=> s = {})
  BY <1>1, FS_CardinalityType, FS_EmptySet
<1> QED
  BY <1>1, <1>2, <1>3

\* The sum of whole numbers over a finite set is one, and 0 over no set.
LEMMA SumIsInt ==
    ASSUME NEW S, IsFiniteSet(S), NEW w, \A x \in S : w[x] \in Int
    PROVE  SumFunctionOnSet(w, S) \in Int /\ (S = {} => SumFunctionOnSet(w, S) = 0)
<1> DEFINE Taken(s) == CHOOSE x \in s : TRUE
           Sum(f, s) == IF s = {} THEN 0 ELSE w[Taken(s)] + f[s \ {Taken(s)}]
           Upto(k) == {s \in SUBSET S : Cardinality(s) <= k}
           Exists == {k \in Nat : \E f \in [SUBSET S -> Int] : \A s \in Upto(k) : f[s] = Sum(f, s)}
           iter == CHOOSE iter : iter = [s \in SUBSET S |-> Sum(iter, s)]
<1>0. ASSUME NEW s \in SUBSET S, s # {}
      PROVE  /\ Taken(s) \in s /\ s \ {Taken(s)} \in SUBSET S /\ w[Taken(s)] \in Int
             /\ Cardinality(s) \in Nat /\ Cardinality(s \ {Taken(s)}) = Cardinality(s) - 1
  <2>1. Taken(s) \in s
    BY <1>0
  <2> HIDE DEF Taken
  <2> QED
    BY <2>1, OneLess
<1>c. \A s \in SUBSET S : Cardinality(s) \in Nat /\ (Cardinality(s) = 0 <=> s = {})
  BY FS_Subset, FS_CardinalityType, FS_EmptySet
<1> HIDE DEF Taken
<1>1. Exists = Nat
  <2>1. 0 \in Exists
    <3>1. [s \in SUBSET S |-> 0] \in [SUBSET S -> Int]
      OBVIOUS
    <3>2. \A s \in Upto(0) : s = {}
      BY <1>c
    <3>3. \A s \in Upto(0) : [r \in SUBSET S |-> 0][s] = Sum([r \in SUBSET S |-> 0], s)
      BY <3>2
    <3> QED
      BY <3>1, <3>3
  <2>2. ASSUME NEW k \in Nat, k \in Exists PROVE k + 1 \in Exists
    <3>1. PICK f \in [SUBSET S -> Int] : \A s \in Upto(k) : f[s] = Sum(f, s)
      BY <2>2
    <3> DEFINE g == [s \in SUBSET S |-> IF Cardinality(s) <= k THEN f[s] ELSE w[Taken(s)] + f[s \ {Taken(s)}]]
    <3>2. g \in [SUBSET S -> Int]
      <4>1. ASSUME NEW s \in SUBSET S PROVE g[s] \in Int
        <5>1. CASE Cardinality(s) <= k
          BY <5>1
        <5>2. CASE ~(Cardinality(s) <= k)
          BY <5>2, <1>0, <1>c
        <5> QED
          BY <5>1, <5>2
      <4> QED
        BY <4>1
    <3>3. ASSUME NEW s \in Upto(k + 1) PROVE g[s] = Sum(g, s)
      <4>1. CASE s = {}
        BY <4>1, <1>c, <3>1
      <4>2. CASE s # {}
        <5>1. /\ s \ {Taken(s)} \in SUBSET S /\ Cardinality(s \ {Taken(s)}) <= k
          BY <4>2, <1>0
        <5>2. g[s \ {Taken(s)}] = f[s \ {Taken(s)}]
          BY <5>1
        <5>3. g[s] = w[Taken(s)] + f[s \ {Taken(s)}]
          BY <4>2, <3>1, <1>c
        <5> QED
          BY <4>2, <5>2, <5>3
      <4> QED
        BY <4>1, <4>2
    <3> HIDE DEF g
    <3> QED
      BY <3>2, <3>3
  <2> HIDE DEF Exists
  <2>3. Exists \in SUBSET Nat
    BY DEF Exists
  <2> QED
    BY <2>1, <2>2, <2>3, SetInduction
<1>2. iter = [s \in SUBSET S |-> Sum(iter, s)]
  <2>1. Cardinality(S) \in Exists
    BY <1>1, <1>c
  <2>2. PICK f \in [SUBSET S -> Int] : \A s \in Upto(Cardinality(S)) : f[s] = Sum(f, s)
    BY <2>1
  <2>3. \A s \in SUBSET S : s \in Upto(Cardinality(S))
    BY FS_Subset
  <2>4. f = [s \in SUBSET S |-> Sum(f, s)]
    BY <2>2, <2>3
  <2> QED
    BY <2>4
<1>3. SumFunctionOnSet(w, S) = iter[S]
  BY DEF SumFunctionOnSet, FoldFunctionOnSet, MapThenFoldSet, Taken
<1> HIDE DEF iter
<1> DEFINE Ints == {k \in Nat : \A s \in Upto(k) : iter[s] \in Int}
<1>4. Ints = Nat
  <2>1. 0 \in Ints
    BY <1>2, <1>c
  <2>2. ASSUME NEW k \in Nat, k \in Ints PROVE k + 1 \in Ints
    <3> SUFFICES ASSUME NEW s \in Upto(k + 1) PROVE iter[s] \in Int
      OBVIOUS
    <3>1. CASE s = {}
      BY <3>1, <1>2
    <3>2. CASE s # {}
      <4>1. s \ {Taken(s)} \in Upto(k) /\ w[Taken(s)] \in Int
        BY <3>2, <1>0
      <4>2. iter[s] = w[Taken(s)] + iter[s \ {Taken(s)}]
        BY <3>2, <1>2
      <4> QED
        BY <4>1, <4>2, <2>2
    <3> QED
      BY <3>1, <3>2
  <2> HIDE DEF Ints
  <2>3. Ints \in SUBSET Nat
    BY DEF Ints
  <2> QED
    BY <2>1, <2>2, <2>3, SetInduction
<1>5. S \in Upto(Cardinality(S)) /\ Cardinality(S) \in Nat
  BY <1>c
<1> QED
  BY <1>2, <1>3, <1>4, <1>5

\* R says of any two members of S which is before the other.
TotalOrder(R, S) ==
    /\ \A x \in S : <<x, x>> \notin R
    /\ \A x, y \in S : x # y => <<x, y>> \in R \/ <<y, x>> \in R
    /\ \A x, y, z \in S : <<x, y>> \in R /\ <<y, z>> \in R => <<x, z>> \in R

\* The members of T, each before the next.
Orders(T, R) == {q \in [1..Cardinality(T) -> T] : \A k, l \in DOMAIN q : k < l => <<q[k], q[l]>> \in R}

\* A finite set has a last member, and a whole order.
LEMMA LastOfAll ==
    ASSUME NEW S, IsFiniteSet(S), NEW R, TotalOrder(R, S), S # {}
    PROVE  \E m \in S : \A y \in S \ {m} : <<y, m>> \in R
<1> DEFINE Has(T) == \E m \in T : \A y \in T \ {m} : <<y, m>> \in R
           Good == {k \in Nat : \A T \in SUBSET S : Cardinality(T) = k + 1 => Has(T)}
<1>c. \A s \in SUBSET S : IsFiniteSet(s) /\ Cardinality(s) \in Nat /\ (Cardinality(s) = 0 <=> s = {})
  BY FS_Subset, FS_CardinalityType, FS_EmptySet
<1>1. 0 \in Good
  <2> SUFFICES ASSUME NEW T \in SUBSET S, Cardinality(T) = 1 PROVE Has(T)
    OBVIOUS
  <2>1. PICK x \in T : TRUE
    BY <1>c
  <2>2. T \ {x} = {}
    <3>1. Cardinality(T \ {x}) = Cardinality(T) - 1
      BY <2>1, OneLess
    <3>2. Cardinality(T \ {x}) = 0 /\ T \ {x} \in SUBSET S
      BY <3>1
    <3> QED
      BY <3>2, <1>c
  <2> QED
    BY <2>1, <2>2
<1>2. ASSUME NEW k \in Nat, k \in Good PROVE k + 1 \in Good
  <2> SUFFICES ASSUME NEW T \in SUBSET S, Cardinality(T) = k + 1 + 1 PROVE Has(T)
    OBVIOUS
  <2>1. PICK x \in T : TRUE
    BY <1>c
  <2>2. T \ {x} \in SUBSET S /\ Cardinality(T \ {x}) = k + 1
    <3>1. Cardinality(T \ {x}) = Cardinality(T) - 1
      BY <2>1, OneLess
    <3> QED
      BY <3>1
  <2>3. PICK m \in T \ {x} : \A y \in (T \ {x}) \ {m} : <<y, m>> \in R
    BY <1>2, <2>2
  <2>4. CASE <<x, m>> \in R
    BY <2>3, <2>4
  <2>5. CASE <<m, x>> \in R
    <3>1. ASSUME NEW y \in T \ {x} PROVE <<y, x>> \in R
      <4>1. CASE y = m
        BY <2>5, <4>1
      <4>2. CASE y # m
        BY <2>3, <2>5, <4>2, <2>1 DEF TotalOrder
      <4> QED
        BY <4>1, <4>2
    <3> QED
      BY <2>1, <3>1
  <2> QED
    BY <2>1, <2>3, <2>4, <2>5 DEF TotalOrder
<1> HIDE DEF Good
<1>3. Good = Nat
  <2>1. Good \in SUBSET Nat
    BY DEF Good
  <2> QED
    BY <1>1, <1>2, <2>1, SetInduction
<1>4. Cardinality(S) - 1 \in Good
  BY <1>3, <1>c
<1> QED
  BY <1>4, <1>c DEF Good

LEMMA OrderExists ==
    ASSUME NEW S, IsFiniteSet(S), NEW R, TotalOrder(R, S)
    PROVE  Orders(S, R) # {}
<1> DEFINE Good == {k \in Nat : \A T \in SUBSET S : Cardinality(T) = k => Orders(T, R) # {}}
<1>c. \A s \in SUBSET S : IsFiniteSet(s) /\ Cardinality(s) \in Nat /\ (Cardinality(s) = 0 <=> s = {})
  BY FS_Subset, FS_CardinalityType, FS_EmptySet
<1>1. 0 \in Good
  <2> SUFFICES ASSUME NEW T \in SUBSET S, Cardinality(T) = 0 PROVE Orders(T, R) # {}
    OBVIOUS
  <2> DEFINE q == [k \in 1..0 |-> 0]
  <2>1. q \in [1..Cardinality(T) -> T] /\ \A k, l \in DOMAIN q : k < l => <<q[k], q[l]>> \in R
    OBVIOUS
  <2> QED
    BY <2>1 DEF Orders
<1>2. ASSUME NEW n \in Nat, n \in Good PROVE n + 1 \in Good
  <2> SUFFICES ASSUME NEW T \in SUBSET S, Cardinality(T) = n + 1 PROVE Orders(T, R) # {}
    OBVIOUS
  <2>1. IsFiniteSet(T) /\ T # {} /\ TotalOrder(R, T)
    BY <1>c DEF TotalOrder
  <2>2. PICK m \in T : \A y \in T \ {m} : <<y, m>> \in R
    BY <2>1, LastOfAll
  <2>3. T \ {m} \in SUBSET S /\ Cardinality(T \ {m}) = n
    <3>1. Cardinality(T \ {m}) = Cardinality(T) - 1
      BY <2>2, OneLess
    <3> QED
      BY <3>1
  <2>4. PICK p : p \in Orders(T \ {m}, R)
    BY <1>2, <2>3
  <2>5. /\ p \in [1..n -> T \ {m}]
        /\ \A k, l \in 1..n : k < l => <<p[k], p[l]>> \in R
    BY <2>3, <2>4 DEF Orders
  <2> DEFINE q == [k \in 1..n + 1 |-> IF k = n + 1 THEN m ELSE p[k]]
  <2>6. q \in [1..n + 1 -> T]
    <3>1. \A k \in 1..n + 1 : k = n + 1 \/ k \in 1..n
      OBVIOUS
    <3> QED
      BY <2>5, <3>1
  <2>7. ASSUME NEW k \in 1..n + 1, NEW l \in 1..n + 1, k < l PROVE <<q[k], q[l]>> \in R
    <3>1. k \in 1..n /\ q[k] = p[k] /\ p[k] \in T \ {m}
      BY <2>5, <2>7
    <3>2. CASE l = n + 1
      BY <3>1, <3>2, <2>2
    <3>3. CASE l \in 1..n
      BY <3>1, <3>3, <2>5, <2>7
    <3> QED
      BY <3>2, <3>3
  <2> HIDE DEF q
  <2>8. q \in Orders(T, R)
    BY <2>6, <2>7 DEF Orders
  <2> QED
    BY <2>8
<1> HIDE DEF Good
<1>3. Good = Nat
  <2>1. Good \in SUBSET Nat
    BY DEF Good
  <2> QED
    BY <1>1, <1>2, <2>1, SetInduction
<1>4. Cardinality(S) \in Good
  BY <1>3, <1>c
<1> QED
  BY <1>4 DEF Good

-----------------------------------------------------------------------------
(* Sequences that list sets. *)

\* What lists a finite set by a total order has every member once, each before the next.
Lists(q, S, R) ==
    /\ q \in [1..Cardinality(S) -> S] /\ DOMAIN q = 1..Cardinality(S)
    /\ \A x \in S : \E k \in DOMAIN q : q[k] = x
    /\ \A k, l \in DOMAIN q : k < l => <<q[k], q[l]>> \in R
    /\ \A k, l \in DOMAIN q : q[k] = q[l] => k = l

LEMMA SortedFacts ==
    ASSUME NEW S, IsFiniteSet(S), NEW R, TotalOrder(R, S)
    PROVE  Cardinality(S) \in Nat /\ Lists(Sorted(S, R), S, R) /\ Sorted(S, R) \in Seq(S)
<1> DEFINE n == Cardinality(S)
           Before(x) == {y \in S : <<y, x>> \in R}
           rank == [x \in S |-> Cardinality(Before(x)) + 1]
           q == Sorted(S, R)
<1>1. n \in Nat
  BY FS_CardinalityType
<1>2. ASSUME NEW x \in S
      PROVE  /\ IsFiniteSet(Before(x)) /\ Cardinality(Before(x)) \in 0..n - 1
  <2>1. IsFiniteSet(Before(x)) /\ Before(x) \subseteq S
    BY FS_Subset
  <2>2. x \in S /\ x \notin Before(x)
    BY DEF TotalOrder
  <2>3. Cardinality(Before(x)) <= n /\ (Cardinality(Before(x)) = n => Before(x) = S)
    BY <2>1, FS_Subset
  <2>4. Cardinality(Before(x)) \in Nat
    BY <2>1, FS_CardinalityType
  <2> QED
    BY <1>1, <2>1, <2>2, <2>3, <2>4
<1>3. ASSUME NEW x \in S, NEW y \in S, <<x, y>> \in R PROVE rank[x] < rank[y]
  <2>1. Before(x) \subseteq Before(y) /\ x \in Before(y) /\ x \notin Before(x)
    BY <1>3 DEF TotalOrder
  <2>2. IsFiniteSet(Before(y)) /\ IsFiniteSet(Before(x))
    BY <1>2
  <2>3. Cardinality(Before(x)) <= Cardinality(Before(y)) /\ Cardinality(Before(x)) # Cardinality(Before(y))
    BY <2>1, <2>2, FS_Subset
  <2>4. Cardinality(Before(x)) \in Nat /\ Cardinality(Before(y)) \in Nat
    BY <2>2, FS_CardinalityType
  <2> HIDE DEF Before
  <2> QED
    BY <2>3, <2>4
<1>4. rank \in [S -> 1..n]
  <2>1. \A x \in S : Cardinality(Before(x)) + 1 \in 1..n
    BY <1>1, <1>2
  <2> HIDE DEF Before
  <2> QED
    BY <2>1
<1> HIDE DEF rank
<1>5. \A x, y \in S : rank[x] = rank[y] => x = y
  <2> SUFFICES ASSUME NEW x \in S, NEW y \in S, x # y PROVE rank[x] # rank[y]
    OBVIOUS
  <2>1. rank[x] \in Int /\ rank[y] \in Int
    BY <1>4
  <2>2. rank[x] < rank[y] \/ rank[y] < rank[x]
    BY <1>3 DEF TotalOrder
  <2> QED
    BY <2>1, <2>2
<1>6. rank \in Surjection(S, 1..n)
  <2>1. rank \in Injection(S, 1..n)
    BY <1>4, <1>5 DEF Injection, IsInjective
  <2>2. IsFiniteSet(1..n) /\ Cardinality(1..n) = n
    BY <1>1, FS_Interval
  <2> QED
    BY <2>1, <2>2, FS_Injection
<1>7. \A k \in 1..n : \E x \in S : rank[x] = k
  BY <1>6 DEF Surjection
<1>8. DOMAIN q = 1..n /\ \A k \in 1..n : q[k] \in S /\ rank[q[k]] = k
  <2>1. DOMAIN q = 1..n
    BY DEF Sorted
  <2>2. ASSUME NEW k \in 1..n PROVE q[k] \in S /\ rank[q[k]] = k
    <3>1. q[k] = CHOOSE x \in S : Cardinality(Before(x)) = k - 1
      BY <2>2 DEF Sorted
    <3>2. \A x \in S : Cardinality(Before(x)) = k - 1 <=> rank[x] = k
      <4>1. \A x \in S : Cardinality(Before(x)) \in Int
        BY <1>2
      <4>2. \A x \in S : rank[x] = Cardinality(Before(x)) + 1
        BY DEF rank
      <4> HIDE DEF Before
      <4> QED
        BY <4>1, <4>2
    <3>3. PICK x \in S : Cardinality(Before(x)) = k - 1
      BY <3>2, <1>7
    <3>4. q[k] \in S /\ Cardinality(Before(q[k])) = k - 1
      BY <3>1, <3>3
    <3> QED
      BY <3>2, <3>4
  <2> QED
    BY <2>1, <2>2
<1> HIDE DEF q
<1>9. \A x \in S : \E k \in 1..n : q[k] = x
  BY <1>4, <1>5, <1>8
<1>10. \A k, l \in 1..n : q[k] = q[l] => k = l
  BY <1>8
<1>11. ASSUME NEW k \in 1..n, NEW l \in 1..n, k < l PROVE <<q[k], q[l]>> \in R
  <2>1. q[k] # q[l] /\ q[k] \in S /\ q[l] \in S
    BY <1>8, <1>11
  <2>2. CASE <<q[l], q[k]>> \in R
    <3>1. rank[q[l]] < rank[q[k]]
      BY <1>3, <2>1, <2>2
    <3> QED
      BY <3>1, <1>8, <1>11
  <2> QED
    BY <2>1, <2>2 DEF TotalOrder
<1>12. q \in [1..n -> S]
  BY <1>8 DEF Sorted, q
<1>13. q \in Seq(S)
  BY <1>1, <1>12
<1> QED
  BY <1>1, <1>8, <1>9, <1>10, <1>11, <1>12, <1>13 DEF Lists, q

\* The elements at some places: each of those places once, in order.
LEMMA PickedFacts ==
    ASSUME NEW V, NEW s \in Seq(V), NEW T \in SUBSET DOMAIN s
    PROVE  \E at \in [1..Cardinality(T) -> T] :
             /\ Cardinality(T) \in Nat /\ Cardinality(T) <= Len(s)
             /\ Lists(at, T, Ascending(T))
             /\ Picked(s, T) \in Seq(V) /\ Len(Picked(s, T)) = Cardinality(T)
             /\ DOMAIN Picked(s, T) = 1..Cardinality(T)
             /\ \A k \in 1..Cardinality(T) : Picked(s, T)[k] = s[at[k]]
<1>1. IsFiniteSet(T) /\ Cardinality(T) <= Len(s)
  <2>1. DOMAIN s = 1..Len(s) /\ Len(s) \in Nat
    OBVIOUS
  <2> DEFINE m == Len(s)
  <2>2. IsFiniteSet(1..m) /\ Cardinality(1..m) = m
    <3>1. m \in Nat
      BY <2>1
    <3> HIDE DEF m
    <3>2. 1 \in Int /\ m \in Int
      BY <3>1
    <3>3. IsFiniteSet(1..m) /\ Cardinality(1..m) = IF 1 > m THEN 0 ELSE m - 1 + 1
      BY <3>2, FS_Interval
    <3> QED
      BY <3>1, <3>3
  <2> QED
    BY <2>1, <2>2, FS_Subset
<1>2. TotalOrder(Ascending(T), T)
  <2>1. T \in SUBSET Nat
    OBVIOUS
  <2> QED
    BY <2>1 DEF TotalOrder, Ascending
<1>3. PICK at : at = Sorted(T, Ascending(T))
  OBVIOUS
<1>4. Cardinality(T) \in Nat /\ Lists(at, T, Ascending(T))
  BY <1>1, <1>2, <1>3, SortedFacts
<1>5. at \in [1..Cardinality(T) -> T] /\ DOMAIN at = 1..Cardinality(T)
  BY <1>4 DEF Lists
<1>6. PICK q : q = Picked(s, T)
  OBVIOUS
<1>7. q = [k \in 1..Cardinality(T) |-> s[at[k]]]
  BY <1>3, <1>5, <1>6 DEF Picked
<1>8. \A k \in 1..Cardinality(T) : s[at[k]] \in V
  BY <1>5
<1>9. q \in Seq(V) /\ Len(q) = Cardinality(T)
  BY <1>4, <1>7, <1>8
<1>10. DOMAIN q = 1..Cardinality(T) /\ \A k \in 1..Cardinality(T) : q[k] = s[at[k]]
  BY <1>7
<1> QED
  BY <1>1, <1>4, <1>5, <1>6, <1>9, <1>10

\* What a sequence of sequences has, one after the other.
LEMMA FlatFacts ==
    ASSUME NEW V, NEW q \in Seq(Seq(V))
    PROVE  /\ FlattenSeq(q) \in Seq(V)
           /\ ToSet(FlattenSeq(q)) = UNION {ToSet(q[i]) : i \in DOMAIN q}
<1> DEFINE n == Len(q)
           W == Seq(V)
           step == [i \in 1..n |-> [v \in W |-> IF i = 1 THEN q[1] ELSE v \o q[i]]]
           flatten == CHOOSE flatten : flatten = [i \in 1..n |-> IF i = 1 THEN q[i] ELSE flatten[i - 1] \o q[i]]
<1>1. n \in Nat /\ DOMAIN q = 1..n /\ \A i \in 1..n : q[i] \in W
  OBVIOUS
<1>2. CASE n = 0
  <2>1. FlattenSeq(q) = q /\ q = <<>>
    BY <1>2 DEF FlattenSeq
  <2> QED
    BY <2>1 DEF ToSet
<1>3. CASE n # 0
  <2>1. step \in StepsOf(n, W)
    BY <1>1 DEF StepsOf
  <2>2. PICK f \in [0..n -> W] : f[0] = <<>> /\ \A i \in 1..n : f[i] = step[i][f[i - 1]]
    <3>1. <<>> \in W
      OBVIOUS
    <3> HIDE DEF step, W
    <3> QED
      BY <1>1, <2>1, <3>1, Recursion
  <2>3. ASSUME NEW i \in 1..n PROVE i - 1 \in 0..n /\ f[i] = IF i = 1 THEN q[1] ELSE f[i - 1] \o q[i]
    <3>1. i - 1 \in 0..n
      BY <1>1
    <3>2. f[i - 1] \in W
      BY <2>2, <3>1
    <3> HIDE DEF W
    <3>3. step[i][f[i - 1]] = IF i = 1 THEN q[1] ELSE f[i - 1] \o q[i]
      BY <3>2
    <3> QED
      BY <2>2, <3>1, <3>3
  <2> DEFINE g == [i \in 1..n |-> f[i]]
  <2>4. \A i \in 1..n : g[i] = IF i = 1 THEN q[i] ELSE g[i - 1] \o q[i]
    <3> SUFFICES ASSUME NEW i \in 1..n PROVE g[i] = IF i = 1 THEN q[i] ELSE g[i - 1] \o q[i]
      OBVIOUS
    <3>1. CASE i = 1
      BY <3>1, <2>3
    <3>2. CASE i # 1
      <4>1. i - 1 \in 1..n
        BY <3>2, <1>1
      <4> QED
        BY <3>2, <4>1, <2>3
    <3> QED
      BY <3>1, <3>2
  <2>5. g = [i \in 1..n |-> IF i = 1 THEN q[i] ELSE g[i - 1] \o q[i]]
    <3> HIDE DEF g
    <3>1. g = [i \in 1..n |-> g[i]]
      BY DEF g
    <3> QED
      BY <2>4, <3>1
  <2> HIDE DEF g
  <2>6. flatten = [i \in 1..n |-> IF i = 1 THEN q[i] ELSE flatten[i - 1] \o q[i]]
    BY <2>5
  <2>7. FlattenSeq(q) = flatten[n]
    BY <1>3 DEF FlattenSeq
  <2> HIDE DEF flatten
  <2> DEFINE S == {k \in Nat : k + 1 \in 1..n =>
                      /\ flatten[k + 1] \in W
                      /\ ToSet(flatten[k + 1]) = UNION {ToSet(q[i]) : i \in 1..k + 1}}
  <2>8. 0 \in S
    <3>1. flatten[1] = q[1] /\ 1..1 = {1}
      BY <2>6, <1>1, <1>3
    <3>2. UNION {ToSet(q[i]) : i \in 1..1} = ToSet(q[1])
      BY <3>1
    <3> QED
      BY <3>1, <3>2, <1>1, <1>3
  <2>9. ASSUME NEW k \in Nat, k \in S PROVE k + 1 \in S
    <3> SUFFICES ASSUME k + 1 + 1 \in 1..n
                 PROVE  /\ flatten[k + 1 + 1] \in W
                        /\ ToSet(flatten[k + 1 + 1]) = UNION {ToSet(q[i]) : i \in 1..k + 1 + 1}
      OBVIOUS
    <3>1. k + 1 \in 1..n /\ flatten[k + 1 + 1] = flatten[k + 1] \o q[k + 1 + 1]
      <4> DEFINE i == k + 1 + 1
      <4>1. i \in 1..n /\ i # 1 /\ i - 1 = k + 1 /\ k + 1 \in 1..n
        BY <1>1
      <4> HIDE DEF i
      <4>2. flatten[i] = flatten[i - 1] \o q[i]
        BY <2>6, <4>1
      <4> QED
        BY <4>1, <4>2 DEF i
    <3>2. flatten[k + 1] \in W /\ ToSet(flatten[k + 1]) = UNION {ToSet(q[i]) : i \in 1..k + 1}
      BY <2>9, <3>1
    <3>3. ToSet(flatten[k + 1] \o q[k + 1 + 1]) = ToSet(flatten[k + 1]) \cup ToSet(q[k + 1 + 1])
      <4> DEFINE a == flatten[k + 1]
                 b == q[k + 1 + 1]
      <4>1. a \in Seq(V) /\ b \in Seq(V)
        BY <3>2, <1>1
      <4> HIDE DEF a, b
      <4>2. /\ DOMAIN (a \o b) = 1..Len(a) + Len(b) /\ DOMAIN a = 1..Len(a) /\ DOMAIN b = 1..Len(b)
            /\ Len(a) \in Nat /\ Len(b) \in Nat
            /\ \A i \in 1..Len(a) : (a \o b)[i] = a[i]
            /\ \A i \in 1..Len(b) : (a \o b)[Len(a) + i] = b[i]
        BY <4>1
      <4>3. ToSet(a \o b) \subseteq ToSet(a) \cup ToSet(b)
        <5> SUFFICES ASSUME NEW i \in 1..Len(a) + Len(b) PROVE (a \o b)[i] \in ToSet(a) \cup ToSet(b)
          BY <4>2 DEF ToSet
        <5>1. CASE i \in 1..Len(a)
          BY <4>2, <5>1 DEF ToSet
        <5>2. CASE i \notin 1..Len(a)
          <6>1. i - Len(a) \in 1..Len(b) /\ i = Len(a) + (i - Len(a))
            BY <4>2, <5>2
          <6>2. (a \o b)[i] = b[i - Len(a)]
            BY <4>2, <6>1
          <6> QED
            BY <4>2, <6>1, <6>2 DEF ToSet
        <5> QED
          BY <5>1, <5>2
      <4>4. ToSet(a) \cup ToSet(b) \subseteq ToSet(a \o b)
        <5>1. \A i \in 1..Len(a) : i \in 1..Len(a) + Len(b)
          BY <4>2
        <5>2. \A i \in 1..Len(b) : Len(a) + i \in 1..Len(a) + Len(b)
          BY <4>2
        <5> QED
          BY <5>1, <5>2, <4>2 DEF ToSet
      <4> QED
        BY <4>3, <4>4 DEF a, b
    <3>4. 1..k + 1 + 1 = (1..k + 1) \cup {k + 1 + 1}
      OBVIOUS
    <3>5. UNION {ToSet(q[i]) : i \in 1..k + 1 + 1}
            = (UNION {ToSet(q[i]) : i \in 1..k + 1}) \cup ToSet(q[k + 1 + 1])
      <4>1. \A i : i \in 1..k + 1 + 1 <=> i \in 1..k + 1 \/ i = k + 1 + 1
        BY <3>4
      <4> DEFINE A == 1..k + 1
                 B == 1..k + 1 + 1
                 m == k + 1 + 1
      <4>2. \A i : i \in B <=> i \in A \/ i = m
        BY <4>1
      <4> HIDE DEF A, B, m
      <4>3. ASSUME NEW x \in UNION {ToSet(q[i]) : i \in B}
            PROVE  x \in (UNION {ToSet(q[i]) : i \in A}) \cup ToSet(q[m])
        <5>1. PICK i \in B : x \in ToSet(q[i])
          BY <4>3
        <5>2. CASE i = m
          <6>1. x \in ToSet(q[m])
            BY <5>1, <5>2
          <6> QED
            BY <6>1
        <5>3. CASE i \in A
          BY <5>1, <5>3, Zenon
        <5> QED
          BY <5>1, <5>2, <5>3, <4>2
      <4>4. ASSUME NEW x \in (UNION {ToSet(q[i]) : i \in A}) \cup ToSet(q[m])
            PROVE  x \in UNION {ToSet(q[i]) : i \in B}
        <5>1. CASE x \in ToSet(q[m])
          <6>1. m \in B
            BY <4>2
          <6> QED
            BY <5>1, <6>1, Zenon
        <5>2. CASE x \in UNION {ToSet(q[i]) : i \in A}
          <6>1. PICK i \in A : x \in ToSet(q[i])
            BY <5>2
          <6>2. i \in B
            BY <6>1, <4>2
          <6> QED
            BY <6>1, <6>2, Zenon
        <5>3. x \in ToSet(q[m]) \/ x \in UNION {ToSet(q[i]) : i \in A}
          BY <4>4
        <5> QED
          BY <5>1, <5>2, <5>3, Zenon
      <4> QED
        BY <4>3, <4>4 DEF A, B, m
    <3>6. flatten[k + 1] \o q[k + 1 + 1] \in W
      BY <3>2, <1>1
    <3>7. flatten[k + 1 + 1] \in W
      BY <3>1, <3>6
    <3>8. ToSet(flatten[k + 1 + 1]) = UNION {ToSet(q[i]) : i \in 1..k + 1 + 1}
      <4>1. ToSet(flatten[k + 1 + 1]) = ToSet(flatten[k + 1] \o q[k + 1 + 1])
        BY <3>1
      <4> QED
        BY <4>1, <3>2, <3>3, <3>5
    <3> QED
      BY <3>7, <3>8
  <2> HIDE DEF S
  <2>10. S = Nat
    <3>1. S \in SUBSET Nat
      BY DEF S
    <3> QED
      BY <2>8, <2>9, <3>1, SetInduction
  <2>11. n - 1 \in S /\ n - 1 + 1 = n /\ n \in 1..n
    BY <2>10, <1>1, <1>3
  <2> QED
    BY <2>7, <2>11, <1>1 DEF S
<1> QED
  BY <1>2, <1>3
\* The orders of module Listing are total.
LEMMA AscendingTotal == ASSUME NEW T \in SUBSET Int PROVE TotalOrder(Ascending(T), T)
BY DEF TotalOrder, Ascending

LEMMA DescendingTotal ==
    ASSUME NEW T \in SUBSET Int, NEW value, \A i \in T : value[i] \in Int
    PROVE  TotalOrder(Descending(T, value), T)
<1> DEFINE Before(i, j) == value[i] > value[j] \/ (value[i] = value[j] /\ i < j)
<1>1. \A i, j \in T : <<i, j>> \in Descending(T, value) <=> Before(i, j)
  BY DEF Descending
<1>2. /\ \A i \in T : ~Before(i, i)
      /\ \A i, j \in T : i # j => Before(i, j) \/ Before(j, i)
      /\ \A i, j, k \in T : Before(i, j) /\ Before(j, k) => Before(i, k)
  OBVIOUS
<1> HIDE DEF Before
<1> QED
  BY <1>1, <1>2 DEF TotalOrder

\* What a set of places gives, place by place: the places are there, each once.
LEMMA PlacesFinite ==
    ASSUME NEW n \in Nat, NEW T \in SUBSET (1..n)
    PROVE  IsFiniteSet(T) /\ Cardinality(T) \in Nat /\ Cardinality(T) <= n
<1>1. IsFiniteSet(1..n) /\ Cardinality(1..n) = IF 1 > n THEN 0 ELSE n - 1 + 1
  BY FS_Interval
<1>2. IsFiniteSet(T) /\ Cardinality(T) <= Cardinality(1..n)
  BY <1>1, FS_Subset
<1>3. Cardinality(T) \in Nat
  BY <1>2, FS_CardinalityType
<1> QED
  BY <1>1, <1>2, <1>3

\* What is at some places of a sequence.
LEMMA PickedSet ==
    ASSUME NEW V, NEW s \in Seq(V), NEW T \in SUBSET DOMAIN s
    PROVE  /\ Picked(s, T) \in Seq(V) /\ Len(Picked(s, T)) <= Len(s)
           /\ ToSet(Picked(s, T)) = {s[i] : i \in T}
<1>1. PICK at \in [1..Cardinality(T) -> T] :
             /\ Cardinality(T) \in Nat /\ Cardinality(T) <= Len(s)
             /\ Lists(at, T, Ascending(T))
             /\ Picked(s, T) \in Seq(V) /\ Len(Picked(s, T)) = Cardinality(T)
             /\ DOMAIN Picked(s, T) = 1..Cardinality(T)
             /\ \A k \in 1..Cardinality(T) : Picked(s, T)[k] = s[at[k]]
  BY PickedFacts
<1>2. PICK q : q = Picked(s, T)
  OBVIOUS
<1>3. PICK n : n = Cardinality(T)
  OBVIOUS
<1>4. /\ at \in [1..n -> T] /\ DOMAIN q = 1..n /\ \A k \in 1..n : q[k] = s[at[k]]
      /\ \A x \in T : \E k \in 1..n : at[k] = x
  BY <1>1, <1>2, <1>3 DEF Lists
<1>5. ToSet(q) = {s[i] : i \in T}
  <2>1. ToSet(q) = {q[k] : k \in 1..n}
    BY <1>4 DEF ToSet
  <2>2. ASSUME NEW k \in 1..n PROVE q[k] \in {s[i] : i \in T}
    BY <1>4
  <2>3. ASSUME NEW i \in T PROVE \E k \in 1..n : q[k] = s[i]
    BY <1>4
  <2> QED
    BY <2>1, <2>2, <2>3
<1> QED
  BY <1>1, <1>2, <1>3, <1>5

\* The largest of some numbers.
LEMMA MaxFacts ==
    ASSUME NEW S \in SUBSET Int, IsFiniteSet(S), S # {}
    PROVE  Max(S) \in S /\ \A y \in S : Max(S) >= y
<1>0. PICK R : R = Ascending(S)
  OBVIOUS
<1>1. PICK m \in S : \A y \in S \ {m} : <<y, m>> \in R
  <2>1. TotalOrder(R, S)
    BY <1>0, AscendingTotal
  <2> QED
    BY <2>1, LastOfAll
<1>2. \A y \in S : m >= y
  <2>1. \A x, y \in S : <<x, y>> \in R => x < y
    BY <1>0 DEF Ascending
  <2>2. \A y \in S : y = m \/ y < m
    BY <1>1, <2>1
  <2> QED
    BY <2>2
<1> QED
  BY <1>1, <1>2 DEF Max

\* The smallest of some numbers.
LEMMA MinFacts ==
    ASSUME NEW S \in SUBSET Int, IsFiniteSet(S), S # {}
    PROVE  Min(S) \in S /\ \A y \in S : Min(S) <= y
<1> DEFINE R == {p \in S \X S : p[1] > p[2]}
<1>1. PICK m \in S : \A y \in S \ {m} : <<y, m>> \in R
  <2>1. TotalOrder(R, S)
    BY DEF TotalOrder
  <2> HIDE DEF R
  <2> QED
    BY <2>1, LastOfAll
<1>2. \A y \in S : m <= y
  <2>1. \A x, y \in S : <<x, y>> \in R => x > y
    OBVIOUS
  <2>2. \A y \in S : y = m \/ y > m
    BY <1>1, <2>1
  <2> QED
    BY <2>2
<1> QED
  BY <1>1, <1>2 DEF Min

\* What two sequences have, one after the other.
LEMMA JoinSet ==
    ASSUME NEW V, NEW s \in Seq(V), NEW t \in Seq(V)
    PROVE  s \o t \in Seq(V) /\ ToSet(s \o t) = ToSet(s) \cup ToSet(t)
<1>1. PICK m \in Nat, n \in Nat : m = Len(s) /\ n = Len(t)
  OBVIOUS
<1>2. PICK j : j = s \o t
  OBVIOUS
<1>3. /\ j \in Seq(V) /\ DOMAIN j = 1..m + n /\ DOMAIN s = 1..m /\ DOMAIN t = 1..n
      /\ \A k \in 1..m + n : j[k] = IF k <= m THEN s[k] ELSE t[k - m]
  BY <1>1, <1>2
<1>4. /\ \A k \in 1..m : k \in 1..m + n /\ j[k] = s[k]
      /\ \A k \in 1..n : m + k \in 1..m + n /\ j[m + k] = t[k]
      /\ \A k \in 1..m + n : k \in 1..m \/ (k - m \in 1..n /\ j[k] = t[k - m])
  BY <1>3
<1>5. ToSet(j) \subseteq ToSet(s) \cup ToSet(t)
  <2> SUFFICES ASSUME NEW k \in 1..m + n PROVE j[k] \in ToSet(s) \/ j[k] \in ToSet(t)
    BY <1>3 DEF ToSet
  <2>1. CASE k \in 1..m
    BY <1>3, <1>4, <2>1 DEF ToSet
  <2>2. CASE k - m \in 1..n /\ j[k] = t[k - m]
    BY <1>3, <2>2 DEF ToSet
  <2> QED
    BY <1>4, <2>1, <2>2
<1>6. ToSet(s) \subseteq ToSet(j)
  <2> SUFFICES ASSUME NEW k \in 1..m PROVE \E i \in 1..m + n : j[i] = s[k]
    BY <1>3 DEF ToSet
  <2> QED
    BY <1>4
<1>7. ToSet(t) \subseteq ToSet(j)
  <2>1. ToSet(t) = {t[k] : k \in 1..n} /\ ToSet(j) = {j[k] : k \in 1..m + n}
    BY <1>3, Zenon DEF ToSet
  <2>2. ASSUME NEW k \in 1..n PROVE t[k] \in {j[i] : i \in 1..m + n}
    <3>1. m + k \in 1..m + n /\ t[k] = j[m + k]
      BY <1>4
    <3> QED
      BY <3>1, Zenon
  <2> QED
    BY <2>1, <2>2, Zenon
<1> QED
  BY <1>2, <1>3, <1>5, <1>6, <1>7

\* A sequence has no more elements than places.
LEMMA ToSetFinite ==
    ASSUME NEW V, NEW s \in Seq(V)
    PROVE  IsFiniteSet(ToSet(s)) /\ Cardinality(ToSet(s)) \in Nat /\ Cardinality(ToSet(s)) <= Len(s)
<1>1. PICK n \in Nat : n = Len(s)
  OBVIOUS
<1>2. PICK T : T = ToSet(s)
  OBVIOUS
<1>3. s \in Surjection(1..n, T)
  BY <1>1, <1>2 DEF ToSet, Surjection
<1>4. IsFiniteSet(1..n) /\ Cardinality(1..n) = n
  <2>1. Cardinality(1..n) = IF 1 > n THEN 0 ELSE n - 1 + 1
    BY FS_Interval
  <2> QED
    BY <2>1, FS_Interval
<1>5. IsFiniteSet(T) /\ Cardinality(T) <= n
  BY <1>3, <1>4, FS_Surjection
<1> QED
  BY <1>1, <1>2, <1>5, FS_CardinalityType

\* How many numbers there are up to n.
LEMMA CountTo == ASSUME NEW n \in Nat PROVE IsFiniteSet(1..n) /\ Cardinality(1..n) = n
<1>1. IsFiniteSet(1..n) /\ Cardinality(1..n) = IF 1 > n THEN 0 ELSE n - 1 + 1
  BY FS_Interval
<1> QED
  BY <1>1

\* No element is there twice.
Once(s) == \A i, j \in DOMAIN s : s[i] = s[j] => i = j

LEMMA OnceCounts ==
    ASSUME NEW V, NEW s \in Seq(V), Once(s)
    PROVE  IsFiniteSet(ToSet(s)) /\ Cardinality(ToSet(s)) = Len(s)
<1>1. PICK n \in Nat : n = Len(s) /\ DOMAIN s = 1..n
  OBVIOUS
<1>2. PICK T : T = ToSet(s)
  OBVIOUS
<1>3. s \in Surjection(1..n, T)
  BY <1>1, <1>2 DEF ToSet, Surjection
<1>4. s \in Injection(1..n, T)
  BY <1>1, <1>3 DEF Once, Injection, IsInjective, Surjection
<1>5. IsFiniteSet(1..n) /\ Cardinality(1..n) = n
  <2>1. IsFiniteSet(1..n) /\ Cardinality(1..n) = IF 1 > n THEN 0 ELSE n - 1 + 1
    BY FS_Interval
  <2> QED
    BY <2>1
<1>6. IsFiniteSet(T) /\ Cardinality(T) = n
  BY <1>3, <1>4, <1>5, FS_Surjection
<1> QED
  BY <1>1, <1>2, <1>6

\* A set in order: every member once.
LEMMA InSequence ==
    ASSUME NEW V, NEW S \in SUBSET V, IsFiniteSet(S), NEW R, TotalOrder(R, S)
    PROVE  /\ Sorted(S, R) \in Seq(V) /\ Len(Sorted(S, R)) = Cardinality(S) /\ ToSet(Sorted(S, R)) = S
           /\ Once(Sorted(S, R))
           /\ \A i, j \in DOMAIN Sorted(S, R) : i < j => <<Sorted(S, R)[i], Sorted(S, R)[j]>> \in R
<1>1. PICK q : q = Sorted(S, R)
  OBVIOUS
<1>2. PICK n \in Nat : n = Cardinality(S)
  BY SortedFacts
<1>3. Lists(q, S, R) /\ q \in Seq(S)
  BY <1>1, SortedFacts
<1>4. /\ q \in [1..n -> S] /\ DOMAIN q = 1..n /\ \A x \in S : \E k \in DOMAIN q : q[k] = x
      /\ \A i, j \in DOMAIN q : i < j => <<q[i], q[j]>> \in R
      /\ \A i, j \in DOMAIN q : q[i] = q[j] => i = j
  BY <1>2, <1>3 DEF Lists
<1>5. Len(q) = n
  BY <1>3, <1>4
<1>6. q \in Seq(V)
  <2>1. \A k \in 1..n : q[k] \in V
    BY <1>4
  <2>2. q = [k \in 1..n |-> q[k]]
    BY <1>4
  <2> QED
    BY <2>1, <2>2
<1>7. ToSet(q) = S
  BY <1>4 DEF ToSet
<1> QED
  BY <1>1, <1>2, <1>4, <1>5, <1>6, <1>7 DEF Once

\* One more number at the end of a list that does not have it.
LEMMA OneMore ==
    ASSUME NEW V, NEW v \in Seq(V), Once(v), NEW x \in V, x \notin ToSet(v)
    PROVE  /\ Append(v, x) \in Seq(V) /\ Len(Append(v, x)) = Len(v) + 1 /\ Once(Append(v, x))
           /\ Append(v, x)[1] = IF Len(v) = 0 THEN x ELSE v[1]
<1>1. PICK m \in Nat : m = Len(v) /\ DOMAIN v = 1..m
  OBVIOUS
<1>2. PICK q : q = Append(v, x)
  OBVIOUS
<1>3. q \in Seq(V) /\ Len(q) = m + 1 /\ DOMAIN q = 1..m + 1 /\ q[m + 1] = x /\ \A i \in 1..m : q[i] = v[i]
  BY <1>1, <1>2
<1>4. \A i \in 1..m : v[i] # x
  BY <1>1 DEF ToSet
<1>5. Once(q)
  <2> SUFFICES ASSUME NEW i \in 1..m + 1, NEW j \in 1..m + 1, q[i] = q[j] PROVE i = j
    BY <1>3 DEF Once
  <2>1. (i \in 1..m \/ i = m + 1) /\ (j \in 1..m \/ j = m + 1)
    OBVIOUS
  <2> QED
    BY <1>1, <1>3, <1>4, <2>1 DEF Once
<1>6. q[1] = IF m = 0 THEN x ELSE v[1]
  BY <1>3
<1> QED
  BY <1>1, <1>2, <1>3, <1>5, <1>6

\* There is one way to list a set of numbers upwards.
LEMMA ListedOnce ==
    ASSUME NEW S \in SUBSET Int, NEW n \in Nat, NEW p \in [1..n -> S], NEW q \in [1..n -> S],
           \A x \in S : \E k \in 1..n : p[k] = x, \A x \in S : \E k \in 1..n : q[k] = x,
           \A k, l \in 1..n : k < l => p[k] < p[l] /\ q[k] < q[l]
    PROVE  p = q
<1> DEFINE Same == {k \in Nat : \A i \in 1..n : i <= k => p[i] = q[i]}
<1>1. 0 \in Same
  OBVIOUS
<1>2. ASSUME NEW k \in Same PROVE k + 1 \in Same
  <2> SUFFICES ASSUME k + 1 \in 1..n PROVE p[k + 1] = q[k + 1]
    OBVIOUS
  <2>1. p[k + 1] \in Int /\ q[k + 1] \in Int
    OBVIOUS
  <2>2. ASSUME p[k + 1] < q[k + 1] PROVE FALSE
    <3>1. PICK j \in 1..n : q[j] = p[k + 1]
      OBVIOUS
    <3>2. j < k + 1
      BY <2>1, <2>2, <3>1
    <3> QED
      BY <2>1, <3>1, <3>2
  <2>3. ASSUME q[k + 1] < p[k + 1] PROVE FALSE
    <3>1. PICK j \in 1..n : p[j] = q[k + 1]
      OBVIOUS
    <3>2. j < k + 1
      BY <2>1, <2>3, <3>1
    <3> QED
      BY <2>1, <3>1, <3>2
  <2> QED
    BY <2>1, <2>2, <2>3
<1> HIDE DEF Same
<1>3. Same = Nat
  <2>1. Same \in SUBSET Nat
    BY DEF Same
  <2> QED
    BY <1>1, <1>2, <2>1, SetInduction
<1>4. ASSUME NEW i \in 1..n PROVE p[i] = q[i]
  <2>1. i \in Same
    BY <1>3
  <2> QED
    BY <2>1 DEF Same
<1> QED
  BY <1>4

\* One more at the end.
LEMMA SortedAppend ==
    ASSUME NEW T \in SUBSET Int, IsFiniteSet(T), NEW x \in Int, \A y \in T : y < x
    PROVE  Sorted(T \cup {x}, Ascending(T \cup {x})) = Append(Sorted(T, Ascending(T)), x)
<1>1. PICK U : U = T \cup {x}
  OBVIOUS
<1>2. PICK n \in Nat : n = Cardinality(T)
  BY FS_CardinalityType
<1>3. x \notin T /\ U \in SUBSET Int /\ IsFiniteSet(U) /\ Cardinality(U) = n + 1
  BY <1>1, <1>2, FS_AddElement
<1>4. PICK p : p = Sorted(T, Ascending(T))
  OBVIOUS
<1>5. PICK q : q = Sorted(U, Ascending(U))
  OBVIOUS
<1>6. Lists(p, T, Ascending(T)) /\ p \in Seq(T)
  BY <1>4, AscendingTotal, SortedFacts
<1>7. Lists(q, U, Ascending(U)) /\ q \in Seq(U)
  BY <1>3, <1>5, AscendingTotal, SortedFacts
<1>8. /\ p \in [1..n -> T] /\ \A y \in T : \E k \in 1..n : p[k] = y
      /\ \A k, l \in 1..n : k < l => p[k] < p[l]
  BY <1>2, <1>6 DEF Lists, Ascending
<1>9. /\ q \in [1..n + 1 -> U] /\ \A y \in U : \E k \in 1..n + 1 : q[k] = y
      /\ \A k, l \in 1..n + 1 : k < l => q[k] < q[l]
  BY <1>3, <1>7 DEF Lists, Ascending
<1>10. PICK r : r = Append(p, x)
  OBVIOUS
<1>11. /\ r \in [1..n + 1 -> U] /\ r[n + 1] = x /\ \A k \in 1..n : r[k] = p[k]
  <2>1. Len(p) = n
    BY <1>6, <1>8
  <2>2. p \in Seq(U)
    <3>1. \A k \in 1..n : p[k] \in U
      BY <1>1, <1>8
    <3> QED
      BY <1>6, <2>1, <3>1
  <2>3. r \in Seq(U) /\ Len(r) = n + 1 /\ DOMAIN r = 1..n + 1
    BY <1>1, <1>10, <2>1, <2>2
  <2>4. r[n + 1] = x /\ \A k \in 1..n : r[k] = p[k]
    BY <1>10, <2>1, <2>2
  <2> QED
    BY <2>3, <2>4
<1>12. /\ \A y \in U : \E k \in 1..n + 1 : r[k] = y
       /\ \A k, l \in 1..n + 1 : k < l => r[k] < r[l]
  <2>1. ASSUME NEW y \in U PROVE \E k \in 1..n + 1 : r[k] = y
    <3>1. CASE y = x
      BY <1>11, <3>1
    <3>2. CASE y # x
      <4>1. PICK k \in 1..n : p[k] = y
        BY <1>1, <1>8, <3>2
      <4> QED
        BY <1>11, <4>1
    <3> QED
      BY <3>1, <3>2
  <2>2. ASSUME NEW k \in 1..n + 1, NEW l \in 1..n + 1, k < l PROVE r[k] < r[l]
    <3>1. k \in 1..n /\ r[k] = p[k]
      BY <1>11, <2>2
    <3>2. CASE l = n + 1
      BY <1>8, <1>11, <3>1, <3>2
    <3>3. CASE l # n + 1
      BY <1>8, <1>11, <2>2, <3>1, <3>3
    <3> QED
      BY <3>2, <3>3
  <2> QED
    BY <2>1, <2>2
<1>13. q = r
  <2>1. PICK m \in Nat : m = n + 1
    OBVIOUS
  <2>2. \A k, l \in 1..m : k < l => q[k] < q[l] /\ r[k] < r[l]
    BY <1>9, <1>12, <2>1
  <2>3. q \in [1..m -> U] /\ r \in [1..m -> U]
    BY <1>9, <1>11, <2>1
  <2>4. (\A y \in U : \E k \in 1..m : q[k] = y) /\ (\A y \in U : \E k \in 1..m : r[k] = y)
    BY <1>9, <1>12, <2>1
  <2> QED
    BY <1>3, <2>2, <2>3, <2>4, ListedOnce, Zenon
<1> QED
  BY <1>1, <1>4, <1>5, <1>10, <1>13

\* Taking a value for each element, and one more.
LEMMA MapAppend ==
    ASSUME NEW V, NEW s \in Seq(V), NEW x \in V, NEW W, NEW g \in [V -> W]
    PROVE  /\ [k \in DOMAIN s |-> g[s[k]]] \in Seq(W)
           /\ [k \in DOMAIN Append(s, x) |-> g[Append(s, x)[k]]] = Append([k \in DOMAIN s |-> g[s[k]]], g[x])
<1>1. PICK n \in Nat : n = Len(s) /\ DOMAIN s = 1..n
  OBVIOUS
<1>2. PICK a : a = Append(s, x)
  OBVIOUS
<1>3. a \in Seq(V) /\ Len(a) = n + 1 /\ DOMAIN a = 1..n + 1 /\ a[n + 1] = x /\ \A k \in 1..n : a[k] = s[k]
  BY <1>1, <1>2
<1>4. PICK b : b = [k \in DOMAIN s |-> g[s[k]]]
  OBVIOUS
<1>5. b \in Seq(W) /\ Len(b) = n
  <2>1. \A k \in 1..n : g[s[k]] \in W
    BY <1>1
  <2> QED
    BY <1>1, <1>4, <2>1
<1>6. PICK c : c = Append(b, g[x])
  OBVIOUS
<1>7. c \in Seq(W) /\ DOMAIN c = 1..n + 1 /\ c[n + 1] = g[x] /\ \A k \in 1..n : c[k] = b[k]
  BY <1>5, <1>6
<1>8. \A k \in 1..n + 1 : c[k] = g[a[k]]
  BY <1>1, <1>3, <1>4, <1>7
<1>9. c = [k \in 1..n + 1 |-> g[a[k]]]
  BY <1>7, <1>8
<1> QED
  BY <1>2, <1>3, <1>4, <1>5, <1>6, <1>9

-----------------------------------------------------------------------------
(* The lines of a text. *)
=============================================================================
