------------------------------ MODULE Induction ------------------------------
(***************************************************************************)
(* Induction for the proofs of the other modules, stated about sets: the   *)
(* induction theorems of the library quantify over an operator, which the  *)
(* provers cannot instantiate, but the well-foundedness of the natural     *)
(* numbers and the theorem on minimal elements that it goes with do not.   *)
(***************************************************************************)
EXTENDS Integers, FiniteSets, Functions, FiniteSetTheorems, WellFoundedInduction, TLAPS

Less == {p \in Nat \X Nat : p[1] < p[2]}

\* The natural numbers are well-founded.
LEMMA LessWellFounded == IsWellFoundedOn(Less, Nat)
BY NatLessThanWellFounded DEF OpToRel, Less

\* A set that holds 0 and the successors of its members holds all numbers.
LEMMA Naturals_Induction ==
  ASSUME NEW S, 0 \in S, \A n \in Nat : n \in S => n + 1 \in S
  PROVE  Nat \subseteq S
<1> DEFINE T == Nat \ S
<1> SUFFICES ASSUME T # {} PROVE FALSE
  OBVIOUS
<1>1. PICK x \in T : \A y \in T : <<y, x>> \notin Less
  <2> T \subseteq Nat
    OBVIOUS
  <2> HIDE DEF T
  <2> QED
    BY LessWellFounded, WFMin
<1>2. x - 1 \in Nat
  OBVIOUS
<1>3. <<x - 1, x>> \in Less
  BY <1>2 DEF Less
<1>4. x - 1 \in S
  BY <1>1, <1>2, <1>3
<1> QED
  BY <1>2, <1>4

\* A property of the empty set that adding an element keeps holds of every
\* finite set.
LEMMA Sets_Induction ==
  ASSUME NEW S, IsFiniteSet(S), NEW F, {} \in F,
         \A T \in SUBSET S : \A x \in S \ T : T \in F => T \cup {x} \in F
  PROVE  S \in F
<1> DEFINE N == {n \in Nat : \A T \in SUBSET S : Cardinality(T) = n => T \in F}
<1>1. \A T \in SUBSET S : IsFiniteSet(T) /\ Cardinality(T) \in Nat
  BY FS_Subset, FS_CardinalityType
<1>2. 0 \in N
  BY <1>1, FS_EmptySet
<1>3. ASSUME NEW n \in Nat, n \in N PROVE n + 1 \in N
  <2> SUFFICES ASSUME NEW T \in SUBSET S, Cardinality(T) = n + 1 PROVE T \in F
    OBVIOUS
  <2>0. \A U \in SUBSET S : Cardinality(U) = n => U \in F
    BY <1>3
  <2> HIDE DEF N
  <2>1. T # {}
    <3>1. IsFiniteSet(T) /\ Cardinality(T) # 0
      BY <1>1
    <3> QED
      BY <3>1, FS_EmptySet
  <2>2. PICK x \in T : TRUE
    BY <2>1
  <2>3. Cardinality(T \ {x}) = n
    <3>1. IsFiniteSet(T) /\ Cardinality(T) \in Nat
      BY <1>1
    <3>2. Cardinality(T \ {x}) = Cardinality(T) - 1
      BY <2>2, <3>1, FS_RemoveElement
    <3> QED
      BY <3>2
  <2>4. T \ {x} \in F
    BY <2>0, <2>3
  <2> DEFINE U == T \ {x}
  <2>5. U \in SUBSET S /\ x \in S \ U /\ U \in F /\ T = U \cup {x}
    BY <2>2, <2>4
  <2> HIDE DEF U
  <2> QED
    BY <2>5
<1>4. Nat \subseteq N
  <2> HIDE DEF N
  <2> QED
    BY <1>2, <1>3, Naturals_Induction
<1> QED
  BY <1>1, <1>4

\* The initial segments of the function that starts with v and goes on with step.
Segment(V, v, step, n) ==
    {f \in [0..n -> V] : f[0] = v /\ \A i \in 0..(n - 1) : f[i + 1] = step[<<i, f[i]>>]}

\* The functions that start with v and go on with step.
Iterates(V, v, step) ==
    {f \in [Nat -> V] : f[0] = v /\ \A n \in Nat : f[n + 1] = step[<<n, f[n]>>]}

\* A function may be defined by its first value and by what follows each value.
LEMMA PrimitiveRecursion ==
  ASSUME NEW V, NEW v \in V, NEW step \in [Nat \X V -> V]
  PROVE  Iterates(V, v, step) # {}
<1> DEFINE Some == {n \in Nat : Segment(V, v, step, n) # {}}
           Agree == {n \in Nat : \A k, l \in Nat :
                       \A f \in Segment(V, v, step, k), g \in Segment(V, v, step, l) :
                         n <= k /\ n <= l => f[n] = g[n]}
<1>1. 0 \in Some
  <2>1. [i \in 0..0 |-> v] \in Segment(V, v, step, 0)
    BY DEF Segment
  <2> QED
    BY <2>1
<1>2. ASSUME NEW n \in Nat, n \in Some PROVE n + 1 \in Some
  <2>1. PICK f \in Segment(V, v, step, n) : TRUE
    BY <1>2
  <2> DEFINE g == [i \in 0..(n + 1) |-> IF i <= n THEN f[i] ELSE step[<<n, f[n]>>]]
  <2>2. f \in [0..n -> V] /\ f[0] = v /\ \A i \in 0..(n - 1) : f[i + 1] = step[<<i, f[i]>>]
    BY DEF Segment
  <2>3. step[<<n, f[n]>>] \in V
    BY <2>2
  <2>4. g \in [0..(n + 1) -> V] /\ g[0] = v
    BY <2>2, <2>3
  <2>5. ASSUME NEW i \in 0..n PROVE g[i + 1] = step[<<i, g[i]>>]
    <3>1. g[i] = f[i]
      OBVIOUS
    <3>2. CASE i = n
      <4>1. i + 1 \in 0..(n + 1) /\ ~(i + 1 <= n)
        BY <3>2
      <4>2. g[i + 1] = step[<<n, f[n]>>]
        BY <4>1
      <4> QED
        BY <3>1, <3>2, <4>2
    <3>3. CASE i # n
      <4>1. i \in 0..(n - 1) /\ i + 1 \in 0..(n + 1) /\ i + 1 <= n
        BY <3>3
      <4> QED
        BY <2>2, <3>1, <4>1
    <3> QED
      BY <3>2, <3>3
  <2>6. g \in Segment(V, v, step, n + 1)
    <3> HIDE DEF g
    <3> QED
      BY <2>4, <2>5 DEF Segment
  <2> QED
    BY <2>6
<1>3. Nat \subseteq Some
  <2> HIDE DEF Some
  <2> QED
    BY <1>1, <1>2, Naturals_Induction
<1>4. 0 \in Agree
  BY DEF Segment
<1>5. ASSUME NEW n \in Nat, n \in Agree PROVE n + 1 \in Agree
  <2> SUFFICES ASSUME NEW k \in Nat, NEW l \in Nat,
                      NEW f \in Segment(V, v, step, k), NEW g \in Segment(V, v, step, l),
                      n + 1 <= k, n + 1 <= l
               PROVE  f[n + 1] = g[n + 1]
    OBVIOUS
  <2>1. f[n] = g[n]
    BY <1>5
  <2>2. f[n + 1] = step[<<n, f[n]>>] /\ g[n + 1] = step[<<n, g[n]>>]
    BY DEF Segment
  <2> QED
    BY <2>1, <2>2
<1>6. Nat \subseteq Agree
  <2> HIDE DEF Agree
  <2> QED
    BY <1>4, <1>5, Naturals_Induction
<1> DEFINE Up(n) == CHOOSE f \in Segment(V, v, step, n) : TRUE
           all == [n \in Nat |-> Up(n)[n]]
<1>7. \A n \in Nat : Up(n) \in Segment(V, v, step, n)
  BY <1>3
<1> HIDE DEF Up
<1>8. all \in [Nat -> V]
  BY <1>7 DEF Segment
<1>9. all[0] = v
  BY <1>7 DEF Segment
<1>10. ASSUME NEW n \in Nat PROVE all[n + 1] = step[<<n, all[n]>>]
  <2>1. Up(n + 1)[n + 1] = step[<<n, Up(n + 1)[n]>>]
    BY <1>7 DEF Segment
  <2>2. Up(n + 1)[n] = Up(n)[n]
    BY <1>6, <1>7
  <2> QED
    BY <2>1, <2>2
<1> HIDE DEF all
<1>11. all \in Iterates(V, v, step)
  BY <1>8, <1>9, <1>10 DEF Iterates
<1> QED
  BY <1>11

----------------------------------------------------------------------------
(* Sums over finite sets *)

First(T) == CHOOSE x \in T : TRUE

\* The equation of a sum that takes the elements in the order of CHOOSE.
Taking(f, S, sum) ==
    sum = [T \in SUBSET S |-> IF T = {} THEN 0
                              ELSE f[First(T)] + sum[T \ {First(T)}]]

\* SumFunctionOnSet is a value of a function that takes off one element after
\* another.
LEMMA SumIsTaken ==
  ASSUME NEW f, NEW S
  PROVE  SumFunctionOnSet(f, S) = (CHOOSE sum : Taking(f, S, sum))[S]
BY DEF SumFunctionOnSet, FoldFunctionOnSet, MapThenFoldSet, Taking, First

\* How that function goes from set to set.
LEMMA TakingUnfolds ==
  ASSUME NEW f, NEW S, NEW sum, Taking(f, S, sum)
  PROVE  /\ sum[{}] = 0
         /\ \A T \in SUBSET S : T # {} =>
              First(T) \in T /\ sum[T] = f[First(T)] + sum[T \ {First(T)}]
<1>1. \A T \in SUBSET S : T # {} => First(T) \in T
  BY DEF First
<1>2. \A T \in SUBSET S : sum[T] = IF T = {} THEN 0 ELSE f[First(T)] + sum[T \ {First(T)}]
  BY DEF Taking
<1> QED
  BY <1>1, <1>2

\* The equation has a solution.
LEMMA TakingExists ==
  ASSUME NEW S, IsFiniteSet(S), NEW f, \A x \in S : f[x] \in Int
  PROVE  \E sum \in [SUBSET S -> Int] : Taking(f, S, sum)
<1> DEFINE V == [SUBSET S -> Int]
           Next1(g) == [T \in SUBSET S |-> IF T = {} THEN 0 ELSE f[First(T)] + g[T \ {First(T)}]]
<1>0. \A T \in SUBSET S : T # {} => First(T) \in T
  BY DEF First
<1>1. \A g \in V : Next1(g) \in V
  BY <1>0
<1>2. [T \in SUBSET S |-> 0] \in V
  OBVIOUS
<1>3. PICK step \in [Nat \X V -> V] : \A n \in Nat, g \in V : step[<<n, g>>] = Next1(g)
  <2>1. [p \in Nat \X V |-> Next1(p[2])] \in [Nat \X V -> V]
    BY <1>1
  <2> HIDE DEF V, Next1
  <2> QED
    BY <2>1
<1>4. PICK F \in [Nat -> V] : \A n \in Nat : F[n + 1] = Next1(F[n])
  <2> HIDE DEF V, Next1
  <2>1. PICK v \in V : TRUE
    BY <1>2
  <2>2. Iterates(V, v, step) # {}
    BY PrimitiveRecursion
  <2>3. PICK F \in [Nat -> V] : \A n \in Nat : F[n + 1] = step[<<n, F[n]>>]
    BY <2>2 DEF Iterates
  <2> QED
    BY <1>3, <2>3
<1>5. \A n \in Nat, T \in SUBSET S :
        /\ T = {} => F[n + 1][T] = 0
        /\ T # {} => F[n + 1][T] = f[First(T)] + F[n][T \ {First(T)}]
  BY <1>4
<1>6. \A T \in SUBSET S : IsFiniteSet(T) /\ Cardinality(T) \in Nat
  BY FS_Subset, FS_CardinalityType
<1> DEFINE E == {n \in Nat : \A T \in SUBSET S : Cardinality(T) < n => F[n + 1][T] = F[n][T]}
<1>7. 0 \in E
  BY <1>6
<1>8. ASSUME NEW n \in Nat, n \in E PROVE n + 1 \in E
  <2> SUFFICES ASSUME NEW T \in SUBSET S, Cardinality(T) < n + 1
               PROVE  F[(n + 1) + 1][T] = F[n + 1][T]
    OBVIOUS
  <2>1. \A U \in SUBSET S : Cardinality(U) < n => F[n + 1][U] = F[n][U]
    BY <1>8
  <2> HIDE DEF E, V, Next1
  <2>2. CASE T = {}
    <3>1. n + 1 \in Nat
      OBVIOUS
    <3>2. F[(n + 1) + 1][T] = 0 /\ F[n + 1][T] = 0
      BY <1>5, <2>2, <3>1
    <3> QED
      BY <3>2
  <2>3. CASE T # {}
    <3>1. PICK x \in T : x = First(T)
      BY <1>0, <2>3
    <3>2. /\ F[(n + 1) + 1][T] = f[x] + F[n + 1][T \ {x}]
          /\ F[n + 1][T] = f[x] + F[n][T \ {x}]
      <4>1. n + 1 \in Nat
        OBVIOUS
      <4> QED
        BY <1>5, <2>3, <3>1, <4>1
    <3>3. Cardinality(T \ {x}) = Cardinality(T) - 1
      BY <1>6, FS_RemoveElement
    <3>4. Cardinality(T \ {x}) < n
      BY <1>6, <3>3
    <3> QED
      BY <2>1, <3>2, <3>4
  <2> QED
    BY <2>2, <2>3
<1>9. Nat \subseteq E
  <2> HIDE DEF E
  <2> QED
    BY <1>7, <1>8, Naturals_Induction
<1>10. PICK n \in Nat : n = Cardinality(S) + 1
  BY FS_CardinalityType
<1>11. ASSUME NEW T \in SUBSET S PROVE F[n + 1][T] = F[n][T]
  <2>1. Cardinality(T) < n
    BY <1>6, <1>10, FS_Subset, FS_CardinalityType
  <2> QED
    BY <1>9, <2>1
<1>12. F[n] \in V /\ F[n + 1] \in V /\ F[n + 1] = Next1(F[n])
  <2> HIDE DEF V, Next1, E
  <2>1. n + 1 \in Nat
    OBVIOUS
  <2> QED
    BY <1>4, <2>1
<1>13. F[n + 1] = F[n]
  <2> DEFINE g == F[n]
             h == F[n + 1]
  <2>1. g \in [SUBSET S -> Int] /\ h \in [SUBSET S -> Int] /\ \A T \in SUBSET S : h[T] = g[T]
    BY <1>11, <1>12
  <2> HIDE DEF g, h, V, Next1, E
  <2>2. h = g
    BY <2>1
  <2> QED
    BY <2>2 DEF g, h
<1>14. Taking(f, S, F[n])
  BY <1>12, <1>13 DEF Taking
<1> QED
  BY <1>12, <1>14

\* Solutions for functions that agree, on sets one of which contains the other,
\* agree.
LEMMA TakingAgrees ==
  ASSUME NEW S, IsFiniteSet(S), NEW T \in SUBSET S, NEW f, NEW g, \A x \in T : f[x] = g[x],
         NEW a, Taking(f, S, a), NEW b, Taking(g, T, b)
  PROVE  \A U \in SUBSET T : a[U] = b[U]
<1> DEFINE N == {n \in Nat : \A U \in SUBSET T : Cardinality(U) = n => a[U] = b[U]}
<1>1. \A U \in SUBSET T : IsFiniteSet(U) /\ Cardinality(U) \in Nat
  BY FS_Subset, FS_CardinalityType
<1>2. 0 \in N
  <2>1. \A U \in SUBSET T : Cardinality(U) = 0 => U = {}
    BY <1>1, FS_EmptySet
  <2>2. a[{}] = 0 /\ b[{}] = 0
    BY TakingUnfolds
  <2> QED
    BY <2>1, <2>2
<1>3. ASSUME NEW n \in Nat, n \in N PROVE n + 1 \in N
  <2> SUFFICES ASSUME NEW U \in SUBSET T, Cardinality(U) = n + 1 PROVE a[U] = b[U]
    OBVIOUS
  <2>1. \A W \in SUBSET T : Cardinality(W) = n => a[W] = b[W]
    BY <1>3
  <2> HIDE DEF N
  <2>2. U # {}
    <3>1. IsFiniteSet(U) /\ Cardinality(U) # 0
      BY <1>1
    <3> QED
      BY <3>1, FS_EmptySet
  <2> DEFINE x == First(U)
  <2>3. x \in U
    BY <2>2 DEF First
  <2>4. a[U] = f[x] + a[U \ {x}] /\ b[U] = g[x] + b[U \ {x}]
    <3>1. U \in SUBSET S
      OBVIOUS
    <3>2. a[U] = f[x] + a[U \ {x}]
      BY <2>2, <3>1, TakingUnfolds
    <3>3. b[U] = g[x] + b[U \ {x}]
      BY <2>2, TakingUnfolds
    <3> QED
      BY <3>2, <3>3
  <2> HIDE DEF x
  <2>5. Cardinality(U \ {x}) = n
    <3>1. IsFiniteSet(U)
      BY <1>1
    <3>2. Cardinality(U \ {x}) = Cardinality(U) - 1
      BY <2>3, <3>1, FS_RemoveElement
    <3> QED
      BY <3>2
  <2>6. a[U \ {x}] = b[U \ {x}] /\ f[x] = g[x]
    <3>1. U \ {x} \in SUBSET T /\ x \in T
      BY <2>3
    <3> QED
      BY <2>1, <2>5, <3>1
  <2> QED
    BY <2>4, <2>6
<1>4. Nat \subseteq N
  <2> HIDE DEF N
  <2> QED
    BY <1>2, <1>3, Naturals_Induction
<1> QED
  BY <1>1, <1>4

\* The functions from the subsets of S to the integers.
Measures(S) == [SUBSET S -> Int]

\* Any element may be taken first.
LEMMA TakingAny ==
  ASSUME NEW S, IsFiniteSet(S), NEW f, \A x \in S : f[x] \in Int,
         NEW a \in Measures(S), Taking(f, S, a), NEW U \in SUBSET S, NEW u \in U
  PROVE  a[U] = f[u] + a[U \ {u}]
<1> DEFINE N == {n \in Nat : \A T \in SUBSET S : Cardinality(T) = n => \A x \in T : a[T] = f[x] + a[T \ {x}]}
<1>1. \A T \in SUBSET S : IsFiniteSet(T) /\ Cardinality(T) \in Nat
  BY FS_Subset, FS_CardinalityType
<1>2. 0 \in N
  BY <1>1, FS_EmptySet
<1>3. ASSUME NEW n \in Nat, n \in N PROVE n + 1 \in N
  <2> SUFFICES ASSUME NEW T \in SUBSET S, Cardinality(T) = n + 1, NEW x \in T
               PROVE  a[T] = f[x] + a[T \ {x}]
    OBVIOUS
  <2>1. \A W \in SUBSET S : Cardinality(W) = n => \A y \in W : a[W] = f[y] + a[W \ {y}]
    BY <1>3
  <2> HIDE DEF N
  <2> DEFINE c == First(T)
  <2>2. c \in T
    BY DEF First
  <2>3. a[T] = f[c] + a[T \ {c}]
    BY TakingUnfolds
  <2> HIDE DEF c
  <2>4. CASE c = x
    BY <2>3, <2>4
  <2>5. CASE c # x
    <3>1. \A y \in T : Cardinality(T \ {y}) = n
      <4>1. \A y \in T : Cardinality(T \ {y}) = Cardinality(T) - 1
        BY <1>1, FS_RemoveElement
      <4> QED
        BY <4>1
    <3>2. a[T \ {c}] = f[x] + a[(T \ {c}) \ {x}]
      <4>1. T \ {c} \in SUBSET S /\ x \in T \ {c}
        BY <2>5
      <4> QED
        BY <2>1, <2>2, <3>1, <4>1
    <3>3. a[T \ {x}] = f[c] + a[(T \ {x}) \ {c}]
      <4>1. T \ {x} \in SUBSET S /\ c \in T \ {x}
        BY <2>2, <2>5
      <4> QED
        BY <2>1, <3>1, <4>1
    <3>4. (T \ {x}) \ {c} = (T \ {c}) \ {x}
      OBVIOUS
    <3> DEFINE rest == a[(T \ {c}) \ {x}]
    <3>5. f[x] \in Int /\ f[c] \in Int /\ rest \in Int
      BY <2>2 DEF Measures
    <3>6. a[T] = f[c] + (f[x] + rest) /\ a[T \ {x}] = f[c] + rest
      BY <2>3, <3>2, <3>3, <3>4
    <3> HIDE DEF rest
    <3> QED
      BY <3>5, <3>6
  <2> QED
    BY <2>4, <2>5
<1>4. Nat \subseteq N
  <2> HIDE DEF N
  <2> QED
    BY <1>2, <1>3, Naturals_Induction
<1> QED
  BY <1>1, <1>4

\* A sum is that of one element and the rest, in any order.
LEMMA SumOfNone == ASSUME NEW f PROVE SumFunctionOnSet(f, {}) = 0
<1>1. IsFiniteSet({})
  BY FS_EmptySet
<1>2. \E sum \in [SUBSET {} -> Int] : Taking(f, {}, sum)
  BY <1>1, TakingExists
<1> DEFINE sum == CHOOSE sum : Taking(f, {}, sum)
<1>3. Taking(f, {}, sum)
  BY <1>2
<1> HIDE DEF sum
<1>4. sum[{}] = 0
  BY <1>3, TakingUnfolds
<1> QED
  BY <1>4, SumIsTaken DEF sum

\* A sum depends only on the values over its set.
LEMMA SumOfSame ==
  ASSUME NEW S, IsFiniteSet(S), NEW f, NEW g, \A x \in S : f[x] = g[x] /\ f[x] \in Int
  PROVE  SumFunctionOnSet(f, S) = SumFunctionOnSet(g, S) /\ SumFunctionOnSet(f, S) \in Int
<1> DEFINE a == CHOOSE sum : Taking(f, S, sum)
           b == CHOOSE sum : Taking(g, S, sum)
<1>1. PICK c \in [SUBSET S -> Int] : Taking(f, S, c)
  BY TakingExists
<1>2. PICK d \in [SUBSET S -> Int] : Taking(g, S, d)
  BY TakingExists
<1>3. Taking(f, S, a) /\ Taking(g, S, b)
  BY <1>1, <1>2
<1> HIDE DEF a, b
<1>4. S \in SUBSET S /\ \A x \in S : f[x] = g[x]
  OBVIOUS
<1>5. a[S] = b[S]
  BY <1>3, <1>4, TakingAgrees
<1>6. c[S] = a[S]
  BY <1>1, <1>3, <1>4, TakingAgrees
<1> QED
  BY <1>1, <1>5, <1>6, SumIsTaken DEF a, b

\* A sum is that of any one element and of the rest.
LEMMA SumOfMore ==
  ASSUME NEW S, IsFiniteSet(S), NEW x \in S, NEW f, \A y \in S : f[y] \in Int
  PROVE  SumFunctionOnSet(f, S) = f[x] + SumFunctionOnSet(f, S \ {x})
<1> DEFINE R == S \ {x}
           a == CHOOSE sum : Taking(f, S, sum)
           b == CHOOSE sum : Taking(f, R, sum)
<1>1. IsFiniteSet(R) /\ R \in SUBSET S /\ \A y \in R : f[y] \in Int
  BY FS_Subset
<1> HIDE DEF R
<1>2. PICK c \in [SUBSET S -> Int] : Taking(f, S, c)
  BY TakingExists
<1>3. PICK d \in [SUBSET R -> Int] : Taking(f, R, d)
  BY <1>1, TakingExists
<1>4. Taking(f, S, a) /\ Taking(f, R, b)
  BY <1>2, <1>3
<1> HIDE DEF a, b
<1>5. c[S] = f[x] + c[R]
  <2>1. c \in Measures(S) /\ Taking(f, S, c)
    BY <1>2 DEF Measures
  <2>2. S \in SUBSET S
    OBVIOUS
  <2>3. c[S] = f[x] + c[S \ {x}]
    BY <2>1, <2>2, TakingAny
  <2> QED
    BY <2>3 DEF R
<1>6. c[S] = a[S]
  BY <1>2, <1>4, TakingAgrees
<1>7. c[R] = b[R]
  BY <1>1, <1>2, <1>4, TakingAgrees
<1> QED
  BY <1>5, <1>6, <1>7, SumIsTaken DEF a, b, R
\* A sum of natural numbers is one.
LEMMA SumOfNaturals ==
  ASSUME NEW S, IsFiniteSet(S), NEW f, \A y \in S : f[y] \in Nat
  PROVE  SumFunctionOnSet(f, S) \in Nat
<1> DEFINE F == {T \in SUBSET S : SumFunctionOnSet(f, T) \in Nat}
<1>1. {} \in F
  BY SumOfNone
<1>2. ASSUME NEW T \in SUBSET S, NEW x \in S \ T, T \in F PROVE T \cup {x} \in F
  <2> DEFINE U == T \cup {x}
  <2>1. IsFiniteSet(U) /\ U \in SUBSET S
    BY FS_Subset
  <2>2. x \in U /\ U \ {x} = T /\ f[x] \in Nat /\ \A y \in U : f[y] \in Int
    BY <2>1
  <2> HIDE DEF U
  <2>3. SumFunctionOnSet(f, U) = f[x] + SumFunctionOnSet(f, T)
    BY <2>1, <2>2, SumOfMore
  <2>4. SumFunctionOnSet(f, T) \in Nat
    BY <1>2
  <2> QED
    BY <2>1, <2>2, <2>3, <2>4 DEF U
<1>3. S \in F
  <2> HIDE DEF F
  <2> QED
    BY <1>1, <1>2, Sets_Induction
<1> QED
  BY <1>3
=============================================================================
