-------------------------- MODULE InductionLemmas --------------------------
(***************************************************************************)
(* Induction, and what recursive functions compute, for the proofs about   *)
(* the components: least numbers, finite sets that are built element by    *)
(* element, and sums over finite sets as Folds defines them. Induction is  *)
(* stated for sets of numbers and sets of sets.                            *)
(***************************************************************************)
EXTENDS Integers, FiniteSetTheorems, WellFoundedInduction, TLAPS

Lower == {pair \in Nat \X Nat : pair[1] < pair[2]}

\* The order of the numbers is well founded.
LEMMA LowerWellFounded == IsWellFoundedOn(Lower, Nat)
<1>1. OpToRel(<, Nat) = Lower
  BY DEF OpToRel, Lower
<1> QED
  BY <1>1, NatLessThanWellFounded, Zenon

\* A set of numbers has a least one.
LEMMA Least ==
  ASSUME NEW T, T \subseteq Nat, T # {}
  PROVE  \E x \in T : \A y \in T : x <= y
<1>1. PICK x \in T : \A y \in T : ~(<<y, x>> \in Lower)
  BY LowerWellFounded, WFMin
<1>2. ASSUME NEW y \in T PROVE x <= y
  <2>1. x \in Nat /\ y \in Nat /\ <<y, x>> \in Nat \X Nat
    OBVIOUS
  <2>2. ~(<<y, x>>[1] < <<y, x>>[2])
    BY <1>1, <2>1 DEF Lower
  <2> QED
    BY <2>1, <2>2
<1> QED
  BY <1>2

\* A bounded set of numbers has a greatest one.
LEMMA Greatest ==
  ASSUME NEW T, T \subseteq Nat, T # {}, NEW bound \in Nat, \A x \in T : x <= bound
  PROVE  \E x \in T : \A y \in T : y <= x
<1> DEFINE Left == {bound - x : x \in T}
<1>1. Left \subseteq Nat /\ Left # {}
  <2>1. \A x \in T : bound - x \in Nat
    OBVIOUS
  <2>2. Left \subseteq Nat
    BY <2>1
  <2>3. PICK x \in T : TRUE
    OBVIOUS
  <2>4. bound - x \in Left
    BY <2>3
  <2> QED
    BY <2>2, <2>4
<1>2. PICK m \in Left : \A y \in Left : m <= y
  BY <1>1, Least
<1>3. PICK x \in T : m = bound - x
  BY <1>2
<1>4. ASSUME NEW y \in T PROVE y <= x
  <2>1. bound - x <= bound - y
    BY <1>2, <1>3
  <2> QED
    BY <2>1
<1> QED
  BY <1>4

\* A set of numbers with zero and the successor of each of them has them all.
LEMMA NumberInduction ==
  ASSUME NEW T, T \subseteq Nat, 0 \in T, \A n \in T : n + 1 \in T
  PROVE  T = Nat
<1>1. SUFFICES ASSUME Nat \ T # {} PROVE FALSE
  OBVIOUS
<1>2. PICK x \in Nat \ T : \A y \in Nat \ T : x <= y
  BY <1>1, Least
<1>3. x # 0 /\ x - 1 \in Nat /\ ~(x <= x - 1)
  BY <1>2
<1>4. x - 1 \in T
  BY <1>2, <1>3
<1> QED
  BY <1>2, <1>3, <1>4

\* A finite set is in a family that has the empty set and grows by each element.
LEMMA FiniteInduction ==
  ASSUME NEW S, IsFiniteSet(S), NEW F, {} \in F,
         \A T \in F : T \subseteq S => \A x \in S \ T : T \cup {x} \in F
  PROVE  S \in F
<1> DEFINE Sizes == {Cardinality(T) : T \in {U \in F : U \subseteq S}}
<1>1. \A T \in SUBSET S : IsFiniteSet(T) /\ Cardinality(T) \in Nat /\ Cardinality(T) <= Cardinality(S)
  BY FS_Subset, FS_CardinalityType
<1>2. Cardinality({}) \in Sizes
  OBVIOUS
<1>3. Sizes \subseteq Nat /\ Sizes # {} /\ Cardinality(S) \in Nat /\ \A n \in Sizes : n <= Cardinality(S)
  BY <1>1, <1>2
<1>4. PICK m \in Sizes : \A n \in Sizes : n <= m
  <2> HIDE DEF Sizes
  <2> QED
    BY <1>3, Greatest
<1>5. PICK T \in F : T \subseteq S /\ m = Cardinality(T)
  BY <1>4
<1>6. ASSUME NEW x \in S \ T PROVE FALSE
  <2>1. T \cup {x} \in F /\ T \cup {x} \subseteq S
    BY <1>5, <1>6
  <2>2. Cardinality(T \cup {x}) = m + 1
    BY <1>1, <1>5, <1>6, FS_AddElement
  <2>3. m + 1 \in Sizes
    BY <2>1, <2>2
  <2>4. m \in Nat /\ m + 1 <= m
    <3> HIDE DEF Sizes
    <3> QED
      BY <1>3, <1>4, <2>3
  <2> QED
    BY <2>4
<1> QED
  BY <1>5, <1>6

\* A set of sets has one with the fewest elements.
LEMMA SmallestSet ==
  ASSUME NEW S, IsFiniteSet(S), NEW F, F \subseteq SUBSET S, F # {}
  PROVE  \E T \in F : \A U \in F : Cardinality(T) <= Cardinality(U)
<1> DEFINE Sizes == {Cardinality(T) : T \in F}
<1>1. \A T \in SUBSET S : Cardinality(T) \in Nat
  BY FS_Subset, FS_CardinalityType
<1>2. Sizes \subseteq Nat /\ Sizes # {}
  BY <1>1
<1>3. PICK m \in Sizes : \A n \in Sizes : m <= n
  <2> HIDE DEF Sizes
  <2> QED
    BY <1>2, Least
<1> QED
  BY <1>3

\* What a recursive definition over an interval that begins with a and takes
\* step s[n] to n computes.
Iterates(w, a, s, N) == w[0] = a /\ \A n \in 1 .. N : w[n] = s[n][w[n - 1]]

LEMMA Iteration ==
  ASSUME NEW A, NEW a \in A, NEW s \in [Nat -> [A -> A]], NEW N \in Nat
  PROVE  \E w \in [0 .. N -> A] : Iterates(w, a, s, N)
<1> DEFINE T == {n \in Nat : \E w \in [0 .. n -> A] : Iterates(w, a, s, n)}
<1>1. 0 \in T
  <2>1. [i \in 0 .. 0 |-> a] \in [0 .. 0 -> A] /\ Iterates([i \in 0 .. 0 |-> a], a, s, 0)
    BY DEF Iterates
  <2> QED
    BY <2>1
<1>2. ASSUME NEW n \in T PROVE n + 1 \in T
  <2>1. n \in Nat /\ n + 1 \in Nat
    OBVIOUS
  <2>2. PICK w \in [0 .. n -> A] : Iterates(w, a, s, n)
    OBVIOUS
  <2>3. PICK v : v = [i \in 0 .. n + 1 |-> IF i <= n THEN w[i] ELSE s[n + 1][w[n]]]
    OBVIOUS
  <2>4. w[n] \in A /\ s[n + 1][w[n]] \in A
    BY <2>1
  <2>5. \A i \in 0 .. n : v[i] = w[i]
    BY <2>1, <2>3
  <2>6. v[n + 1] = s[n + 1][w[n]]
    BY <2>1, <2>3
  <2>7. v \in [0 .. n + 1 -> A]
    BY <2>1, <2>3, <2>4
  <2>8. v[0] = a
    BY <2>1, <2>2, <2>5 DEF Iterates
  <2>9. ASSUME NEW i \in 1 .. n + 1 PROVE v[i] = s[i][v[i - 1]]
    <3>1. CASE i = n + 1
      BY <2>1, <2>5, <2>6, <3>1
    <3>2. CASE i # n + 1
      <4>1. i \in 1 .. n /\ i \in 0 .. n /\ i - 1 \in 0 .. n
        BY <2>1, <3>2
      <4> QED
        BY <2>2, <2>5, <4>1 DEF Iterates
    <3> QED
      BY <3>1, <3>2
  <2>10. Iterates(v, a, s, n + 1)
    BY <2>8, <2>9 DEF Iterates
  <2>11. \E u \in [0 .. n + 1 -> A] : Iterates(u, a, s, n + 1)
    <3> HIDE DEF T
    <3> QED
      BY <2>7, <2>10
  <2> QED
    BY ONLY <2>1, <2>11
<1>3. T = Nat
  <2>1. T \subseteq Nat
    OBVIOUS
  <2> HIDE DEF T
  <2> QED
    BY <1>1, <1>2, <2>1, NumberInduction
<1>4. N \in T
  BY <1>3
<1> QED
  BY <1>4

Agree(v, w, N) == \A n \in 0 .. N : v[n] = w[n]

\* Two functions that begin alike and go on alike are alike.
LEMMA Agreement ==
  ASSUME NEW N \in Nat, NEW v, NEW w, v[0] = w[0], \A n \in 1 .. N : v[n - 1] = w[n - 1] => v[n] = w[n]
  PROVE  Agree(v, w, N)
<1> DEFINE T == {n \in 0 .. N : v[n] # w[n]}
<1>1. SUFFICES ASSUME T # {} PROVE FALSE
  BY DEF Agree
<1>2. PICK n \in T : \A m \in T : n <= m
  <2>1. T \subseteq Nat
    OBVIOUS
  <2> HIDE DEF T
  <2> QED
    BY <1>1, <2>1, Least
<1>3. n \in 0 .. N /\ v[n] # w[n] /\ n # 0
  BY <1>2
<1>4. n \in 1 .. N /\ n - 1 \in 0 .. N /\ ~(n <= n - 1)
  BY <1>3
<1>5. v[n - 1] = w[n - 1]
  BY <1>2, <1>4
<1> QED
  BY <1>3, <1>4, <1>5

\* What holds at first and goes on holding holds at every step.
LEMMA Persistence ==
  ASSUME NEW N \in Nat, NEW T, 0 \in T, \A n \in 1 .. N : n - 1 \in T => n \in T
  PROVE  0 .. N \subseteq T
<1>1. SUFFICES ASSUME (0 .. N) \ T # {} PROVE FALSE
  OBVIOUS
<1>2. PICK n \in (0 .. N) \ T : \A m \in (0 .. N) \ T : n <= m
  <2>1. (0 .. N) \ T \subseteq Nat
    OBVIOUS
  <2> QED
    BY <1>1, <2>1, Least
<1>3. n \in 1 .. N /\ n - 1 \in 0 .. N /\ ~(n <= n - 1)
  BY <1>2
<1> QED
  BY <1>2, <1>3

\* A set of sets has one with the most elements.
LEMMA LargestSet ==
  ASSUME NEW S, IsFiniteSet(S), NEW F, F \subseteq SUBSET S, F # {}
  PROVE  \E T \in F : \A U \in F : Cardinality(U) <= Cardinality(T)
<1> DEFINE Sizes == {Cardinality(T) : T \in F}
<1>1. \A T \in SUBSET S : Cardinality(T) \in Nat /\ Cardinality(T) <= Cardinality(S)
  BY FS_Subset, FS_CardinalityType
<1>2. Sizes \subseteq Nat /\ Sizes # {} /\ Cardinality(S) \in Nat /\ \A n \in Sizes : n <= Cardinality(S)
  BY <1>1, FS_CardinalityType
<1>3. PICK m \in Sizes : \A n \in Sizes : n <= m
  <2> HIDE DEF Sizes
  <2> QED
    BY <1>2, Greatest
<1> QED
  BY <1>3

-----------------------------------------------------------------------------
(* Closures. A set that grows with each step until nothing is added.       *)

\* With as many steps as there are elements to add nothing is left to add.
LEMMA Saturation ==
  ASSUME NEW U, IsFiniteSet(U), NEW N \in Nat, NEW t \in [SUBSET U -> SUBSET U],
         \A X \in SUBSET U : X \subseteq t[X],
         NEW w \in [0 .. N -> SUBSET U], \A n \in 1 .. N : w[n] = t[w[n - 1]],
         Cardinality(U) <= Cardinality(w[0]) + N
  PROVE  t[w[N]] = w[N] /\ w[0] \subseteq w[N]
<1> DEFINE T == {n \in 0 .. N : /\ w[0] \subseteq w[n]
                                /\ t[w[n]] = w[n] \/ Cardinality(w[0]) + n <= Cardinality(w[n])}
<1>1. \A X \in SUBSET U : IsFiniteSet(X) /\ Cardinality(X) \in Nat
  BY FS_Subset, FS_CardinalityType
<1>2. w[0] \in SUBSET U
  OBVIOUS
<1>3. 0 \in T
  BY <1>1, <1>2
<1>4. ASSUME NEW n \in 1 .. N, n - 1 \in T PROVE n \in T
  <2>1. n - 1 \in 0 .. N /\ n \in 0 .. N /\ w[n - 1] \in SUBSET U /\ w[n] \in SUBSET U
    OBVIOUS
  <2>2. w[n] = t[w[n - 1]] /\ w[n - 1] \subseteq w[n] /\ w[0] \subseteq w[n - 1]
    BY <1>4, <2>1
  <2>3. CASE t[w[n - 1]] = w[n - 1]
    BY <2>1, <2>2, <2>3
  <2>4. CASE t[w[n - 1]] # w[n - 1]
    <3>1. Cardinality(w[0]) + (n - 1) <= Cardinality(w[n - 1])
      BY <1>4, <2>4
    <3>2. PICK x \in w[n] : x \notin w[n - 1]
      BY <2>2, <2>4
    <3>3. w[n - 1] \cup {x} \subseteq w[n] /\ w[n - 1] \cup {x} \in SUBSET U
      BY <2>1, <2>2, <3>2
    <3>4. Cardinality(w[n - 1] \cup {x}) = Cardinality(w[n - 1]) + 1
      BY <1>1, <2>1, <3>2, FS_AddElement
    <3>5. Cardinality(w[n - 1] \cup {x}) <= Cardinality(w[n])
      BY <1>1, <2>1, <3>3, FS_Subset
    <3>6. Cardinality(w[0]) \in Nat /\ Cardinality(w[n - 1]) \in Nat /\ Cardinality(w[n]) \in Nat
      BY <1>1, <1>2, <2>1
    <3>7. Cardinality(w[0]) + n <= Cardinality(w[n])
      BY <3>1, <3>4, <3>5, <3>6
    <3> QED
      BY <2>1, <2>2, <3>7
  <2> QED
    BY <2>3, <2>4
<1>5. N \in T
  <2>1. N \in 0 .. N
    OBVIOUS
  <2> HIDE DEF T
  <2> QED
    BY <1>3, <1>4, <2>1, Persistence
<1>6. CASE t[w[N]] = w[N]
  BY <1>5, <1>6
<1>7. CASE Cardinality(w[0]) + N <= Cardinality(w[N])
  <2>1. w[N] \in SUBSET U
    OBVIOUS
  <2>2. Cardinality(w[N]) \in Nat /\ Cardinality(U) \in Nat /\ Cardinality(w[N]) <= Cardinality(U)
    BY <1>1, <2>1, FS_Subset
  <2>3. Cardinality(w[N]) = Cardinality(U)
    BY <1>1, <1>2, <1>7, <2>2
  <2>4. w[N] = U
    BY <2>1, <2>3, FS_Subset
  <2>5. t[U] = U
    <3>1. U \in SUBSET U
      OBVIOUS
    <3>2. t[U] \in SUBSET U /\ U \subseteq t[U]
      BY <3>1
    <3> QED
      BY <3>2
  <2> QED
    BY <1>5, <2>4, <2>5
<1> QED
  BY <1>5, <1>6, <1>7

\* What is closed under the steps is not left.
LEMMA Containment ==
  ASSUME NEW N \in Nat, NEW w, NEW C, w[0] \subseteq C,
         \A n \in 1 .. N : w[n - 1] \subseteq C => w[n] \subseteq C
  PROVE  \A n \in 0 .. N : w[n] \subseteq C
<1> DEFINE T == {n \in 0 .. N : w[n] \subseteq C}
<1>1. 0 \in T
  OBVIOUS
<1>2. \A n \in 1 .. N : n - 1 \in T => n \in T
  OBVIOUS
<1>3. 0 .. N \subseteq T
  <2> HIDE DEF T
  <2> QED
    BY <1>1, <1>2, Persistence
<1> QED
  BY <1>3

-----------------------------------------------------------------------------
(* Enumerations                                                            *)

Enumerates(o, S) ==
  /\ o \in [1 .. Cardinality(S) -> S]
  /\ \A i, j \in 1 .. Cardinality(S) : o[i] = o[j] => i = j

\* A finite set has an enumeration, and each of them has all elements.
LEMMA EnumerationExists ==
  ASSUME NEW S, IsFiniteSet(S)
  PROVE  \E o : Enumerates(o, S)
<1>1. PICK o : o \in Bijection(1 .. Cardinality(S), S)
  BY FS_CardinalityType DEF ExistsBijection
<1> QED
  BY <1>1 DEF Bijection, Injection, IsInjective, Enumerates

LEMMA EnumerationCovers ==
  ASSUME NEW S, IsFiniteSet(S), NEW o, Enumerates(o, S)
  PROVE  \A x \in S : \E i \in 1 .. Cardinality(S) : o[i] = x
<1>1. PICK n \in Nat : n = Cardinality(S)
  BY FS_CardinalityType
<1>2. IsFiniteSet(1 .. n) /\ Cardinality(1 .. n) = n
  <2>1. IsFiniteSet(1 .. n) /\ Cardinality(1 .. n) = IF 1 > n THEN 0 ELSE n - 1 + 1
    BY ONLY n \in Nat, FS_Interval
  <2> QED
    BY <2>1
<1>3. o \in Injection(1 .. n, S)
  BY <1>1 DEF Enumerates, Injection, IsInjective
<1>4. o \in Surjection(1 .. n, S)
  BY <1>1, <1>2, <1>3, FS_Injection
<1> QED
  BY <1>1, <1>4 DEF Surjection

\* There is one in the order of a key.
Ordered(o, p, S) == \A i, j \in 1 .. Cardinality(S) : i < j => p[o[i]] <= p[o[j]]

LEMMA OrderedExists ==
  ASSUME NEW S, IsFiniteSet(S), NEW p, \A x \in S : p[x] \in Nat
  PROVE  \E o : Enumerates(o, S) /\ Ordered(o, p, S)
<1> DEFINE F == {T \in SUBSET S : /\ \E o : Enumerates(o, T) /\ Ordered(o, p, T)
                                  /\ \A x \in T, y \in S \ T : p[x] <= p[y]}
<1>1. {} \in F
  <2>1. Cardinality({}) = 0
    BY FS_EmptySet
  <2>2. PICK o : Enumerates(o, {})
    BY EnumerationExists, FS_EmptySet
  <2>3. Ordered(o, p, {})
    BY <2>1 DEF Ordered
  <2> QED
    BY <2>2, <2>3
<1>2. PICK T \in F : \A U \in F : Cardinality(U) <= Cardinality(T)
  <2>1. F \subseteq SUBSET S /\ F # {}
    BY <1>1
  <2> HIDE DEF F
  <2> QED
    BY <2>1, LargestSet
<1>3. PICK o : Enumerates(o, T) /\ Ordered(o, p, T)
  BY <1>2
<1>4. PICK n \in Nat : n = Cardinality(T)
  BY FS_Subset, FS_CardinalityType
<1>5. ASSUME T # S PROVE FALSE
  <2>1. PICK y \in S \ T : \A z \in S \ T : p[y] <= p[z]
    <3> DEFINE Keys == {p[z] : z \in S \ T}
    <3>1. Keys \subseteq Nat /\ Keys # {}
      BY <1>5
    <3>2. PICK k \in Keys : \A l \in Keys : k <= l
      <4> HIDE DEF Keys
      <4> QED
        BY <3>1, Least
    <3> QED
      BY <3>2
  <2>2. PICK V \in SUBSET S : V = T \cup {y}
    OBVIOUS
  <2>3. IsFiniteSet(T) /\ Cardinality(V) = n + 1
    BY <1>4, <2>1, <2>2, FS_Subset, FS_AddElement
  <2>4. PICK q : q = [i \in 1 .. n + 1 |-> IF i = n + 1 THEN y ELSE o[i]]
    OBVIOUS
  <2>5. /\ o \in [1 .. n -> T] /\ \A i, j \in 1 .. n : o[i] = o[j] => i = j
        /\ \A i, j \in 1 .. n : i < j => p[o[i]] <= p[o[j]]
    BY <1>3, <1>4 DEF Enumerates, Ordered
  <2>6. \A i \in 1 .. n + 1 : (i = n + 1 /\ q[i] = y) \/ (i \in 1 .. n /\ q[i] = o[i] /\ q[i] \in T)
    BY <2>4, <2>5
  <2>7. q \in [1 .. n + 1 -> V]
    BY <2>2, <2>4, <2>6
  <2>8. \A i, j \in 1 .. n + 1 : q[i] = q[j] => i = j
    BY <2>1, <2>5, <2>6
  <2>9. \A x \in T, z \in S \ T : p[x] <= p[z]
    OBVIOUS
  <2>10. ASSUME NEW i \in 1 .. n + 1, NEW j \in 1 .. n + 1, i < j PROVE p[q[i]] <= p[q[j]]
    <3>1. i \in 1 .. n /\ q[i] = o[i] /\ q[i] \in T
      BY <2>6, <2>10
    <3>2. CASE j = n + 1
      BY <2>1, <2>6, <2>9, <3>1, <3>2
    <3>3. CASE j # n + 1
      <4>1. j \in 1 .. n /\ q[j] = o[j]
        BY <2>6, <3>3
      <4> QED
        BY <2>5, <2>10, <3>1, <4>1
    <3> QED
      BY <3>2, <3>3
  <2>11. Enumerates(q, V) /\ Ordered(q, p, V)
    BY <2>3, <2>7, <2>8, <2>10 DEF Enumerates, Ordered
  <2>12. \A x \in V, z \in S \ V : p[x] <= p[z]
    BY <2>1, <2>2, <2>9
  <2>13. V \in F
    BY <2>11, <2>12
  <2>14. n + 1 <= n
    BY <1>2, <1>4, <2>3, <2>13
  <2> QED
    BY <2>14
<1> QED
  BY <1>3, <1>5

-----------------------------------------------------------------------------
(* Sums over finite sets. Folds takes the elements of a set in an order    *)
(* that CHOOSE gives; the sum does not depend on it.                       *)

First(s) == CHOOSE x \in s : TRUE

\* MapThenFoldSet of module Folds, for the sum of f over S.
Total(f, S) ==
  LET iter[s \in SUBSET S] == IF s = {} THEN 0 ELSE f[CHOOSE x \in s : TRUE] + iter[s \ {CHOOSE x \in s : TRUE}]
  IN iter[S]

\* g says of every subset of S what its sum is.
Sums(g, f, S) == \A s \in SUBSET S : g[s] = IF s = {} THEN 0 ELSE f[First(s)] + g[s \ {First(s)}]

\* The element that the fold takes next is one of the set.
LEMMA FirstIsIn == \A s : s # {} => First(s) \in s
BY DEF First

\* And leaves one element less.
LEMMA OneLess ==
  ASSUME NEW S, IsFiniteSet(S), NEW s \in SUBSET S, NEW x \in s
  PROVE  /\ s \ {x} \in SUBSET S /\ Cardinality(s \ {x}) = Cardinality(s) - 1
         /\ Cardinality(s) \in Nat \ {0} /\ IsFiniteSet(s)
<1>1. IsFiniteSet(s) /\ Cardinality(s) \in Nat /\ s # {}
  BY FS_Subset, FS_CardinalityType
<1>2. Cardinality(s \ {x}) = Cardinality(s) - 1 /\ Cardinality(s) # 0
  BY <1>1, FS_RemoveElement, FS_EmptySet
<1> QED
  BY <1>1, <1>2

\* Two such functions agree.
LEMMA SumsAgree ==
  ASSUME NEW S, IsFiniteSet(S), NEW f, NEW g, NEW h, Sums(g, f, S), Sums(h, f, S)
  PROVE  \A s \in SUBSET S : g[s] = h[s]
<1> DEFINE Bad == {s \in SUBSET S : g[s] # h[s]}
<1>1. SUFFICES ASSUME Bad # {} PROVE FALSE
  OBVIOUS
<1>2. PICK s \in Bad : \A t \in Bad : Cardinality(s) <= Cardinality(t)
  <2>1. Bad \subseteq SUBSET S
    OBVIOUS
  <2> HIDE DEF Bad
  <2> QED
    BY <1>1, <2>1, SmallestSet
<1>3. s \in SUBSET S /\ g[s] # h[s]
  BY <1>2
<1>4. s # {}
  BY <1>3 DEF Sums
<1>5. PICK x \in s : x = First(s)
  BY <1>4, FirstIsIn
<1>6. s \ {x} \in SUBSET S /\ ~(Cardinality(s) <= Cardinality(s \ {x}))
  BY <1>3, OneLess
<1>7. g[s \ {x}] = h[s \ {x}]
  BY <1>2, <1>6
<1>8. g[s] = f[x] + g[s \ {x}] /\ h[s] = f[x] + h[s \ {x}]
  BY <1>3, <1>4, <1>5 DEF Sums
<1> QED
  BY <1>3, <1>7, <1>8

\* There is one, found for larger and larger subsets.
LEMMA SumsExist ==
  ASSUME NEW S, IsFiniteSet(S), NEW f, \A x \in S : f[x] \in Nat
  PROVE  \E g \in [SUBSET S -> Nat] : Sums(g, f, S)
<1> DEFINE Small(n) == {s \in SUBSET S : Cardinality(s) <= n}
           Good(g, n) == \A s \in Small(n) : g[s] = IF s = {} THEN 0 ELSE f[First(s)] + g[s \ {First(s)}]
           T == {n \in Nat : \E g \in [SUBSET S -> Nat] : Good(g, n)}
<1>1. 0 \in T
  <2>1. \A s \in Small(0) : s = {}
    BY FS_Subset, FS_EmptySet, FS_CardinalityType
  <2>2. [s \in SUBSET S |-> 0] \in [SUBSET S -> Nat] /\ Good([s \in SUBSET S |-> 0], 0)
    BY <2>1
  <2> QED
    BY <2>2
<1>2. ASSUME NEW n \in T PROVE n + 1 \in T
  <2>1. n \in Nat
    OBVIOUS
  <2>2. PICK g \in [SUBSET S -> Nat] : Good(g, n)
    OBVIOUS
  <2>3. PICK h \in [SUBSET S -> Nat] :
          \A s \in SUBSET S : h[s] = IF Cardinality(s) <= n THEN g[s] ELSE f[First(s)] + g[s \ {First(s)}]
    <3> DEFINE h == [s \in SUBSET S |-> IF Cardinality(s) <= n THEN g[s] ELSE f[First(s)] + g[s \ {First(s)}]]
    <3>1. ASSUME NEW s \in SUBSET S, ~(Cardinality(s) <= n) PROVE f[First(s)] + g[s \ {First(s)}] \in Nat
      <4>1. s # {}
        <5>1. Cardinality({}) = 0
          BY FS_EmptySet
        <5>2. s = {} => Cardinality(s) = 0
          BY <5>1
        <5> HIDE DEF h, T, Good, Small
        <5> QED
          BY <2>1, <3>1, <5>2
      <4>2. First(s) \in s /\ s \ {First(s)} \in SUBSET S
        BY <4>1, FirstIsIn
      <4>3. f[First(s)] \in Nat /\ g[s \ {First(s)}] \in Nat
        BY <4>2
      <4> QED
        BY <4>3
    <3>2. h \in [SUBSET S -> Nat]
      BY <3>1
    <3> QED
      BY <3>2
  <2>4. ASSUME NEW s \in Small(n + 1)
        PROVE  h[s] = IF s = {} THEN 0 ELSE f[First(s)] + h[s \ {First(s)}]
    <3>1. CASE s = {}
      <4>1. Cardinality(s) <= n
        BY <2>1, <3>1, FS_EmptySet
      <4> QED
        BY <2>2, <2>3, <3>1, <4>1
    <3>2. CASE s # {}
      <4>1. PICK x \in s : x = First(s)
        BY <3>2, FirstIsIn
      <4>2. s \ {x} \in SUBSET S /\ Cardinality(s \ {x}) <= n /\ Cardinality(s) \in Nat
        BY <2>1, OneLess
      <4>3. h[s \ {x}] = g[s \ {x}]
        BY <2>3, <4>2
      <4>4. h[s] = f[x] + g[s \ {x}]
        BY <2>2, <2>3, <3>2, <4>1
      <4> QED
        BY <3>2, <4>1, <4>3, <4>4
    <3> QED
      BY <3>1, <3>2
  <2>5. Good(h, n + 1)
    BY <2>4
  <2>6. n + 1 \in Nat
    BY <2>1
  <2>7. \E k \in [SUBSET S -> Nat] : Good(k, n + 1)
    <3> HIDE DEF Good, Small, T
    <3> QED
      BY <2>5
  <2> HIDE DEF Good, Small
  <2> QED
    BY ONLY <2>6, <2>7
<1>3. T = Nat
  <2>1. T \subseteq Nat
    OBVIOUS
  <2> HIDE DEF T
  <2> QED
    BY <1>1, <1>2, <2>1, NumberInduction
<1>4. Cardinality(S) \in Nat
  BY FS_CardinalityType
<1>5. PICK g \in [SUBSET S -> Nat] : Good(g, Cardinality(S))
  <2>1. Cardinality(S) \in T
    BY <1>3, <1>4
  <2> HIDE DEF Good, Small
  <2> QED
    BY <2>1
<1>6. Small(Cardinality(S)) = SUBSET S
  BY FS_Subset
<1> QED
  BY <1>5, <1>6 DEF Sums

\* Total finds such a function.
SumsToTotals(g, f, S) == Sums(g, f, S) /\ \A s \in SUBSET S : Total(f, s) = g[s]

\* It does, since there is one and two of them agree.
LEMMA TotalSums ==
  ASSUME NEW S, IsFiniteSet(S), NEW f, \A x \in S : f[x] \in Nat
  PROVE  \E g \in [SUBSET S -> Nat] : SumsToTotals(g, f, S)
<1>1. PICK g \in [SUBSET S -> Nat] : Sums(g, f, S)
  BY SumsExist
<1>2. ASSUME NEW s \in SUBSET S PROVE Total(f, s) = g[s]
  <2> DEFINE Step(h) == [t \in SUBSET s |-> IF t = {} THEN 0 ELSE f[First(t)] + h[t \ {First(t)}]]
             here == [t \in SUBSET s |-> g[t]]
  <2>1. here = Step(here)
    <3>1. ASSUME NEW t \in SUBSET s PROVE here[t] = Step(here)[t]
      <4>1. g[t] = IF t = {} THEN 0 ELSE f[First(t)] + g[t \ {First(t)}]
        BY <1>1 DEF Sums
      <4>2. t \ {First(t)} \in SUBSET s
        OBVIOUS
      <4> QED
        BY <4>1, <4>2
    <3> QED
      BY <3>1
  <2>2. PICK it : it = Step(it) /\ Total(f, s) = it[s]
    <3>1. (CHOOSE h : h = Step(h)) = Step(CHOOSE h : h = Step(h))
      BY <2>1
    <3>2. Total(f, s) = (CHOOSE h : h = Step(h))[s]
      BY DEF Total, First
    <3> QED
      BY <3>1, <3>2
  <2>3. Sums(it, f, s)
    BY <2>2 DEF Sums
  <2>4. Sums(g, f, s)
    BY <1>1 DEF Sums
  <2>5. IsFiniteSet(s)
    BY FS_Subset
  <2> QED
    BY <2>2, <2>3, <2>4, <2>5, SumsAgree
<1> QED
  BY <1>1, <1>2 DEF SumsToTotals

\* A sum is that without an element and the element.
LEMMA TotalTakes ==
  ASSUME NEW S, IsFiniteSet(S), NEW f, \A x \in S : f[x] \in Nat
  PROVE  /\ Total(f, {}) = 0 /\ Total(f, S) \in Nat
         /\ \A x \in S : Total(f, S) = f[x] + Total(f, S \ {x})
<1>1. PICK g \in [SUBSET S -> Nat] : SumsToTotals(g, f, S)
  BY TotalSums
<1> USE DEF SumsToTotals
<1> DEFINE Bad == {s \in SUBSET S : \E x \in s : g[s] # f[x] + g[s \ {x}]}
<1>2. Bad = {}
  <2>1. SUFFICES ASSUME Bad # {} PROVE FALSE
    OBVIOUS
  <2>2. PICK s \in Bad : \A t \in Bad : Cardinality(s) <= Cardinality(t)
    <3>1. Bad \subseteq SUBSET S
      OBVIOUS
    <3> HIDE DEF Bad
    <3> QED
      BY <2>1, <3>1, SmallestSet
  <2>3. PICK x \in s : g[s] # f[x] + g[s \ {x}]
    BY <2>2
  <2>4. PICK c \in s : c = First(s)
    BY <2>3, FirstIsIn
  <2>5. s \in SUBSET S /\ g[s] = f[c] + g[s \ {c}]
    BY <1>1, <2>2, <2>4 DEF Sums
  <2>6. x # c
    BY <2>3, <2>5
  <2>7. /\ s \ {c} \in SUBSET S /\ ~(Cardinality(s) <= Cardinality(s \ {c}))
        /\ s \ {x} \in SUBSET S /\ ~(Cardinality(s) <= Cardinality(s \ {x}))
    BY <2>5, OneLess
  <2>8. s \ {c} \notin Bad /\ s \ {x} \notin Bad
    BY <2>2, <2>7
  <2>9. g[s \ {c}] = f[x] + g[(s \ {c}) \ {x}] /\ g[s \ {x}] = f[c] + g[(s \ {x}) \ {c}]
    BY <2>6, <2>7, <2>8
  <2>10. (s \ {c}) \ {x} = (s \ {x}) \ {c} /\ (s \ {x}) \ {c} \in SUBSET S
    BY <2>5
  <2>11. PICK r \in Nat : r = g[(s \ {x}) \ {c}]
    BY <2>10
  <2>12. f[x] \in Nat /\ f[c] \in Nat
    BY <2>5
  <2>13. g[s] = f[c] + (f[x] + r) /\ g[s \ {x}] = f[c] + r
    BY <2>5, <2>9, <2>10, <2>11
  <2> QED
    BY <2>3, <2>11, <2>12, <2>13
<1>3. Total(f, {}) = 0
  BY <1>1 DEF Sums
<1>4. Total(f, S) \in Nat
  BY <1>1
<1>5. ASSUME NEW x \in S PROVE Total(f, S) = f[x] + Total(f, S \ {x})
  <2>1. S \in SUBSET S /\ S \ {x} \in SUBSET S
    OBVIOUS
  <2> QED
    BY <1>1, <1>2, <2>1
<1> QED
  BY <1>3, <1>4, <1>5

\* It grows with the values at the elements.
LEMMA TotalGrows ==
  ASSUME NEW S, IsFiniteSet(S), NEW f, NEW h, \A x \in S : f[x] \in Nat /\ h[x] \in Nat /\ f[x] <= h[x]
  PROVE  Total(f, S) <= Total(h, S)
<1> DEFINE F == {T \in SUBSET S : Total(f, T) <= Total(h, T)}
<1>1. {} \in F
  <2>1. Total(f, {}) = 0 /\ Total(h, {}) = 0
    BY TotalTakes
  <2> QED
    BY <2>1
<1>2. ASSUME NEW T \in F, NEW x \in S \ T PROVE T \cup {x} \in F
  <2>0. T \cup {x} \in SUBSET S /\ (T \cup {x}) \ {x} = T
    OBVIOUS
  <2>1. PICK U \in SUBSET S : U = T \cup {x} /\ x \in U /\ U \ {x} = T
    BY <2>0
  <2>2. IsFiniteSet(U) /\ IsFiniteSet(T)
    BY <2>1, FS_Subset
  <2>3. Total(f, U) = f[x] + Total(f, T) /\ Total(h, U) = h[x] + Total(h, T)
    BY <2>1, <2>2, TotalTakes
  <2>4. Total(f, T) \in Nat /\ Total(h, T) \in Nat
    BY <2>2, TotalTakes
  <2>5. Total(f, U) <= Total(h, U)
    BY <2>3, <2>4
  <2> QED
    BY <2>1, <2>5
<1>3. S \in F
  <2> HIDE DEF F
  <2> QED
    BY <1>1, <1>2, FiniteInduction
<1> QED
  BY <1>3

\* Functions that agree on a set have the same sum.
LEMMA TotalAgrees ==
  ASSUME NEW S, IsFiniteSet(S), NEW f, NEW h, \A x \in S : f[x] \in Nat /\ f[x] = h[x]
  PROVE  Total(f, S) = Total(h, S)
<1>1. Total(f, S) <= Total(h, S) /\ Total(h, S) <= Total(f, S)
  BY TotalGrows
<1>2. Total(f, S) \in Nat /\ Total(h, S) \in Nat
  BY TotalTakes
<1> QED
  BY <1>1, <1>2

\* Where one value changes the sum changes by the difference.
LEMMA TotalChanges ==
  ASSUME NEW S, IsFiniteSet(S), NEW f, NEW h, NEW x \in S,
         \A y \in S : f[y] \in Nat /\ h[y] \in Nat /\ (y # x => f[y] = h[y])
  PROVE  /\ Total(f, S) \in Nat /\ Total(h, S) \in Nat
         /\ Total(h, S) = Total(f, S) - f[x] + h[x] /\ f[x] <= Total(f, S)
<1>1. IsFiniteSet(S \ {x})
  BY FS_RemoveElement
<1>2. Total(f, S \ {x}) = Total(h, S \ {x}) /\ Total(f, S \ {x}) \in Nat
  BY <1>1, TotalAgrees, TotalTakes
<1>3. /\ Total(f, S) = f[x] + Total(f, S \ {x}) /\ Total(h, S) = h[x] + Total(h, S \ {x})
      /\ Total(f, S) \in Nat /\ Total(h, S) \in Nat
  BY TotalTakes
<1> QED
  BY <1>2, <1>3

Added(f, x, d) == [f EXCEPT ![x] = @ + d]

\* What is added to one value is added to the sum.
LEMMA TotalAdds ==
  ASSUME NEW S, IsFiniteSet(S), NEW f \in [S -> Nat], NEW x \in S, NEW d \in Nat
  PROVE  Added(f, x, d) \in [S -> Nat] /\ Total(f, S) \in Nat /\ Total(Added(f, x, d), S) = Total(f, S) + d
<1>0. f[x] + d \in Nat
  OBVIOUS
<1>1. PICK h \in [S -> Nat] : h = Added(f, x, d) /\ h = [f EXCEPT ![x] = @ + d]
  BY <1>0 DEF Added
<1>2. h[x] = f[x] + d /\ f[x] \in Nat
  BY <1>1
<1>3. \A y \in S : f[y] \in Nat /\ h[y] \in Nat /\ (y # x => f[y] = h[y])
  BY <1>1
<1>4. IsFiniteSet(S \ {x})
  BY FS_RemoveElement
<1>5. \A y \in S \ {x} : f[y] \in Nat /\ f[y] = h[y]
  BY <1>3
<1>6. Total(f, S \ {x}) = Total(h, S \ {x}) /\ Total(f, S \ {x}) \in Nat
  BY <1>4, <1>5, TotalAgrees, TotalTakes
<1>7. Total(f, S) = f[x] + Total(f, S \ {x}) /\ Total(f, S) \in Nat
  BY <1>3, TotalTakes
<1>8. Total(h, S) = h[x] + Total(h, S \ {x})
  BY <1>3, TotalTakes
<1>9. Total(h, S) = Total(f, S) + d
  BY <1>2, <1>6, <1>7, <1>8
<1> QED
  BY <1>1, <1>7, <1>9

\* The sum of zeros.
LEMMA TotalOfZeros ==
  ASSUME NEW S, IsFiniteSet(S), NEW f, \A x \in S : f[x] = 0
  PROVE  Total(f, S) = 0
<1> DEFINE F == {T \in SUBSET S : Total(f, T) = 0}
<1>1. {} \in F
  BY FS_EmptySet, TotalTakes
<1>2. ASSUME NEW T \in F, NEW x \in S \ T PROVE T \cup {x} \in F
  <2>0. T \cup {x} \in SUBSET S /\ (T \cup {x}) \ {x} = T
    OBVIOUS
  <2>1. PICK U \in SUBSET S : U = T \cup {x} /\ x \in U /\ U \ {x} = T
    BY <2>0
  <2>2. IsFiniteSet(U)
    BY <2>1, FS_Subset
  <2>3. Total(f, U) = f[x] + Total(f, T)
    BY <2>1, <2>2, TotalTakes
  <2> QED
    BY <2>1, <2>3
<1>3. S \in F
  <2> HIDE DEF F
  <2> QED
    BY <1>1, <1>2, FiniteInduction
<1> QED
  BY <1>3

\* The sum over two disjoint sets.
LEMMA TotalOfTwo ==
  ASSUME NEW S, IsFiniteSet(S), NEW R, IsFiniteSet(R), S \cap R = {}, NEW f, \A x \in S \cup R : f[x] \in Nat
  PROVE  Total(f, S \cup R) = Total(f, S) + Total(f, R)
<1> DEFINE F == {T \in SUBSET S : Total(f, T \cup R) = Total(f, T) + Total(f, R)}
<1>0. Total(f, R) \in Nat
  BY TotalTakes
<1>1. {} \in F
  <2>1. Total(f, {}) = 0 /\ {} \cup R = R
    BY TotalTakes
  <2> QED
    BY <1>0, <2>1
<1>2. ASSUME NEW T \in F, NEW x \in S \ T PROVE T \cup {x} \in F
  <2>0. /\ T \cup {x} \in SUBSET S /\ (T \cup {x}) \ {x} = T
        /\ ((T \cup {x}) \cup R) \ {x} = T \cup R
    OBVIOUS
  <2>1. PICK U, V : /\ U \in SUBSET S /\ U = T \cup {x} /\ x \in U /\ U \ {x} = T
                    /\ V = U \cup R /\ x \in V /\ V \ {x} = T \cup R
    BY <2>0
  <2>2. IsFiniteSet(U) /\ IsFiniteSet(V) /\ IsFiniteSet(T)
    BY <2>1, FS_Subset, FS_Union
  <2>3. Total(f, U) = f[x] + Total(f, T)
    BY <2>1, <2>2, TotalTakes
  <2>6. \A y \in V : f[y] \in Nat
    BY <2>1
  <2>7. Total(f, V) = f[x] + Total(f, V \ {x})
    BY <2>1, <2>2, <2>6, TotalTakes
  <2>8. Total(f, V) = f[x] + Total(f, T \cup R)
    BY <2>1, <2>7
  <2>4. Total(f, T) \in Nat /\ f[x] \in Nat
    BY <2>2, TotalTakes
  <2>5. Total(f, V) = Total(f, U) + Total(f, R)
    BY <1>0, <2>1, <2>3, <2>4, <2>8
  <2> QED
    BY <2>1, <2>5
<1>3. S \in F
  <2> HIDE DEF F
  <2> QED
    BY <1>1, <1>2, FiniteInduction
<1> QED
  BY <1>3

\* A part sums up to no more than the whole.
LEMMA TotalOfPart ==
  ASSUME NEW S, IsFiniteSet(S), NEW T, T \subseteq S, NEW f, \A x \in S : f[x] \in Nat
  PROVE  Total(f, T) <= Total(f, S) /\ Total(f, T) \in Nat /\ Total(f, S) \in Nat
<1>1. IsFiniteSet(T) /\ IsFiniteSet(S \ T) /\ T \cup (S \ T) = S /\ T \cap (S \ T) = {}
  BY FS_Subset
<1>2. Total(f, T) \in Nat /\ Total(f, S \ T) \in Nat
  BY <1>1, TotalTakes
<1>3. PICK R : R = S \ T
  OBVIOUS
<1>4. Total(f, T \cup R) = Total(f, T) + Total(f, R)
  BY <1>1, <1>3, TotalOfTwo
<1>5. T \cup R = S
  BY <1>3
<1>6. Total(f, S) = Total(f, T) + Total(f, R)
  BY <1>4, <1>5
<1> QED
  BY <1>2, <1>3, <1>6


\* Disjoint parts sum up to no more than the whole.
LEMMA TotalOfParts ==
  ASSUME NEW S, IsFiniteSet(S), NEW f, \A x \in S : f[x] \in Nat,
         NEW I, IsFiniteSet(I), NEW P, NEW g,
         \A i \in I : P[i] \subseteq S /\ g[i] = Total(f, P[i]),
         \A i, j \in I : i # j => P[i] \cap P[j] = {}
  PROVE  Total(g, I) <= Total(f, S)
<1> DEFINE All(J) == UNION {P[i] : i \in J}
           F == {J \in SUBSET I : Total(g, J) = Total(f, All(J))}
<1>1. {} \in F
  <2>1. Total(g, {}) = 0 /\ Total(f, {}) = 0
    BY FS_EmptySet, TotalTakes
  <2>2. All({}) = {}
    OBVIOUS
  <2> QED
    BY <2>1, <2>2
<1>2. \A i \in I : g[i] \in Nat
  BY TotalOfPart
<1>3. \A J \in SUBSET I : All(J) \subseteq S
  OBVIOUS
<1>4. ASSUME NEW J \in F, NEW i \in I \ J PROVE J \cup {i} \in F
  <2>0. J \cup {i} \in SUBSET I /\ (J \cup {i}) \ {i} = J /\ All(J \cup {i}) = All(J) \cup P[i]
    OBVIOUS
  <2>1. PICK K \in SUBSET I : K = J \cup {i} /\ i \in K /\ K \ {i} = J
    BY <2>0
  <2>2. IsFiniteSet(K) /\ \A k \in K : g[k] \in Nat
    BY <1>2, <2>1, FS_Subset
  <2>3. Total(g, K) = g[i] + Total(g, J)
    BY <2>1, <2>2, TotalTakes
  <2>4. PICK U, V : U = All(J) /\ V = P[i] /\ U \subseteq S /\ V \subseteq S
    BY <1>3
  <2>5. U \cap V = {}
    <3>1. \A j \in J : P[j] \cap P[i] = {}
      OBVIOUS
    <3> QED
      BY <2>4, <3>1
  <2>6. IsFiniteSet(U) /\ IsFiniteSet(V) /\ \A x \in U \cup V : f[x] \in Nat
    BY <2>4, FS_Subset
  <2>7. Total(f, U \cup V) = Total(f, U) + Total(f, V)
    BY <2>5, <2>6, TotalOfTwo
  <2>8. Total(f, U) \in Nat /\ Total(f, V) \in Nat
    BY <2>6, TotalTakes
  <2>9. Total(g, J) = Total(f, U) /\ g[i] = Total(f, V)
    BY <2>4
  <2>10. Total(g, K) = Total(f, All(K))
    <3>1. All(K) = U \cup V
      BY <2>0, <2>1, <2>4
    <3> HIDE DEF All
    <3> QED
      BY <2>3, <2>7, <2>8, <2>9, <3>1
  <2> HIDE DEF All
  <2> QED
    BY <2>1, <2>10
<1>5. I \in F
  <2> HIDE DEF F
  <2> QED
    BY <1>1, <1>4, FiniteInduction
<1>6. Total(f, All(I)) <= Total(f, S)
  <2> HIDE DEF All
  <2> QED
    BY <1>3, TotalOfPart
<1> QED
  BY <1>5, <1>6

=============================================================================
