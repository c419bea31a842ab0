------------------------------ MODULE FoldFacts ------------------------------
(***************************************************************************)
(* Facts the folds of the community modules rest on, for any number of     *)
(* elements: induction over the naturals, stated of a set, functions       *)
(* defined by primitive recursion, and what FoldLeft computes.  The other  *)
(* modules of theorems use them for the code's loops over lists, and the   *)
(* facts about least, largest and sums for what it computes from them.     *)
(*                                                                         *)
(* FoldLeft is MapThenFoldSet over the positions of a sequence, the        *)
(* largest one first, and that is a function on sets of positions that is  *)
(* CHOSEN by its recursion.  FoldExists shows that there is one; then the  *)
(* chosen one is iterated by FoldIterates, when every step stays in D.     *)
(***************************************************************************)
EXTENDS Integers, FiniteSets, FiniteSetsExt, FiniteSetTheorems, TLAPS

\* Lemma: a set of naturals that is not empty has a least element.
LEMMA LeastNatural ==
  ASSUME NEW A \in SUBSET Nat, A # {}
  PROVE  \E m \in A : \A k \in A : m <= k
  <1>1. PICK n \in A : TRUE
    OBVIOUS
  <1> DEFINE T == {0 .. k : k \in A}
             R == StrictSubsetOrdering(Nat)
             S == FiniteSubsetsOf(Nat)
  <1>2. T \subseteq S /\ T # {}
    <2>1. \A k \in A : IsFiniteSet(0 .. k) /\ 0 .. k \subseteq Nat
      BY FS_Interval
    <2> QED BY <1>1, <2>1 DEF FiniteSubsetsOf
  <1>3. IsWellFoundedOn(R, S)
    BY FS_StrictSubsetOrderingWellFounded
  <1>4. \E x \in T : \A y \in T : ~ (<<y, x>> \in R)
    <2> HIDE DEF T, R, S
    <2> QED BY <1>2, <1>3, WFMin
  <1>5. PICK m \in A : \A k \in A : <<0 .. k, 0 .. m>> \notin R
    BY <1>4
  <1>6. ASSUME NEW k \in A, k < m PROVE FALSE
    <2>1. 0 .. k \subseteq 0 .. m /\ m \notin 0 .. k /\ m \in 0 .. m
      BY <1>6
    <2>2. <<0 .. k, 0 .. m>> \in R
      BY <2>1 DEF StrictSubsetOrdering
    <2> QED BY <2>2, <1>5
  <1> QED BY <1>6

\* Lemma: a set of naturals with zero and every successor is all of them.
LEMMA InductionOnNaturals ==
  ASSUME NEW A \in SUBSET Nat, 0 \in A, \A n \in A : n + 1 \in A
  PROVE  A = Nat
  <1>1. SUFFICES ASSUME Nat \ A # {} PROVE FALSE
    OBVIOUS
  <1>2. PICK m \in Nat \ A : \A k \in Nat \ A : m <= k
    <2>1. Nat \ A \in SUBSET Nat
      OBVIOUS
    <2> QED BY <1>1, <2>1, LeastNatural
  <1>3. m - 1 \in Nat /\ m - 1 \notin Nat \ A
    BY <1>2
  <1> QED BY <1>2, <1>3

\* Primitive recursion along 1 .. n, in steps that are functions.
Iterates(f, D, base, step, n) ==
  /\ f \in [0 .. n -> D]
  /\ f[0] = base
  /\ \A i \in 1 .. n : f[i] = step[i][f[i - 1]]

\* Lemma: n steps can be taken from any base.
LEMMA IterationExists ==
  ASSUME NEW D, NEW base \in D, NEW n \in Nat, NEW step \in [1 .. n -> [D -> D]]
  PROVE  \E f : Iterates(f, D, base, step, n)
  <1> DEFINE A == {k \in Nat : k <= n => \E f : Iterates(f, D, base, step, k)}
  <1>1. 0 \in A
    <2>1. Iterates([i \in 0 .. 0 |-> base], D, base, step, 0)
      BY DEF Iterates
    <2> QED BY <2>1
  <1>2. ASSUME NEW k \in A PROVE k + 1 \in A
    <2> SUFFICES ASSUME k + 1 <= n PROVE \E f : Iterates(f, D, base, step, k + 1)
      OBVIOUS
    <2>1. PICK f : Iterates(f, D, base, step, k)
      OBVIOUS
    <2> DEFINE g == [i \in 0 .. k + 1 |-> IF i = k + 1 THEN step[k + 1][f[k]] ELSE f[i]]
    <2>2. step[k + 1] \in [D -> D] /\ f[k] \in D
      BY <2>1 DEF Iterates
    <2>3. g \in [0 .. k + 1 -> D]
      BY <2>1, <2>2 DEF Iterates
    <2>4. g[0] = base
      BY <2>1 DEF Iterates
    <2>5. ASSUME NEW i \in 1 .. k + 1 PROVE g[i] = step[i][g[i - 1]]
      BY <2>1 DEF Iterates
    <2> QED BY <2>3, <2>4, <2>5 DEF Iterates
  <1>3. A = Nat
    <2> HIDE DEF A
    <2>1. A \in SUBSET Nat
      BY DEF A
    <2> QED BY <1>1, <1>2, <2>1, InductionOnNaturals
  <1>4. n \in A
    <2> HIDE DEF A
    <2> QED BY <1>3
  <1> QED BY <1>4

\* Lemma: a longer iteration goes through what a shorter one with the same steps reaches.
LEMMA IterationExtends ==
  ASSUME NEW D, NEW base, NEW n \in Nat,
         NEW many, NEW g, Iterates(g, D, base, many, n + 1),
         NEW few, NEW f, Iterates(f, D, base, few, n),
         \A i \in 1 .. n : \A x \in D : many[i][x] = few[i][x]
  PROVE  g[n] = f[n]
  <1> DEFINE A == {k \in Nat : k <= n => g[k] = f[k]}
  <1>1. 0 \in A
    BY DEF Iterates
  <1>2. ASSUME NEW k \in A PROVE k + 1 \in A
    <2> SUFFICES ASSUME k + 1 <= n PROVE g[k + 1] = f[k + 1]
      OBVIOUS
    <2>1. f[k + 1] = few[k + 1][f[k]] /\ g[k + 1] = many[k + 1][g[k]] /\ g[k] \in D
      BY DEF Iterates
    <2> QED BY <2>1
  <1>3. A = Nat
    <2> HIDE DEF A
    <2>1. A \in SUBSET Nat
      BY DEF A
    <2> QED BY <1>1, <1>2, <2>1, InductionOnNaturals
  <1> QED BY <1>3

\* Lemma: the largest of some of the first n naturals.
LEMMA MaxIsLargest ==
  ASSUME NEW n \in Nat, NEW T \in SUBSET (1 .. n), T # {}
  PROVE  Max(T) \in T /\ \A x \in T : x <= Max(T)
  <1>1. \E m \in T : \A x \in T : x <= m
    <2> DEFINE A == {k \in Nat : \A x \in T : x <= k}
    <2>1. A \in SUBSET Nat /\ n \in A
      OBVIOUS
    <2>2. PICK m \in A : \A k \in A : m <= k
      BY <2>1, LeastNatural
    <2>3. m \in T
      <3>1. SUFFICES ASSUME m \notin T PROVE FALSE
        OBVIOUS
      <3>2. \A x \in T : x < m
        BY <3>1, <2>2
      <3>3. m \in Nat /\ m # 0
        <4>1. PICK x \in T : TRUE
          OBVIOUS
        <4>2. x \in 1 .. n /\ x <= m
          BY <2>2
        <4> QED BY <4>2
      <3>4. m - 1 \in Nat /\ \A x \in T : x \in Nat /\ x <= m - 1
        BY <3>2, <3>3
      <3>5. m - 1 \in A
        BY <3>4
      <3> QED BY <3>3, <3>5, <2>2
    <2> QED BY <2>2, <2>3
  <1> QED BY <1>1 DEF Max

\* What MapThenFoldSet computes with, for steps that are functions.
Folds(g, D, base, step, n) ==
  /\ g \in [SUBSET (1 .. n) -> D]
  /\ g[{}] = base
  /\ \A T \in SUBSET (1 .. n) : T # {} => g[T] = step[Max(T)][g[T \ {Max(T)}]]

\* Lemma: the recursion that defines a fold has a solution.
LEMMA FoldExists ==
  ASSUME NEW D, NEW base \in D, NEW n \in Nat, NEW step \in [1 .. n -> [D -> D]]
  PROVE  \E g : Folds(g, D, base, step, n)
  <1> DEFINE P == SUBSET (1 .. n)
             DD == [P -> D]
             start == [T \in P |-> base]
             all == [i \in 1 .. n |-> [h \in DD |-> [T \in P |-> IF i \in T THEN step[i][h[T]] ELSE h[T]]]]
  <1>1. PICK f : Iterates(f, DD, start, all, n)
    <2>1. ASSUME NEW i \in 1 .. n, NEW h \in DD PROVE [T \in P |-> IF i \in T THEN step[i][h[T]] ELSE h[T]] \in DD
      <3>1. step[i] \in [D -> D] /\ \A T \in P : h[T] \in D
        OBVIOUS
      <3> HIDE DEF P
      <3> QED BY <3>1
    <2>2. all \in [1 .. n -> [DD -> DD]]
      <3> HIDE DEF DD, P
      <3> QED BY <2>1
    <2>3. start \in DD
      OBVIOUS
    <2> HIDE DEF DD, start, all
    <2> QED BY <2>2, <2>3, IterationExists
  <1>2. ASSUME NEW i \in 1 .. n, NEW T \in P
        PROVE  f[i][T] = IF i \in T THEN step[i][f[i - 1][T]] ELSE f[i - 1][T]
    <2>1. f[i - 1] \in DD /\ f[i] = all[i][f[i - 1]]
      <3> HIDE DEF DD, all
      <3> QED BY <1>1 DEF Iterates
    <2>2. f[i] = [V \in P |-> IF i \in V THEN step[i][f[i - 1][V]] ELSE f[i - 1][V]]
      <3> HIDE DEF DD, P
      <3> QED BY <2>1
    <2> HIDE DEF P
    <2> QED BY <2>2
  <1>3. \A i \in 0 .. n : f[i] \in DD
    BY <1>1 DEF Iterates
  <1> HIDE DEF DD
  <1>4. ASSUME NEW k \in 0 .. n, NEW T \in P, NEW U \in P, T \cap (1 .. k) = U \cap (1 .. k)
        PROVE  f[k][T] = f[k][U]
    <2> DEFINE A == {i \in Nat : i <= k => f[i][T] = f[i][U]}
    <2>1. 0 \in A
      BY <1>1 DEF Iterates
    <2>2. ASSUME NEW i \in A PROVE i + 1 \in A
      <3> SUFFICES ASSUME i + 1 <= k PROVE f[i + 1][T] = f[i + 1][U]
        OBVIOUS
      <3>1. i + 1 \in 1 .. n /\ (i + 1 \in T <=> i + 1 \in U)
        BY <1>4
      <3> QED BY <3>1, <1>2
    <2>3. A = Nat
      <3>1. A \in SUBSET Nat
        OBVIOUS
      <3> HIDE DEF A
      <3> QED BY <2>1, <2>2, <3>1, InductionOnNaturals
    <2>4. k \in A
      <3> HIDE DEF A
      <3> QED BY <2>3
    <2> QED BY <2>4
  <1>5. ASSUME NEW m \in 0 .. n, NEW T \in P, T \subseteq 1 .. m
        PROVE  f[n][T] = f[m][T]
    <2> DEFINE A == {i \in Nat : i + m <= n => f[i + m][T] = f[m][T]}
    <2>1. 0 \in A
      OBVIOUS
    <2>2. ASSUME NEW i \in A PROVE i + 1 \in A
      <3> SUFFICES ASSUME i + 1 + m <= n PROVE f[i + 1 + m][T] = f[m][T]
        OBVIOUS
      <3>1. i + 1 + m \in 1 .. n /\ i + 1 + m \notin T /\ i + 1 + m - 1 = i + m
        BY <1>5
      <3> QED BY <3>1, <1>2
    <2>3. A = Nat
      <3>1. A \in SUBSET Nat
        OBVIOUS
      <3> HIDE DEF A
      <3> QED BY <2>1, <2>2, <3>1, InductionOnNaturals
    <2>4. n - m \in A
      <3> HIDE DEF A
      <3> QED BY <2>3
    <2> QED BY <2>4
  <1>6. ASSUME NEW T \in P, T # {}
        PROVE  f[n][T] = step[Max(T)][f[n][T \ {Max(T)}]]
    <2> DEFINE m == Max(T)
               U == T \ {m}
    <2>0. m \in T /\ \A x \in T : x <= m
      BY <1>6, MaxIsLargest
    <2> HIDE DEF m
    <2>1. m \in T /\ m \in 1 .. n /\ U \subseteq 1 .. m - 1 /\ T \subseteq 1 .. m /\ U \in P
          /\ T \cap (1 .. m - 1) = U \cap (1 .. m - 1)
      BY <2>0
    <2>2. f[n][T] = f[m][T]
      BY <2>1, <1>5
    <2>3. f[m][T] = step[m][f[m - 1][T]]
      BY <2>1, <1>2
    <2>4. f[m - 1][T] = f[m - 1][U]
      BY <2>1, <1>4
    <2>5. f[n][U] = f[m - 1][U]
      BY <2>1, <1>5
    <2> QED BY <2>2, <2>3, <2>4, <2>5 DEF m
  <1>7. f[n][{}] = base
    BY <1>1, <1>5 DEF Iterates
  <1>8. f[n] \in [P -> D]
    <2>1. n \in 0 .. n
      OBVIOUS
    <2> HIDE DEF P
    <2> QED BY <1>3, <2>1 DEF DD
  <1>9. Folds(f[n], D, base, step, n)
    <2> HIDE DEF all, start
    <2> QED BY <1>6, <1>7, <1>8 DEF Folds
  <1> QED BY <1>9

\* The same of a function whose values need not be in D.
FoldsWithin(g, D, base, step, n) ==
  /\ g[{}] = base
  /\ \A T \in SUBSET (1 .. n) :
       T # {} /\ g[T \ {Max(T)}] \in D => g[T] = step[Max(T)][g[T \ {Max(T)}]]

\* Lemma: and what solves it reaches, of all n elements, what n steps reach.
LEMMA FoldIterates ==
  ASSUME NEW D, NEW base \in D, NEW n \in Nat, NEW step \in [1 .. n -> [D -> D]],
         NEW g, FoldsWithin(g, D, base, step, n)
  PROVE  \E f : Iterates(f, D, base, step, n) /\ f[n] = g[1 .. n]
  <1> USE DEF FoldsWithin
  <1>1. ASSUME NEW i \in 1 .. n, g[1 .. i - 1] \in D
        PROVE  g[1 .. i] = step[i][g[1 .. i - 1]] /\ g[1 .. i] \in D
    <2> DEFINE T == 1 .. i
    <2>1. T \in SUBSET (1 .. n) /\ i \in T
      OBVIOUS
    <2>2. Max(T) \in T /\ \A x \in T : x <= Max(T)
      <3> HIDE DEF T
      <3> QED BY <2>1, MaxIsLargest
    <2>3. Max(T) = i
      BY <2>2
    <2>4. T \ {i} = 1 .. i - 1
      OBVIOUS
    <2>5. g[T] = step[i][g[1 .. i - 1]]
      <3>1. g[T \ {Max(T)}] \in D
        BY <1>1, <2>3, <2>4
      <3> HIDE DEF T
      <3>2. g[T] = step[Max(T)][g[T \ {Max(T)}]]
        BY <2>1, <3>1
      <3> QED BY <2>3, <2>4, <3>2
    <2> QED BY <1>1, <2>5
  <1> DEFINE A == {i \in Nat : i <= n => g[1 .. i] \in D}
  <1>2. A = Nat
    <2>1. A \in SUBSET Nat /\ 0 \in A
      <3>1. 1 .. 0 = {}
        OBVIOUS
      <3> QED BY <3>1
    <2>2. \A i \in A : i + 1 \in A
      BY <1>1
    <2> HIDE DEF A
    <2> QED BY <2>1, <2>2, InductionOnNaturals
  <1>3. \A i \in 0 .. n : g[1 .. i] \in D
    <2>1. \A i \in 0 .. n : i \in A
      BY <1>2
    <2> QED BY <2>1
  <1>4. 1 .. 0 = {}
    OBVIOUS
  <1> DEFINE f == [i \in 0 .. n |-> g[1 .. i]]
  <1>5. Iterates(f, D, base, step, n)
    BY <1>1, <1>3, <1>4 DEF Iterates
  <1> QED BY <1>5
----------------------------------------------------------------------------
(* The least and the largest of a set, and the sum of a function.          *)

\* Lemma: Min is the least element of a set of naturals.
LEMMA MinIsLeast ==
  ASSUME NEW T \in SUBSET Nat, T # {}
  PROVE  Min(T) \in T /\ \A x \in T : Min(T) <= x
  BY LeastNatural DEF Min

\* Lemma: the naturals of a finite set have a bound.
LEMMA FiniteIsBounded ==
  ASSUME NEW T \in SUBSET Nat, IsFiniteSet(T)
  PROVE  \E b \in Nat : \A x \in T : x <= b
  <1> DEFINE n == Cardinality(T)
  <1>1. n \in Nat /\ ExistsBijection(1 .. n, T)
    BY FS_CardinalityType
  <1>2. PICK f \in Bijection(1 .. n, T) : TRUE
    BY <1>1 DEF ExistsBijection
  <1>3. f \in [1 .. n -> T] /\ \A x \in T : \E i \in 1 .. n : f[i] = x
    BY <1>2 DEF Bijection, Injection, Surjection
  <1> HIDE DEF n
  <1> DEFINE A == {k \in Nat : k <= n => \E b \in Nat : \A i \in 1 .. k : f[i] <= b}
  <1>4. 0 \in A
    OBVIOUS
  <1>5. ASSUME NEW k \in A PROVE k + 1 \in A
    <2> SUFFICES ASSUME k + 1 <= n PROVE \E b \in Nat : \A i \in 1 .. k + 1 : f[i] <= b
      OBVIOUS
    <2>1. PICK b \in Nat : \A i \in 1 .. k : f[i] <= b
      BY <1>1
    <2>2. f[k + 1] \in Nat /\ \A i \in 1 .. k : f[i] \in Nat
      <3>1. k + 1 \in 1 .. n /\ \A i \in 1 .. k : i \in 1 .. n
        BY <1>1
      <3> HIDE DEF A
      <3> QED BY <1>3, <3>1
    <2>3. b + f[k + 1] \in Nat /\ \A i \in 1 .. k + 1 : f[i] <= b + f[k + 1]
      <3>1. ASSUME NEW i \in 1 .. k + 1 PROVE f[i] <= b + f[k + 1]
        <4>1. CASE i = k + 1
          BY <4>1, <2>2
        <4>2. CASE i \in 1 .. k
          BY <4>2, <2>1, <2>2
        <4> QED BY <4>1, <4>2
      <3> QED BY <2>2, <3>1
    <2> QED BY <2>3
  <1>6. A = Nat
    <2> HIDE DEF A
    <2>1. A \in SUBSET Nat
      BY DEF A
    <2> QED BY <1>4, <1>5, <2>1, InductionOnNaturals
  <1>7. PICK b \in Nat : \A i \in 1 .. n : f[i] <= b
    <2>1. n \in A
      <3> HIDE DEF A
      <3> QED BY <1>1, <1>6
    <2> QED BY <1>1, <2>1
  <1> QED BY <1>3, <1>7

\* Lemma: Max is the largest element of a finite set of naturals.
LEMMA MaxOfFinite ==
  ASSUME NEW T \in SUBSET Nat, IsFiniteSet(T), T # {}
  PROVE  Max(T) \in T /\ \A x \in T : x <= Max(T)
  <1>1. PICK b \in Nat : \A x \in T : x <= b
    BY FiniteIsBounded
  <1> DEFINE U == {b - x : x \in T}
  <1>2. U \in SUBSET Nat /\ U # {}
    <2>1. \A x \in T : b - x \in Nat
      BY <1>1
    <2> QED BY <2>1
  <1>3. PICK m \in U : \A k \in U : m <= k
    <2> HIDE DEF U
    <2> QED BY <1>2, LeastNatural
  <1>4. PICK x \in T : m = b - x
    BY <1>3
  <1>5. \A y \in T : x >= y
    <2> SUFFICES ASSUME NEW y \in T PROVE x >= y
      OBVIOUS
    <2>1. b - x <= b - y
      BY <1>3, <1>4
    <2> QED BY <2>1
  <1>6. \E z \in T : \A y \in T : z >= y
    BY <1>5
  <1>7. Max(T) \in T /\ \A y \in T : Max(T) >= y
    BY <1>6 DEF Max
  <1> QED BY <1>7

\* Lemma: the values a function has on a finite set are finitely many.
LEMMA FinitelyManyValues ==
  ASSUME NEW D, IsFiniteSet(D), NEW f, DOMAIN f = D
  PROVE  IsFiniteSet({f[x] : x \in D})
  <1> DEFINE V == {f[x] : x \in D}
             g == [x \in D |-> f[x]]
  <1>1. g \in Surjection(D, V)
    BY DEF Surjection
  <1> HIDE DEF V, g
  <1>2. IsFiniteSet(V)
    BY <1>1, FS_Surjection
  <1> QED BY <1>2 DEF V

\* Lemma: the sum of the values of a function, where they are naturals.
LEMMA SumIsNatural ==
  ASSUME NEW D, IsFiniteSet(D), NEW f \in [D -> Nat]
  PROVE  SumFunction(f) \in Nat
  <1> DEFINE P == SUBSET D
             n == Cardinality(D) + 1
             one(T) == CHOOSE x \in T : TRUE
             Step(h) == [T \in P |-> IF T = {} THEN 0 ELSE f[one(T)] + h[T \ {one(T)}]]
             DD == [P -> Nat]
             step == [i \in 1 .. n |-> [h \in DD |-> Step(h)]]
             zero == [T \in P |-> 0]
  <1>1. n \in Nat /\ n - 1 \in Nat /\ n - 1 = Cardinality(D)
    BY FS_CardinalityType
  <1>2. \A T \in P : T # {} => one(T) \in T /\ one(T) \in D /\ T \ {one(T)} \in P
    OBVIOUS
  <1>3. ASSUME NEW h \in DD PROVE Step(h) \in DD
    <2> SUFFICES ASSUME NEW T \in P, T # {} PROVE f[one(T)] + h[T \ {one(T)}] \in Nat
      OBVIOUS
    <2>1. f[one(T)] \in Nat /\ h[T \ {one(T)}] \in Nat
      BY <1>2
    <2> QED BY <2>1
  <1>4. PICK g : Iterates(g, DD, zero, step, n)
    <2>1. step \in [1 .. n -> [DD -> DD]]
      <3> HIDE DEF DD, n, Step
      <3> QED BY <1>3
    <2>2. zero \in DD
      OBVIOUS
    <2> HIDE DEF DD, step, zero, n
    <2> QED BY <1>1, <2>1, <2>2, IterationExists
  <1>5. /\ \A i \in 0 .. n : g[i] \in DD
        /\ g[0] = zero
        /\ \A i \in 1 .. n : g[i] = Step(g[i - 1])
    <2>1. g \in [0 .. n -> DD] /\ g[0] = zero /\ \A i \in 1 .. n : g[i] = step[i][g[i - 1]]
      <3> HIDE DEF DD, step, zero, n
      <3> QED BY <1>4 DEF Iterates
    <2>2. ASSUME NEW i \in 1 .. n PROVE g[i - 1] \in DD
      <3> HIDE DEF DD, step, zero, n
      <3>1. i - 1 \in 0 .. n
        BY <1>1
      <3> QED BY <2>1, <3>1
    <2> HIDE DEF DD, zero, n, Step
    <2> QED BY <2>1, <2>2
  <1> HIDE DEF step, n
  \* After k steps the sums of the sets of fewer than k elements no longer change.
  <1> DEFINE A == {k \in Nat : k + 1 <= n => \A T \in P : Cardinality(T) <= k => g[k + 1][T] = g[k][T]}
  <1>6. 0 \in A
    <2> SUFFICES ASSUME 1 <= n, NEW T \in P, Cardinality(T) <= 0 PROVE g[1][T] = g[0][T]
      BY <1>1
    <2>1. T = {}
      <3>1. IsFiniteSet(T)
        BY FS_Subset
      <3>2. Cardinality(T) \in Nat
        BY <3>1, FS_CardinalityType
      <3> QED BY <3>1, <3>2, FS_EmptySet
    <2>2. g[1] = Step(g[0])
      <3> HIDE DEF Step
      <3>1. 1 \in 1 .. n /\ 1 - 1 = 0
        BY <1>1
      <3> QED BY <3>1, <1>5
    <2> QED BY <2>1, <2>2, <1>5
  <1>7. ASSUME NEW k \in A PROVE k + 1 \in A
    <2> SUFFICES ASSUME k + 2 <= n, NEW T \in P, Cardinality(T) <= k + 1
                 PROVE  g[k + 2][T] = g[k + 1][T]
      OBVIOUS
    <2>1. g[k + 2] = Step(g[k + 1]) /\ g[k + 1] = Step(g[k])
      <3> HIDE DEF Step
      <3>1. k + 2 \in 1 .. n /\ k + 1 \in 1 .. n /\ k + 2 - 1 = k + 1 /\ k + 1 - 1 = k
        BY <1>1
      <3> QED BY <3>1, <1>5
    <2>2. CASE T = {}
      BY <2>1, <2>2
    <2>3. CASE T # {}
      <3> DEFINE x == one(T)
                 U == T \ {x}
      <3>1. x \in T /\ U \in P
        BY <2>3, <1>2
      <3>2. Cardinality(U) <= k
        <4>1. IsFiniteSet(T)
          BY FS_Subset
        <4>2. Cardinality(U) = Cardinality(T) - 1 /\ Cardinality(T) \in Nat
          BY <3>1, <4>1, FS_RemoveElement, FS_CardinalityType
        <4> QED BY <4>2
      <3>3. g[k + 1][U] = g[k][U]
        <4>1. k + 1 <= n
          BY <1>1
        <4> HIDE DEF U, P
        <4> QED BY <3>1, <3>2, <4>1
      <3> QED BY <2>1, <2>3, <3>3
    <2> QED BY <2>2, <2>3
  <1>8. A = Nat
    <2> HIDE DEF A
    <2>1. A \in SUBSET Nat
      BY DEF A
    <2> QED BY <1>6, <1>7, <2>1, InductionOnNaturals
  <1> DEFINE sums == g[n - 1]
  <1>9. sums \in DD /\ sums = Step(sums)
    <2>1. n - 1 \in A
      <3> HIDE DEF A
      <3> QED BY <1>1, <1>8
    <2>2. \A T \in P : Cardinality(T) <= n - 1
      BY <1>1, FS_Subset
    <2>3. \A T \in P : g[n][T] = g[n - 1][T]
      <3>1. (n - 1) + 1 = n /\ (n - 1) + 1 <= n
        BY <1>1
      <3> QED BY <2>1, <2>2, <3>1
    <2>4. n \in 0 .. n /\ n - 1 \in 0 .. n /\ n \in 1 .. n
      BY <1>1
    <2>5. g[n] \in DD /\ g[n - 1] \in DD /\ g[n] = Step(g[n - 1])
      <3> HIDE DEF Step, DD
      <3> QED BY <2>4, <1>5
    <2>6. g[n] = g[n - 1]
      <3>1. g[n] \in [P -> Nat] /\ g[n - 1] \in [P -> Nat]
        BY <2>5
      <3> HIDE DEF P
      <3> QED BY <2>3, <3>1
    <2> HIDE DEF DD, Step
    <2> QED BY <2>5, <2>6
  <1> HIDE DEF A, sums
  <1> DEFINE IsSum(h) == h = [T \in P |-> IF T = {} THEN 0 ELSE f[one(T)] + h[T \ {one(T)}]]
             iter == CHOOSE h : IsSum(h)
  <1>10. SumFunction(f) = iter[D]
    <2>1. DOMAIN f = D
      OBVIOUS
    <2> QED BY <2>1 DEF SumFunction, SumFunctionOnSet, FoldFunctionOnSet, MapThenFoldSet
  <1>11. IsSum(iter)
    <2>1. \E h : IsSum(h)
      BY <1>9
    <2> HIDE DEF IsSum
    <2> QED BY <2>1
  <1> HIDE DEF iter
  \* By the same count of elements, every sum is a natural number.
  <1> DEFINE B == {k \in Nat : \A T \in P : Cardinality(T) <= k => iter[T] \in Nat}
  <1>12. 0 \in B
    <2> SUFFICES ASSUME NEW T \in P, Cardinality(T) <= 0 PROVE iter[T] \in Nat
      OBVIOUS
    <2>1. IsFiniteSet(T)
      BY FS_Subset
    <2>2. Cardinality(T) \in Nat
      BY <2>1, FS_CardinalityType
    <2>3. T = {}
      BY <2>1, <2>2, FS_EmptySet
    <2> QED BY <2>3, <1>11
  <1>13. ASSUME NEW k \in B PROVE k + 1 \in B
    <2> SUFFICES ASSUME NEW T \in P, Cardinality(T) <= k + 1 PROVE iter[T] \in Nat
      OBVIOUS
    <2>1. CASE T = {}
      BY <2>1, <1>11
    <2>2. CASE T # {}
      <3> DEFINE x == one(T)
                 U == T \ {x}
      <3>1. x \in T /\ x \in D /\ U \in P
        BY <2>2, <1>2
      <3>2. Cardinality(U) <= k
        <4>1. IsFiniteSet(T)
          BY FS_Subset
        <4>2. Cardinality(U) = Cardinality(T) - 1 /\ Cardinality(T) \in Nat
          BY <3>1, <4>1, FS_RemoveElement, FS_CardinalityType
        <4> QED BY <4>2
      <3>3. iter[U] \in Nat
        <4> HIDE DEF U, P
        <4> QED BY <3>1, <3>2
      <3>4. iter[T] = f[x] + iter[U]
        BY <2>2, <1>11
      <3> QED BY <3>1, <3>3, <3>4
    <2> QED BY <2>1, <2>2
  <1>14. B = Nat
    <2> HIDE DEF B
    <2>1. B \in SUBSET Nat
      BY DEF B
    <2> QED BY <1>12, <1>13, <2>1, InductionOnNaturals
  <1>15. D \in P /\ Cardinality(D) <= Cardinality(D) /\ Cardinality(D) \in B
    <2> HIDE DEF B
    <2> QED BY <1>1, <1>14, FS_CardinalityType
  <1> QED BY <1>10, <1>15

\* Lemma: the largest of finitely many naturals, or zero if there are none.
LEMMA LargestOrZero ==
  ASSUME NEW V \in SUBSET Nat, IsFiniteSet(V)
  PROVE  /\ Max({0} \cup V) \in Nat /\ Max({0} \cup V) \in {0} \cup V
         /\ \A x \in V : x <= Max({0} \cup V)
  <1> DEFINE W == {0} \cup V
  <1>1. IsFiniteSet(W)
    BY FS_Singleton, FS_Union
  <1>2. W \in SUBSET Nat /\ W # {}
    OBVIOUS
  <1>3. Max(W) \in W /\ \A x \in W : x <= Max(W)
    <2> HIDE DEF W
    <2> QED BY <1>1, <1>2, MaxOfFinite
  <1> QED BY <1>2, <1>3

==============================================================================
